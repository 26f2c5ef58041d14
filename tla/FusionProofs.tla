----------------------------- MODULE FusionProofs -----------------------------
(***************************************************************************)
(* Proofs about the rank fusion of SearchRanking, for every set of chunks,  *)
(* every K, every fusion constant and every results of the two searches.    *)
(*                                                                         *)
(* FusionInv says what the map of scores holds after any part of the two    *)
(* loops; the order that the sort leaves follows from the scores.           *)
(***************************************************************************)
EXTENDS RankingProofs, FiniteSetTheorems

\* A chunk is among the first n of a list.
In(list, n, d) == \E p \in 1..n : list[p] = d

\* The score of an entry, when n hits of the keyword search and m of the vector
\* search have been entered.
ScoredBy(e, t, n, k, m) ==
  \/ \E p \in 1..n :
       t[p] = e.doc /\ ~In(k, m, e.doc) /\ e.num = 1 /\ e.den = RRF_CONSTANT + p
  \/ \E q \in 1..m :
       k[q] = e.doc /\ ~In(t, n, e.doc) /\ e.num = 1 /\ e.den = RRF_CONSTANT + q
  \/ \E p \in 1..n, q \in 1..m :
       /\ t[p] = e.doc /\ k[q] = e.doc
       /\ e.num = (RRF_CONSTANT + q) + (RRF_CONSTANT + p)
       /\ e.den = (RRF_CONSTANT + p) * (RRF_CONSTANT + q)

\* The map has one entry for each of those hits, with its score, and no other.
IsFusion(es, t, n, k, m) ==
  /\ \A p, q \in DOMAIN es : es[p].doc = es[q].doc => p = q
  /\ \A p \in DOMAIN es : ScoredBy(es[p], t, n, k, m)
  /\ \A p \in 1..n : \E q \in DOMAIN es : es[q].doc = t[p]
  /\ \A p \in 1..m : \E q \in DOMAIN es : es[q].doc = k[p]

\* Results of a search.
IsResult(list) ==
  /\ Len(list) <= 2 * K
  /\ \A p, q \in DOMAIN list : list[p] = list[q] => p = q

TextDone == IF i < Len(text) THEN i ELSE Len(text)

Ranked == \E s \in Sortings(entries) : ranked = Top(entries, s)

FusionInv ==
  /\ IsResult(text) /\ IsResult(knn)
  /\ pc = "search" => entries = <<>> /\ i = 0
  /\ pc = "fuse" =>
       /\ i <= Len(text) + Len(knn)
       /\ IsFusion(entries, text, TextDone, knn, i - TextDone)
  /\ pc \in {"reorder", "done"} =>
       /\ IsFusion(entries, text, Len(text), knn, Len(knn))
       /\ Ranked

-----------------------------------------------------------------------------
(* The two loops.                                                           *)

\* No chunk is in a search result twice.
LEMMA HitsAreResults ==
  ASSUME NEW h \in Hits PROVE IsResult(h)
<1>1. PICK n \in 0..(2 * K) : h \in [1..n -> Docs] /\ \A p, q \in 1..n : h[p] = h[q] => p = q
  BY DEF Hits
<1>2. n \in Nat /\ n <= 2 * K
  BY RankingAssumption
<1>3. DOMAIN h = 1..n /\ Len(h) = n
  BY <1>1, <1>2
<1>4. QED
  BY <1>1, <1>2, <1>3 DEF IsResult

\* An empty map.
LEMMA EmptyFusion ==
  ASSUME NEW t, NEW k PROVE IsFusion(<<>>, t, 0, k, 0)
BY DEF IsFusion

\* A new entry at the end of the map, for a chunk that it has none for.
LEMMA AppendEntry ==
  ASSUME NEW es \in Seq(Entry), NEW e \in Entry,
         \A p \in DOMAIN es : es[p].doc # e.doc
  PROVE  /\ DOMAIN Append(es, e) = 1..(Len(es) + 1)
         /\ \A p \in DOMAIN es : Append(es, e)[p] = es[p]
         /\ Append(es, e)[Len(es) + 1] = e /\ Len(es) \in Nat
         /\ DOMAIN es = 1..Len(es)
         /\ (\A p, q \in DOMAIN es : es[p].doc = es[q].doc => p = q) =>
              \A p, q \in DOMAIN Append(es, e) :
                Append(es, e)[p].doc = Append(es, e)[q].doc => p = q
<1> DEFINE f == Append(es, e)
<1>1. /\ DOMAIN f = 1..(Len(es) + 1) /\ f[Len(es) + 1] = e /\ Len(es) \in Nat
      /\ DOMAIN es = 1..Len(es) /\ \A p \in DOMAIN es : f[p] = es[p]
  OBVIOUS
<1> HIDE DEF f
<1>2. ASSUME \A p, q \in DOMAIN es : es[p].doc = es[q].doc => p = q,
             NEW p \in DOMAIN f, NEW q \in DOMAIN f, f[p].doc = f[q].doc
      PROVE  p = q
  <2>1. (p \in DOMAIN es \/ p = Len(es) + 1) /\ (q \in DOMAIN es \/ q = Len(es) + 1)
    BY <1>1
  <2>2. QED
    BY <1>1, <1>2, <2>1
<1>3. QED
  BY <1>1, <1>2 DEF f

\* One more hit of the keyword search.
LEMMA TextEntry ==
  ASSUME NEW t \in Seq(Docs), NEW k \in Seq(Docs), IsResult(t),
         NEW n \in Nat, n < Len(t), NEW es \in Seq(Entry), IsFusion(es, t, n, k, 0)
  PROVE  IsFusion(Append(es, [doc |-> t[n + 1], num |-> 1, den |-> RRF_CONSTANT + n + 1]),
                  t, n + 1, k, 0)
<1> DEFINE e == [doc |-> t[n + 1], num |-> 1, den |-> RRF_CONSTANT + n + 1]
           f == Append(es, e)
<1>1. e \in Entry
  <2>1. t[n + 1] \in Docs /\ RRF_CONSTANT + n + 1 \in Nat \ {0}
    BY RankingAssumption
  <2>2. QED
    BY <2>1 DEF Entry
<1>2. /\ Len(t) \in Nat /\ DOMAIN t = 1..Len(t) /\ n + 1 \in 1..Len(t)
      /\ \A p \in 1..n : p \in 1..Len(t) /\ p # n + 1 /\ p \in 1..(n + 1)
  OBVIOUS
<1>3. ASSUME NEW p \in DOMAIN es PROVE es[p].doc # t[n + 1]
  <2>1. \E q \in 1..n : t[q] = es[p].doc
    BY <1>3 DEF IsFusion, ScoredBy
  <2>2. QED
    BY <1>2, <2>1 DEF IsResult
<1>4. e.doc = t[n + 1] /\ e.num = 1 /\ e.den = RRF_CONSTANT + (n + 1)
  BY RankingAssumption
<1> HIDE DEF e
<1>5. /\ DOMAIN f = 1..(Len(es) + 1) /\ DOMAIN es = 1..Len(es) /\ Len(es) \in Nat
      /\ f[Len(es) + 1] = e /\ \A p \in DOMAIN es : f[p] = es[p]
      /\ \A p, q \in DOMAIN f : f[p].doc = f[q].doc => p = q
  BY <1>1, <1>3, <1>4, AppendEntry DEF IsFusion
<1> HIDE DEF f
<1>6. ASSUME NEW p \in DOMAIN f PROVE ScoredBy(f[p], t, n + 1, k, 0)
  <2>1. CASE p \in DOMAIN es
    <3>1. ScoredBy(es[p], t, n, k, 0) /\ f[p] = es[p]
      BY <1>5, <2>1 DEF IsFusion
    <3>2. PICK q \in 1..n : t[q] = es[p].doc /\ es[p].num = 1 /\ es[p].den = RRF_CONSTANT + q
      BY <3>1 DEF ScoredBy
    <3>3. QED
      BY <1>2, <3>1, <3>2 DEF ScoredBy, In
  <2>2. CASE p = Len(es) + 1
    <3>1. n + 1 \in 1..(n + 1)
      OBVIOUS
    <3>2. QED
      BY <1>4, <1>5, <2>2, <3>1 DEF ScoredBy, In
  <2>3. QED
    BY <1>5, <2>1, <2>2
<1>7. ASSUME NEW p \in 1..(n + 1) PROVE \E q \in DOMAIN f : f[q].doc = t[p]
  <2>1. CASE p = n + 1
    <3>1. Len(es) + 1 \in DOMAIN f
      BY <1>5
    <3>2. f[Len(es) + 1].doc = t[p]
      BY <1>4, <1>5, <2>1
    <3>3. QED
      BY <3>1, <3>2
  <2>2. CASE p # n + 1
    <3>1. p \in 1..n
      BY <2>2
    <3>2. PICK q \in DOMAIN es : es[q].doc = t[p]
      BY <3>1 DEF IsFusion
    <3>3. QED
      BY <1>5, <3>2
  <2>3. QED
    BY <2>1, <2>2
<1>8. IsFusion(f, t, n + 1, k, 0)
  BY <1>5, <1>6, <1>7 DEF IsFusion
<1>9. QED
  BY <1>8 DEF f, e

\* One more hit of the vector search, of a chunk that has no entry.
LEMMA KnnNewEntry ==
  ASSUME NEW t \in Seq(Docs), NEW k \in Seq(Docs), IsResult(k),
         NEW n \in Nat, NEW m \in Nat, m < Len(k),
         NEW es \in Seq(Entry), IsFusion(es, t, n, k, m),
         \A p \in DOMAIN es : es[p].doc # k[m + 1]
  PROVE  IsFusion(Append(es, [doc |-> k[m + 1], num |-> 1, den |-> RRF_CONSTANT + m + 1]),
                  t, n, k, m + 1)
<1> DEFINE e == [doc |-> k[m + 1], num |-> 1, den |-> RRF_CONSTANT + m + 1]
           f == Append(es, e)
<1>1. e \in Entry
  <2>1. k[m + 1] \in Docs /\ RRF_CONSTANT + m + 1 \in Nat \ {0}
    BY RankingAssumption
  <2>2. QED
    BY <2>1 DEF Entry
<1>2. /\ Len(k) \in Nat /\ DOMAIN k = 1..Len(k) /\ m + 1 \in 1..Len(k)
      /\ m + 1 \in 1..(m + 1)
      /\ \A p \in 1..m : p \in 1..Len(k) /\ p # m + 1 /\ p \in 1..(m + 1)
      /\ \A p \in 1..(m + 1) : p \in 1..m \/ p = m + 1
  OBVIOUS
<1>3. e.doc = k[m + 1] /\ e.num = 1 /\ e.den = RRF_CONSTANT + (m + 1)
  BY RankingAssumption
<1> HIDE DEF e
<1>4. /\ DOMAIN f = 1..(Len(es) + 1) /\ DOMAIN es = 1..Len(es) /\ Len(es) \in Nat
      /\ f[Len(es) + 1] = e /\ \A p \in DOMAIN es : f[p] = es[p]
      /\ \A p, q \in DOMAIN f : f[p].doc = f[q].doc => p = q
  BY <1>1, <1>3, AppendEntry DEF IsFusion
<1> HIDE DEF f
<1>5. ~In(t, n, k[m + 1])
  <2>1. ASSUME NEW p \in 1..n PROVE t[p] # k[m + 1]
    <3>1. PICK q \in DOMAIN es : es[q].doc = t[p]
      BY DEF IsFusion
    <3>2. QED
      BY <3>1
  <2>2. QED
    BY <2>1 DEF In
<1>6. ASSUME NEW p \in DOMAIN f PROVE ScoredBy(f[p], t, n, k, m + 1)
  <2>1. CASE p \in DOMAIN es
    <3>1. ScoredBy(es[p], t, n, k, m) /\ f[p] = es[p] /\ es[p].doc # k[m + 1]
      BY <1>4, <2>1 DEF IsFusion
    <3>2. In(k, m + 1, es[p].doc) => In(k, m, es[p].doc)
      BY <1>2, <3>1 DEF In
    <3>3. QED
      BY <1>2, <3>1, <3>2 DEF ScoredBy
  <2>2. CASE p = Len(es) + 1
    BY <1>2, <1>3, <1>4, <1>5, <2>2 DEF ScoredBy
  <2>3. QED
    BY <1>4, <2>1, <2>2
<1>7. ASSUME NEW p \in 1..n PROVE \E q \in DOMAIN f : f[q].doc = t[p]
  <2>1. PICK q \in DOMAIN es : es[q].doc = t[p]
    BY DEF IsFusion
  <2>2. q \in DOMAIN f /\ f[q] = es[q]
    BY <1>4
  <2>3. QED
    BY <2>1, <2>2
<1>8. ASSUME NEW p \in 1..(m + 1) PROVE \E q \in DOMAIN f : f[q].doc = k[p]
  <2>1. CASE p = m + 1
    <3>1. Len(es) + 1 \in DOMAIN f
      BY <1>4
    <3>2. f[Len(es) + 1].doc = k[p]
      BY <1>3, <1>4, <2>1
    <3>3. QED
      BY <3>1, <3>2
  <2>2. CASE p \in 1..m
    <3>1. PICK q \in DOMAIN es : es[q].doc = k[p]
      BY <2>2 DEF IsFusion
    <3>2. QED
      BY <1>4, <3>1
  <2>3. QED
    BY <1>2, <2>1, <2>2
<1>9. IsFusion(f, t, n, k, m + 1)
  BY <1>4, <1>6, <1>7, <1>8 DEF IsFusion
<1>10. QED
  BY <1>9 DEF f, e

\* One more hit of the vector search, of a chunk that the other search found too.
LEMMA KnnAddedEntry ==
  ASSUME NEW t \in Seq(Docs), NEW k \in Seq(Docs), IsResult(k),
         NEW n \in Nat, NEW m \in Nat, m < Len(k),
         NEW es \in Seq(Entry), IsFusion(es, t, n, k, m),
         NEW x \in DOMAIN es, es[x].doc = k[m + 1]
  PROVE  IsFusion([p \in DOMAIN es |->
                     IF es[p].doc = k[m + 1] THEN Plus(es[p], RRF_CONSTANT + m + 1) ELSE es[p]],
                  t, n, k, m + 1)
<1> DEFINE d == RRF_CONSTANT + (m + 1)
           f == [p \in DOMAIN es |->
                   IF es[p].doc = k[m + 1] THEN Plus(es[p], RRF_CONSTANT + m + 1) ELSE es[p]]
<1>1. RRF_CONSTANT + m + 1 = d /\ d \in Nat \ {0} /\ \A e \in Entry : Plus(e, d).doc = e.doc
  <2>1. RRF_CONSTANT + m + 1 = d /\ d \in Nat \ {0}
    <3> HIDE DEF f
    <3>1. RRF_CONSTANT \in Nat
      BY RankingAssumption
    <3>2. QED
      BY <3>1
  <2> HIDE DEF d
  <2>2. \A e \in Entry : Plus(e, d).doc = e.doc
    BY DEF Plus, Entry
  <2>3. QED
    BY <2>1, <2>2
<1>2. /\ Len(k) \in Nat /\ DOMAIN k = 1..Len(k) /\ m + 1 \in 1..Len(k)
      /\ m + 1 \in 1..(m + 1)
      /\ \A p \in 1..m : p \in 1..Len(k) /\ p # m + 1 /\ p \in 1..(m + 1)
      /\ \A p \in 1..(m + 1) : p \in 1..m \/ p = m + 1
  OBVIOUS
<1>3. \A p \in DOMAIN es : es[p] \in Entry
  OBVIOUS
<1>4. DOMAIN f = DOMAIN es /\ f[x] = Plus(es[x], d)
  BY <1>1
<1>5. \A p \in DOMAIN es : p # x => f[p] = es[p] /\ es[p].doc # k[m + 1]
  BY DEF IsFusion
<1> HIDE DEF d, f
<1>6. \A p \in DOMAIN es : f[p].doc = es[p].doc
  BY <1>1, <1>3, <1>4, <1>5
<1>7. ~In(k, m, k[m + 1])
  BY <1>2 DEF In, IsResult
<1>8. ScoredBy(f[x], t, n, k, m + 1)
  <2>1. ScoredBy(es[x], t, n, k, m)
    BY DEF IsFusion
  <2>2. PICK p \in 1..n : /\ t[p] = es[x].doc /\ es[x].num = 1
                          /\ es[x].den = RRF_CONSTANT + p
    BY <1>7, <2>1 DEF ScoredBy, In
  <2>3. /\ f[x].doc = es[x].doc
        /\ f[x].num = es[x].num * d + es[x].den /\ f[x].den = es[x].den * d
    BY <1>3, <1>4 DEF Plus, Entry
  <2>4. 1 * d + (RRF_CONSTANT + p) = d + (RRF_CONSTANT + p)
    BY <1>1, RankingAssumption
  <2>5. /\ t[p] = f[x].doc /\ k[m + 1] = f[x].doc
        /\ f[x].num = (RRF_CONSTANT + (m + 1)) + (RRF_CONSTANT + p)
        /\ f[x].den = (RRF_CONSTANT + p) * (RRF_CONSTANT + (m + 1))
    BY <2>2, <2>3, <2>4 DEF d
  <2>6. QED
    BY <1>2, <2>5 DEF ScoredBy
<1>9. ASSUME NEW p \in DOMAIN es, p # x PROVE ScoredBy(f[p], t, n, k, m + 1)
  <2>1. ScoredBy(es[p], t, n, k, m) /\ f[p] = es[p] /\ es[p].doc # k[m + 1]
    BY <1>5, <1>9 DEF IsFusion
  <2>2. In(k, m + 1, es[p].doc) => In(k, m, es[p].doc)
    BY <1>2, <2>1 DEF In
  <2>3. QED
    BY <1>2, <2>1, <2>2 DEF ScoredBy
<1>10. ASSUME NEW p \in 1..(m + 1) PROVE \E q \in DOMAIN es : es[q].doc = k[p]
  BY <1>2 DEF IsFusion
<1>11. IsFusion(f, t, n, k, m + 1)
  BY <1>4, <1>6, <1>8, <1>9, <1>10 DEF IsFusion
<1>12. QED
  BY <1>11 DEF f

\* One more hit of the vector search.
LEMMA KnnEntry ==
  ASSUME NEW t \in Seq(Docs), NEW k \in Seq(Docs), IsResult(k),
         NEW n \in Nat, NEW m \in Nat, m < Len(k),
         NEW es \in Seq(Entry), IsFusion(es, t, n, k, m)
  PROVE  IsFusion(Fused(es, k[m + 1], RRF_CONSTANT + m + 1), t, n, k, m + 1)
<1>1. CASE \E p \in DOMAIN es : es[p].doc = k[m + 1]
  BY <1>1, KnnAddedEntry DEF Fused
<1>2. CASE ~\E p \in DOMAIN es : es[p].doc = k[m + 1]
  BY <1>2, KnnNewEntry DEF Fused
<1>3. QED
  BY <1>1, <1>2

\* The invariant survives the two loops, and the sort keeps what they made.
LEMMA StepKeepsFusion ==
  ASSUME RankingInv, RankingInv', FusionInv, [Next]_vars
  PROVE  FusionInv'
<1>1. /\ text \in Seq(Docs) /\ knn \in Seq(Docs) /\ entries \in Seq(Entry) /\ i \in Nat
      /\ Len(text) \in Nat /\ Len(knn) \in Nat
  BY DEF RankingInv, TypeOK
<1>2. CASE Search
  <2>1. UNCHANGED <<i, entries, ranked>> /\ entries = <<>> /\ i = 0 /\ pc' \in {"fuse", "failed"}
    BY <1>2 DEF Search, FusionInv
  <2>2. IsResult(text') /\ IsResult(knn')
    BY <1>2, HitsAreResults DEF Search, FusionInv
  <2>3. Len(text') \in Nat /\ Len(knn') \in Nat
    BY DEF RankingInv, TypeOK
  <2>4. TextDone' = 0
    BY <2>1, <2>3 DEF TextDone
  <2>5. IsFusion(entries', text', TextDone', knn', i' - TextDone')
    BY <2>1, <2>4, EmptyFusion
  <2>6. QED
    BY <2>1, <2>2, <2>3, <2>5 DEF FusionInv
<1>3. CASE AddText
  <2>1. /\ pc = "fuse" /\ pc' = "fuse" /\ i < Len(text) /\ i' = i + 1
        /\ text' = text /\ knn' = knn
        /\ entries' = Append(entries,
             [doc |-> text[i + 1], num |-> 1, den |-> RRF_CONSTANT + i + 1])
    BY <1>3 DEF AddText
  <2>2. TextDone = i /\ TextDone' = i + 1 /\ i - TextDone = 0 /\ i' - TextDone' = 0
    BY <1>1, <2>1 DEF TextDone
  <2>3. IsResult(text) /\ IsResult(knn) /\ IsFusion(entries, text, i, knn, 0)
    BY <2>1, <2>2 DEF FusionInv
  <2>4. IsFusion(entries', text, i + 1, knn, 0)
    BY <1>1, <2>1, <2>3, TextEntry
  <2>5. i' <= Len(text) + Len(knn)
    BY <1>1, <2>1
  <2>6. QED
    BY <2>1, <2>2, <2>3, <2>4, <2>5 DEF FusionInv
<1>4. CASE AddKnn
  <2> DEFINE rank == i - Len(text)
  <2>1. /\ pc = "fuse" /\ pc' = "fuse" /\ rank \in Nat /\ rank < Len(knn) /\ i' = i + 1
        /\ text' = text /\ knn' = knn
        /\ entries' = Fused(entries, knn[rank + 1], RRF_CONSTANT + rank + 1)
    BY <1>1, <1>4 DEF AddKnn
  <2>2. /\ TextDone = Len(text) /\ TextDone' = Len(text)
        /\ i - TextDone = rank /\ i' - TextDone' = rank + 1
    <3>1. ~(i < Len(text)) /\ ~(i + 1 < Len(text)) /\ i + 1 - Len(text) = rank + 1
      BY <1>1, <2>1
    <3>2. QED
      <4>1. TextDone = Len(text) /\ TextDone' = Len(text)
        BY <2>1, <3>1 DEF TextDone
      <4>2. QED
        BY <1>1, <2>1, <3>1, <4>1
  <2>3. IsResult(text) /\ IsResult(knn) /\ IsFusion(entries, text, Len(text), knn, rank)
    BY <2>1, <2>2 DEF FusionInv
  <2>4. i' <= Len(text) + Len(knn)
    BY <1>1, <2>1
  <2> HIDE DEF rank
  <2>5. IsFusion(entries', text, Len(text), knn, rank + 1)
    BY <1>1, <2>1, <2>3, KnnEntry
  <2>6. QED
    BY <2>1, <2>2, <2>3, <2>4, <2>5 DEF FusionInv
<1>5. CASE Rank
  <2>1. /\ pc = "fuse" /\ pc' = "reorder" /\ i = Len(text) + Len(knn)
        /\ text' = text /\ knn' = knn /\ entries' = entries
        /\ \E s \in Sortings(entries) : ranked' = Top(entries, s)
    BY <1>5 DEF Rank
  <2>2. TextDone = Len(text) /\ i - TextDone = Len(knn)
    BY <1>1, <2>1 DEF TextDone
  <2>3. Ranked'
    BY <2>1 DEF Ranked
  <2>4. QED
    BY <2>1, <2>2, <2>3 DEF FusionInv
<1>6. CASE Place
  <2>1. pc = "reorder" /\ pc' = "reorder" /\ UNCHANGED <<text, knn, entries, ranked>>
    BY <1>6 DEF Place
  <2>2. Ranked' = Ranked
    BY <2>1 DEF Ranked
  <2>3. QED
    BY <2>1, <2>2 DEF FusionInv
<1>7. CASE Return
  <2>1. pc = "reorder" /\ pc' = "done" /\ UNCHANGED <<text, knn, entries, ranked>>
    BY <1>7 DEF Return
  <2>2. Ranked' = Ranked
    BY <2>1 DEF Ranked
  <2>3. QED
    BY <2>1, <2>2 DEF FusionInv
<1>8. CASE UNCHANGED vars
  <2>1. TextDone' = TextDone /\ Ranked' = Ranked
    BY <1>8 DEF vars, TextDone, Ranked
  <2>2. QED
    BY <1>8, <2>1 DEF vars, FusionInv
<1>9. QED
  BY <1>2, <1>3, <1>4, <1>5, <1>6, <1>7, <1>8 DEF Next, Finished

-----------------------------------------------------------------------------
(* The order of the results.                                                *)

\* Where a chunk is in a list that has none twice.
LEMMA PlaceProperties ==
  ASSUME NEW list \in Seq(Docs), \A p, q \in DOMAIN list : list[p] = list[q] => p = q,
         NEW d
  PROVE  /\ PlaceIn(list, d) \in 1..(Len(list) + 1)
         /\ \A p \in DOMAIN list : list[p] = d => PlaceIn(list, d) = p
         /\ PlaceIn(list, d) <= Len(list) =>
              PlaceIn(list, d) \in DOMAIN list /\ list[PlaceIn(list, d)] = d
         /\ PlaceIn(list, d) > Len(list) <=> ~In(list, Len(list), d)
<1>1. Len(list) \in Nat /\ DOMAIN list = 1..Len(list)
  OBVIOUS
<1>2. CASE \E p \in DOMAIN list : list[p] = d
  <2>1. PlaceIn(list, d) = CHOOSE p \in DOMAIN list : list[p] = d
    BY <1>2 DEF PlaceIn
  <2>2. PlaceIn(list, d) \in DOMAIN list /\ list[PlaceIn(list, d)] = d
    BY <1>2, <2>1
  <2>3. QED
    BY <1>1, <2>2 DEF In
<1>3. CASE ~\E p \in DOMAIN list : list[p] = d
  <2>1. PlaceIn(list, d) = Len(list) + 1
    BY <1>3 DEF PlaceIn
  <2>2. QED
    BY <1>1, <1>3, <2>1 DEF In
<1>4. QED
  BY <1>2, <1>3

\* The sort puts each entry at one place, and a greater one before.
LEMMA SortingProperties ==
  ASSUME NEW es \in Seq(Entry), NEW s \in Sortings(es)
  PROVE  /\ s \in [1..Len(es) -> 1..Len(es)]
         /\ \A p \in 1..Len(es) : \E q \in 1..Len(es) : s[q] = p
         /\ \A p, q \in 1..Len(es) : s[p] = s[q] => p = q
         /\ \A p, q \in 1..Len(es) : Greater(es[s[p]], es[s[q]]) => p < q
<1>1. /\ Len(es) \in Nat /\ DOMAIN es = 1..Len(es) /\ s \in [1..Len(es) -> 1..Len(es)]
      /\ \A p \in 1..Len(es) : \E q \in 1..Len(es) : s[q] = p
      /\ \A p, q \in 1..Len(es) : p < q => Precedes(es, s[p], s[q])
  <2>1. Len(es) \in Nat /\ DOMAIN es = 1..Len(es)
    OBVIOUS
  <2>2. QED
    BY <2>1, Zenon DEF Sortings
<1>2. \A p \in 1..Len(es) : es[p].num \in Nat /\ es[p].den \in Nat
  <2>1. \A p \in 1..Len(es) : es[p] \in Entry
    OBVIOUS
  <2>2. QED
    BY <2>1 DEF Entry
<1>3. \A a, b \in Nat : a * b \in Nat
  OBVIOUS
<1>4. \A p, q \in 1..Len(es) : Greater(es[p], es[q]) => ~Greater(es[q], es[p])
  <2>1. ASSUME NEW p \in 1..Len(es), NEW q \in 1..Len(es)
        PROVE  es[p].num * es[q].den \in Nat /\ es[q].num * es[p].den \in Nat
    BY <1>2, <1>3
  <2>2. \A a, b \in Nat : a > b => ~(b > a)
    OBVIOUS
  <2>3. QED
    BY <2>1, <2>2 DEF Greater
<1>5. ASSUME NEW p \in 1..Len(es), NEW q \in 1..Len(es), Greater(es[s[p]], es[s[q]])
      PROVE  p < q
  <2>1. ~Greater(es[s[q]], es[s[p]]) /\ s[p] \in 1..Len(es) /\ s[q] \in 1..Len(es)
    BY <1>1, <1>4, <1>5
  <2>2. p # q
    BY <1>5, <2>1
  <2>3. ~(q < p)
    BY <1>1, <1>5, <2>1 DEF Precedes
  <2>4. QED
    BY <1>1, <2>2, <2>3
<1>6. ASSUME NEW p \in 1..Len(es), NEW q \in 1..Len(es), p < q PROVE s[p] # s[q]
  <2>1. Precedes(es, s[p], s[q]) /\ s[p] \in 1..Len(es) /\ s[q] \in 1..Len(es)
    BY <1>1, <1>6
  <2>2. ~Greater(es[s[p]], es[s[p]])
    BY <1>4, <2>1
  <2>3. ~(s[p] < s[p])
    BY <1>1, <2>1
  <2>4. QED
    BY <2>1, <2>2, <2>3 DEF Precedes
<1>7. ASSUME NEW p \in 1..Len(es), NEW q \in 1..Len(es), s[p] = s[q] PROVE p = q
  <2>1. ~(p < q) /\ ~(q < p)
    BY <1>6, <1>7
  <2>2. QED
    BY <1>1, <2>1
<1>8. QED
  BY <1>1, <1>5, <1>7

\* What the slice leaves has no chunk twice, and of two chunks the one with the
\* greater score first.
LEMMA RankedProperties ==
  ASSUME RankingInv, FusionInv, pc \in {"reorder", "done"}
  PROVE  /\ ranked \in Seq(Docs)
         /\ Len(ranked) = IF Len(entries) < K THEN Len(entries) ELSE K
         /\ \A p, q \in DOMAIN ranked : ranked[p] = ranked[q] => p = q
         /\ \A p, q \in DOMAIN entries :
              Greater(entries[p], entries[q]) =>
                /\ PlaceIn(ranked, entries[p].doc) <= PlaceIn(ranked, entries[q].doc)
                /\ PlaceIn(ranked, entries[q].doc) <= Len(ranked) =>
                     PlaceIn(ranked, entries[p].doc) < PlaceIn(ranked, entries[q].doc)
<1>1. PICK s \in Sortings(entries) : ranked = Top(entries, s)
  BY DEF FusionInv, Ranked
<1> DEFINE n == Len(entries)
           length == IF n < K THEN n ELSE K
<1>2. entries \in Seq(Entry) /\ n \in Nat /\ DOMAIN entries = 1..n /\ ranked \in Seq(Docs)
  BY DEF RankingInv, TypeOK
<1>3. length \in Nat /\ length <= n
  BY <1>2, RankingAssumption
<1>4. /\ s \in [1..n -> 1..n]
      /\ \A p \in 1..n : \E q \in 1..n : s[q] = p
      /\ \A p, q \in 1..n : s[p] = s[q] => p = q
      /\ \A p, q \in 1..n : Greater(entries[s[p]], entries[s[q]]) => p < q
  BY <1>2, SortingProperties
<1>5. ranked = [p \in 1..length |-> entries[s[p]].doc]
  BY <1>1 DEF Top
<1>6. \A p, q \in 1..n : entries[p].doc = entries[q].doc => p = q
  BY <1>2 DEF FusionInv, IsFusion
<1> HIDE DEF n, length
<1>7. DOMAIN ranked = 1..length /\ Len(ranked) = length
  BY <1>2, <1>3, <1>5
<1>8. \A p \in 1..length : p \in 1..n /\ ranked[p] = entries[s[p]].doc /\ s[p] \in 1..n
  <2>1. ASSUME NEW p \in 1..length PROVE p \in 1..n
    BY <1>2, <1>3
  <2>2. QED
    BY <1>4, <1>5, <2>1
<1>9. ASSUME NEW p \in DOMAIN ranked, NEW q \in DOMAIN ranked, ranked[p] = ranked[q]
      PROVE  p = q
  <2>1. p \in 1..length /\ q \in 1..length
    BY <1>7
  <2>2. s[p] = s[q]
    BY <1>6, <1>8, <1>9, <2>1
  <2>3. QED
    BY <1>4, <1>8, <2>1, <2>2
<1>10. ASSUME NEW p \in 1..n, NEW q \in 1..n, s[q] = p
       PROVE  PlaceIn(ranked, entries[p].doc) = IF q <= length THEN q ELSE length + 1
  <2>1. CASE q <= length
    <3>1. q \in DOMAIN ranked /\ ranked[q] = entries[p].doc
      BY <1>2, <1>3, <1>7, <1>8, <1>10, <2>1
    <3>2. QED
      BY <1>2, <1>9, <2>1, <3>1, PlaceProperties
  <2>2. CASE ~(q <= length)
    <3>1. ASSUME NEW x \in DOMAIN ranked PROVE ranked[x] # entries[p].doc
      <4>1. x \in 1..length /\ x # q /\ x \in 1..n
        BY <1>2, <1>3, <1>7, <1>8, <2>2
      <4>2. s[x] # p
        BY <1>4, <1>10, <4>1
      <4>3. QED
        BY <1>6, <1>8, <4>1, <4>2
    <3>2. QED
      BY <1>7, <2>2, <3>1 DEF PlaceIn
  <2>3. QED
    BY <2>1, <2>2
<1>11. ASSUME NEW p \in 1..n, NEW q \in 1..n, Greater(entries[p], entries[q])
       PROVE  /\ PlaceIn(ranked, entries[p].doc) <= PlaceIn(ranked, entries[q].doc)
              /\ PlaceIn(ranked, entries[q].doc) <= length =>
                   PlaceIn(ranked, entries[p].doc) < PlaceIn(ranked, entries[q].doc)
  <2>1. PICK a \in 1..n : s[a] = p
    BY <1>4
  <2>2. PICK b \in 1..n : s[b] = q
    BY <1>4
  <2>3. a < b
    BY <1>4, <1>11, <2>1, <2>2
  <2>4. /\ PlaceIn(ranked, entries[p].doc) = IF a <= length THEN a ELSE length + 1
        /\ PlaceIn(ranked, entries[q].doc) = IF b <= length THEN b ELSE length + 1
    BY <1>10, <2>1, <2>2
  <2>5. QED
    BY <1>2, <1>3, <2>3, <2>4
<1>12. QED
  BY <1>2, <1>7, <1>9, <1>11 DEF n, length

-----------------------------------------------------------------------------
(* Scores.                                                                  *)

\* A sum of fractions is greater when no term is smaller and one is greater, or
\* when it has a term more.
LEMMA MoreTermsScoreMore ==
  ASSUME NEW a \in Nat \ {0}, NEW b \in Nat \ {0}, NEW x \in Nat, a <= x
  PROVE  /\ (b + a) * x > 1 * (a * b)
         /\ (a + b) * x > 1 * (a * b)
         /\ (a + b) * x > 1 * (b * a)
<1>1. a * b <= x * b /\ x \in Nat \ {0}
  BY SMT
<1>2. a * x \in Nat \ {0}
  BY <1>1, SMT
<1>3. (b + a) * x = x * b + a * x /\ (a + b) * x = x * b + a * x
  BY SMT
<1>4. a * b \in Nat /\ x * b \in Nat /\ b * a = a * b /\ 1 * (a * b) = a * b /\ 1 * (b * a) = a * b
  BY <1>1, SMT
<1>5. QED
  BY <1>1, <1>2, <1>3, <1>4

\* Two terms against two.
LEMMA BetterTermsScoreMore ==
  ASSUME NEW a \in Nat \ {0}, NEW b \in Nat \ {0}, NEW x \in Nat, NEW y \in Nat,
         a <= x, b <= y, a < x \/ b < y
  PROVE  (b + a) * (x * y) > (y + x) * (a * b)
<1>1. x * y \in Nat \ {0} /\ a * b \in Nat \ {0} /\ x \in Nat \ {0} /\ y \in Nat \ {0}
  BY SMT
<1>2. (b + a) * (x * y) = (b * y) * x + (a * x) * y
  BY SMT
<1>3. (y + x) * (a * b) = (b * y) * a + (a * x) * b
  BY SMT
<1> DEFINE p == b * y
           q == a * x
<1>4. p \in Nat \ {0} /\ q \in Nat \ {0}
  BY <1>1, SMT
<1> HIDE DEF p, q
<1>5. /\ p * a <= p * x /\ q * b <= q * y
      /\ a < x => p * a < p * x
      /\ b < y => q * b < q * y
  BY <1>1, <1>4, SMT
<1>6. p * a \in Nat /\ p * x \in Nat /\ q * b \in Nat /\ q * y \in Nat
  BY <1>1, <1>4, SMT
<1>7. p * x + q * y > p * a + q * b
  BY <1>5, <1>6
<1>8. QED
  BY <1>2, <1>3, <1>7 DEF p, q

\* Two low ranks outweigh any other, if none of them is twice as large.
LEMMA TwoTermsOutweighOne ==
  ASSUME NEW a \in Nat \ {0}, NEW b \in Nat \ {0}, NEW x \in Nat \ {0},
         a < 2 * x, b < 2 * x
  PROVE  (b + a) * x > 1 * (a * b)
<1>1. a * b < a * (2 * x) /\ b * a < b * (2 * x)
  BY SMT
<1>2. a * (2 * x) = 2 * (a * x) /\ b * (2 * x) = 2 * (b * x) /\ b * a = a * b
  BY SMT
<1>3. (b + a) * x = b * x + a * x /\ 1 * (a * b) = a * b
  BY SMT
<1>4. a * b \in Nat /\ a * x \in Nat /\ b * x \in Nat
  BY SMT
<1>5. QED
  BY <1>1, <1>2, <1>3, <1>4

\* The score of an entry, by the places of its chunk in the two results.
LEMMA ScoreByPlaces ==
  ASSUME RankingInv, FusionInv, pc \in {"reorder", "done"}, NEW p \in DOMAIN entries,
         NEW a, NEW b, a = PlaceIn(text, entries[p].doc), b = PlaceIn(knn, entries[p].doc)
  PROVE  /\ a \in 1..(Len(text) + 1) /\ b \in 1..(Len(knn) + 1)
         /\ a <= Len(text) => text[a] = entries[p].doc
         /\ b <= Len(knn) => knn[b] = entries[p].doc
         /\ a <= Len(text) /\ b > Len(knn) =>
              entries[p].num = 1 /\ entries[p].den = RRF_CONSTANT + a
         /\ a > Len(text) /\ b <= Len(knn) =>
              entries[p].num = 1 /\ entries[p].den = RRF_CONSTANT + b
         /\ a <= Len(text) /\ b <= Len(knn) =>
              /\ entries[p].num = (RRF_CONSTANT + b) + (RRF_CONSTANT + a)
              /\ entries[p].den = (RRF_CONSTANT + a) * (RRF_CONSTANT + b)
         /\ a <= Len(text) \/ b <= Len(knn)
<1> DEFINE d == entries[p].doc
<1>1. /\ text \in Seq(Docs) /\ knn \in Seq(Docs)
      /\ \A q, r \in DOMAIN text : text[q] = text[r] => q = r
      /\ \A q, r \in DOMAIN knn : knn[q] = knn[r] => q = r
      /\ ScoredBy(entries[p], text, Len(text), knn, Len(knn))
  BY DEF RankingInv, TypeOK, FusionInv, IsResult, IsFusion
<1>2. /\ Len(text) \in Nat /\ Len(knn) \in Nat
      /\ DOMAIN text = 1..Len(text) /\ DOMAIN knn = 1..Len(knn)
  BY <1>1
<1>3. /\ a \in 1..(Len(text) + 1)
      /\ \A q \in DOMAIN text : text[q] = d => a = q
      /\ a <= Len(text) => a \in DOMAIN text /\ text[a] = d
      /\ a > Len(text) <=> ~In(text, Len(text), d)
  BY <1>1, PlaceProperties
<1>4. /\ b \in 1..(Len(knn) + 1)
      /\ \A q \in DOMAIN knn : knn[q] = d => b = q
      /\ b <= Len(knn) => b \in DOMAIN knn /\ knn[b] = d
      /\ b > Len(knn) <=> ~In(knn, Len(knn), d)
  BY <1>1, PlaceProperties
<1> HIDE DEF d
<1>5. \/ a <= Len(text) /\ b > Len(knn) /\ entries[p].num = 1
           /\ entries[p].den = RRF_CONSTANT + a
      \/ a > Len(text) /\ b <= Len(knn) /\ entries[p].num = 1
           /\ entries[p].den = RRF_CONSTANT + b
      \/ /\ a <= Len(text) /\ b <= Len(knn)
         /\ entries[p].num = (RRF_CONSTANT + b) + (RRF_CONSTANT + a)
         /\ entries[p].den = (RRF_CONSTANT + a) * (RRF_CONSTANT + b)
  <2>1. CASE \E q \in 1..Len(text) :
               /\ text[q] = d /\ ~In(knn, Len(knn), d)
               /\ entries[p].num = 1 /\ entries[p].den = RRF_CONSTANT + q
    BY <1>2, <1>3, <1>4, <2>1
  <2>2. CASE \E q \in 1..Len(knn) :
               /\ knn[q] = d /\ ~In(text, Len(text), d)
               /\ entries[p].num = 1 /\ entries[p].den = RRF_CONSTANT + q
    BY <1>2, <1>3, <1>4, <2>2
  <2>3. CASE \E q \in 1..Len(text), r \in 1..Len(knn) :
               /\ text[q] = d /\ knn[r] = d
               /\ entries[p].num = (RRF_CONSTANT + r) + (RRF_CONSTANT + q)
               /\ entries[p].den = (RRF_CONSTANT + q) * (RRF_CONSTANT + r)
    <3>1. PICK q \in 1..Len(text), r \in 1..Len(knn) :
               /\ text[q] = d /\ knn[r] = d
               /\ entries[p].num = (RRF_CONSTANT + r) + (RRF_CONSTANT + q)
               /\ entries[p].den = (RRF_CONSTANT + q) * (RRF_CONSTANT + r)
      BY <2>3
    <3>2. a = q /\ b = r
      BY <1>2, <1>3, <1>4, <3>1
    <3>3. a <= Len(text) /\ b <= Len(knn)
      BY <1>2, <3>2
    <3>4. QED
      BY <3>1, <3>2, <3>3
  <2>4. QED
    BY <1>1, <2>1, <2>2, <2>3 DEF ScoredBy, d
<1>6. ~(a <= Len(text) /\ a > Len(text)) /\ ~(b <= Len(knn) /\ b > Len(knn))
  BY <1>2, <1>3, <1>4
<1>7. QED
  BY <1>3, <1>4, <1>5, <1>6 DEF d

\* A chunk that no search puts below another has the greater score.
LEMMA AgreedScoresMore ==
  ASSUME RankingInv, FusionInv, pc \in {"reorder", "done"},
         NEW p \in DOMAIN entries, NEW q \in DOMAIN entries,
         entries[p].doc # entries[q].doc,
         PlaceIn(text, entries[p].doc) <= PlaceIn(text, entries[q].doc),
         PlaceIn(knn, entries[p].doc) <= PlaceIn(knn, entries[q].doc)
  PROVE  Greater(entries[p], entries[q])
<1> DEFINE C == RRF_CONSTANT
           a == PlaceIn(text, entries[p].doc)
           b == PlaceIn(knn, entries[p].doc)
           x == PlaceIn(text, entries[q].doc)
           y == PlaceIn(knn, entries[q].doc)
           e == entries[p]
           f == entries[q]
           n == Len(text)
           m == Len(knn)
<1>1. C \in Nat /\ n \in Nat /\ m \in Nat
  BY RankingAssumption DEF RankingInv, TypeOK
<1>2. /\ a \in 1..(n + 1) /\ b \in 1..(m + 1)
      /\ a <= n => text[a] = e.doc
      /\ b <= m => knn[b] = e.doc
      /\ a <= n /\ b > m => e.num = 1 /\ e.den = C + a
      /\ a > n /\ b <= m => e.num = 1 /\ e.den = C + b
      /\ a <= n /\ b <= m => e.num = (C + b) + (C + a) /\ e.den = (C + a) * (C + b)
      /\ a <= n \/ b <= m
  BY ScoreByPlaces
<1>3. /\ x \in 1..(n + 1) /\ y \in 1..(m + 1)
      /\ x <= n => text[x] = f.doc
      /\ y <= m => knn[y] = f.doc
      /\ x <= n /\ y > m => f.num = 1 /\ f.den = C + x
      /\ x > n /\ y <= m => f.num = 1 /\ f.den = C + y
      /\ x <= n /\ y <= m => f.num = (C + y) + (C + x) /\ f.den = (C + x) * (C + y)
      /\ x <= n \/ y <= m
  BY ScoreByPlaces
<1>4. a <= x /\ b <= y /\ e.doc # f.doc
  OBVIOUS
<1> HIDE DEF a, b, x, y, e, f, n, m, C
<1>5. /\ a \in Nat \ {0} /\ b \in Nat \ {0} /\ x \in Nat \ {0} /\ y \in Nat \ {0}
      /\ C + a \in Nat \ {0} /\ C + b \in Nat \ {0} /\ C + x \in Nat \ {0} /\ C + y \in Nat \ {0}
      /\ C + a <= C + x /\ C + b <= C + y
      /\ x <= n => a <= n /\ a < x /\ C + a < C + x
      /\ y <= m => b <= m /\ b < y /\ C + b < C + y
  <2>1. x <= n => a # x
    BY <1>1, <1>2, <1>3, <1>4
  <2>2. y <= m => b # y
    BY <1>1, <1>2, <1>3, <1>4
  <2>3. a \in Nat \ {0} /\ b \in Nat \ {0} /\ x \in Nat \ {0} /\ y \in Nat \ {0}
    BY <1>1, <1>2, <1>3
  <2>4. QED
    BY <1>1, <1>4, <2>1, <2>2, <2>3
<1>6. e.num * f.den > f.num * e.den
  <2>1. CASE x <= n /\ y > m
    <3>1. CASE b <= m
      <4>1. /\ e.num = (C + b) + (C + a) /\ e.den = (C + a) * (C + b)
            /\ f.num = 1 /\ f.den = C + x
        BY <1>2, <1>3, <1>5, <2>1, <3>1
      <4>2. ((C + b) + (C + a)) * (C + x) > 1 * ((C + a) * (C + b))
        BY <1>5, MoreTermsScoreMore
      <4>3. QED
        BY <4>1, <4>2
    <3>2. CASE ~(b <= m)
      <4>1. b > m
        BY <1>1, <1>5, <3>2
      <4>2. e.num = 1 /\ e.den = C + a /\ f.num = 1 /\ f.den = C + x
        BY <1>2, <1>3, <1>5, <2>1, <4>1
      <4>3. QED
        BY <1>5, <2>1, <4>2
    <3>3. QED
      BY <3>1, <3>2
  <2>2. CASE x > n /\ y <= m
    <3>1. CASE a <= n
      <4>1. /\ e.num = (C + b) + (C + a) /\ e.den = (C + a) * (C + b)
            /\ f.num = 1 /\ f.den = C + y
        BY <1>2, <1>3, <1>5, <2>2, <3>1
      <4>2. ((C + b) + (C + a)) * (C + y) > 1 * ((C + a) * (C + b))
        BY <1>5, MoreTermsScoreMore
      <4>3. QED
        BY <4>1, <4>2
    <3>2. CASE ~(a <= n)
      <4>1. a > n
        BY <1>1, <1>5, <3>2
      <4>2. e.num = 1 /\ e.den = C + b /\ f.num = 1 /\ f.den = C + y
        BY <1>2, <1>3, <1>5, <2>2, <4>1
      <4>3. QED
        BY <1>5, <2>2, <4>2
    <3>3. QED
      BY <3>1, <3>2
  <2>3. CASE x <= n /\ y <= m
    <3>1. /\ e.num = (C + b) + (C + a) /\ e.den = (C + a) * (C + b)
          /\ f.num = (C + y) + (C + x) /\ f.den = (C + x) * (C + y)
      BY <1>2, <1>3, <1>5, <2>3
    <3>2. ((C + b) + (C + a)) * ((C + x) * (C + y)) > ((C + y) + (C + x)) * ((C + a) * (C + b))
      BY <1>5, <2>3, BetterTermsScoreMore
    <3>3. QED
      BY <3>1, <3>2
  <2>4. (x > n \/ x <= n) /\ (y > m \/ y <= m)
    BY <1>1, <1>5
  <2>5. QED
    BY <1>3, <2>1, <2>2, <2>3, <2>4
<1>7. QED
  BY <1>6 DEF Greater, e, f

\* A chunk that both searches found has a greater score than one that one of them
\* found, if the last rank is worth more than half of the first.
LEMMA BothScoreMore ==
  ASSUME RankingInv, FusionInv, pc \in {"reorder", "done"}, 2 * K < RRF_CONSTANT + 2,
         NEW p \in DOMAIN entries, NEW q \in DOMAIN entries,
         PlaceIn(text, entries[p].doc) <= Len(text), PlaceIn(knn, entries[p].doc) <= Len(knn),
         \/ PlaceIn(text, entries[q].doc) > Len(text)
         \/ PlaceIn(knn, entries[q].doc) > Len(knn)
  PROVE  Greater(entries[p], entries[q])
<1> DEFINE C == RRF_CONSTANT
           a == PlaceIn(text, entries[p].doc)
           b == PlaceIn(knn, entries[p].doc)
           x == PlaceIn(text, entries[q].doc)
           y == PlaceIn(knn, entries[q].doc)
           e == entries[p]
           f == entries[q]
           n == Len(text)
           m == Len(knn)
<1>1. /\ C \in Nat /\ n \in Nat /\ m \in Nat /\ K \in Nat
      /\ n <= 2 * K /\ m <= 2 * K /\ 2 * K < C + 2
  BY RankingAssumption DEF RankingInv, TypeOK, FusionInv, IsResult
<1>2. /\ a \in 1..(n + 1) /\ b \in 1..(m + 1) /\ a <= n /\ b <= m
      /\ e.num = (C + b) + (C + a) /\ e.den = (C + a) * (C + b)
  BY ScoreByPlaces
<1>3. /\ x \in 1..(n + 1) /\ y \in 1..(m + 1)
      /\ x <= n /\ y > m => f.num = 1 /\ f.den = C + x
      /\ x > n /\ y <= m => f.num = 1 /\ f.den = C + y
      /\ x <= n \/ y <= m
      /\ x > n \/ y > m
  BY ScoreByPlaces
<1> HIDE DEF a, b, x, y, e, f, n, m, C
<1>4. \E z \in Nat \ {0} : f.num = 1 /\ f.den = C + z
  <2>1. x \in Nat \ {0} /\ y \in Nat \ {0}
    BY <1>1, <1>3
  <2>2. (x > n /\ y <= m) \/ (x <= n /\ y > m)
    BY <1>1, <1>3, <2>1
  <2>3. QED
    BY <1>3, <2>1, <2>2
<1>5. PICK z \in Nat \ {0} : f.num = 1 /\ f.den = C + z
  BY <1>4
<1>6. /\ C + a \in Nat \ {0} /\ C + b \in Nat \ {0} /\ C + z \in Nat \ {0}
      /\ C + a < 2 * (C + z) /\ C + b < 2 * (C + z)
  BY <1>1, <1>2
<1>7. ((C + b) + (C + a)) * (C + z) > 1 * ((C + a) * (C + b))
  BY <1>6, TwoTermsOutweighOne
<1>8. e.num * f.den > f.num * e.den
  BY <1>2, <1>5, <1>7
<1>9. QED
  BY <1>8 DEF Greater, e, f

\* Every chunk that was found has an entry.
LEMMA FoundHasEntry ==
  ASSUME RankingInv, FusionInv, pc \in {"reorder", "done"}
  PROVE  /\ \A d \in Found : \E p \in DOMAIN entries : entries[p].doc = d
         /\ \A p \in DOMAIN entries : entries[p].doc \in Found
<1>1. text \in Seq(Docs) /\ knn \in Seq(Docs)
  BY DEF RankingInv, TypeOK
<1>2. DOMAIN text = 1..Len(text) /\ DOMAIN knn = 1..Len(knn)
  BY <1>1
<1>3. \A d \in Found : \E p \in DOMAIN entries : entries[p].doc = d
  BY <1>2 DEF Found, FusionInv, IsFusion
<1>4. ASSUME NEW p \in DOMAIN entries PROVE entries[p].doc \in Found
  <2>1. ScoredBy(entries[p], text, Len(text), knn, Len(knn))
    BY DEF FusionInv, IsFusion
  <2>2. (\E q \in DOMAIN text : text[q] = entries[p].doc)
          \/ (\E q \in DOMAIN knn : knn[q] = entries[p].doc)
    BY <1>2, <2>1 DEF ScoredBy
  <2>3. QED
    BY <2>2 DEF Found
<1>5. QED
  BY <1>3, <1>4

\* Both searches together found as many chunks as there are entries.
LEMMA FoundCount ==
  ASSUME RankingInv, FusionInv, pc \in {"reorder", "done"}
  PROVE  Cardinality(Found) = Len(entries)
<1> DEFINE n == Len(entries)
           f == [p \in 1..n |-> entries[p].doc]
<1>1. n \in Nat /\ DOMAIN entries = 1..n
  BY DEF RankingInv, TypeOK
<1>2. \A p, q \in 1..n : entries[p].doc = entries[q].doc => p = q
  BY <1>1 DEF FusionInv, IsFusion
<1>3. /\ \A d \in Found : \E p \in 1..n : entries[p].doc = d
      /\ \A p \in 1..n : entries[p].doc \in Found
  BY <1>1, FoundHasEntry
<1> HIDE DEF n
<1>4. f \in Bijection(1..n, Found)
  BY <1>2, <1>3 DEF Bijection, Injection, Surjection, IsInjective
<1>5. ExistsBijection(1..n, Found)
  BY <1>4 DEF ExistsBijection
<1>6. QED
  BY <1>1, <1>5, FS_CountingElements DEF n

-----------------------------------------------------------------------------
(* Theorems.                                                                *)

\* Nothing is in the map before the searches have answered.
LEMMA InitEstablishesFusion ==
  ASSUME Init PROVE FusionInv
<1>1. IsResult(<<>>)
  BY RankingAssumption DEF IsResult
<1>2. QED
  BY <1>1 DEF Init, FusionInv

\* What the map rrfScores holds at any point of the two loops of hybridSearch
\* (opensearch.repository.ts), and that the results are the best of it.
THEOREM FusionInvariant == Spec => []FusionInv
<1>1. Init => FusionInv
  BY InitEstablishesFusion
<1>2. RankingInv /\ RankingInv' /\ FusionInv /\ [Next]_vars => FusionInv'
  BY StepKeepsFusion
<1>3. QED
  BY <1>1, <1>2, RankingInvariant, PTL DEF Spec

\* Fusion keeps what both searches agree on, whatever they return and whatever the
\* constant is.
THEOREM AgreementStays == Spec => []AgreementIsKept
<1>1. RankingInv /\ FusionInv => AgreementIsKept
  <2> SUFFICES ASSUME RankingInv, FusionInv, pc \in {"reorder", "done"},
                      NEW d \in Found, NEW e \in Found,
                      PlaceIn(text, d) <= PlaceIn(text, e),
                      PlaceIn(knn, d) <= PlaceIn(knn, e),
                      d # e
               PROVE  /\ PlaceIn(ranked, d) <= PlaceIn(ranked, e)
                      /\ PlaceIn(ranked, e) <= Len(ranked) => PlaceIn(ranked, d) <= Len(ranked)
    BY DEF AgreementIsKept
  <2>1. PICK p \in DOMAIN entries : entries[p].doc = d
    BY FoundHasEntry
  <2>2. PICK q \in DOMAIN entries : entries[q].doc = e
    BY FoundHasEntry
  <2>3. Greater(entries[p], entries[q])
    BY <2>1, <2>2, AgreedScoresMore
  <2>4. PlaceIn(ranked, d) <= PlaceIn(ranked, e)
    BY <2>1, <2>2, <2>3, RankedProperties
  <2>5. /\ ranked \in Seq(Docs)
        /\ \A r, s \in DOMAIN ranked : ranked[r] = ranked[s] => r = s
    BY RankedProperties
  <2>6. PlaceIn(ranked, d) \in Nat /\ PlaceIn(ranked, e) \in Nat /\ Len(ranked) \in Nat
    BY <2>5, PlaceProperties
  <2>7. QED
    BY <2>4, <2>6
<1>2. QED
  BY <1>1, RankingInvariant, FusionInvariant, PTL

\* Two low ranks outweigh one high rank whenever 2 * K < RRF_CONSTANT + 2: for the
\* constant of the code, up to k = 30.
THEOREM BothOutweigh ==
  ASSUME 2 * K < RRF_CONSTANT + 2 PROVE Spec => []BothOutweighOne
<1>1. RankingInv /\ FusionInv => BothOutweighOne
  <2> SUFFICES ASSUME RankingInv, FusionInv, pc \in {"reorder", "done"},
                      NEW d \in Found, NEW e \in Found,
                      PlaceIn(text, d) <= Len(text), PlaceIn(knn, d) <= Len(knn),
                      \/ PlaceIn(text, e) > Len(text)
                      \/ PlaceIn(knn, e) > Len(knn),
                      PlaceIn(ranked, e) <= Len(ranked)
               PROVE  PlaceIn(ranked, d) < PlaceIn(ranked, e)
    BY DEF BothOutweighOne
  <2>1. PICK p \in DOMAIN entries : entries[p].doc = d
    BY FoundHasEntry
  <2>2. PICK q \in DOMAIN entries : entries[q].doc = e
    BY FoundHasEntry
  <2>3. Greater(entries[p], entries[q])
    BY <2>1, <2>2, BothScoreMore
  <2>4. QED
    BY <2>1, <2>2, <2>3, RankedProperties
<1>2. QED
  BY <1>1, RankingInvariant, FusionInvariant, PTL

\* No chunk is in the context of the model twice, and as many are there as were
\* wanted and found: neither the fusion nor the reordering repeats or loses one.
THEOREM NoChunkIsRepeated == Spec => []NoChunkTwice
<1>1. RankingInv /\ FusionInv => NoChunkTwice
  <2> SUFFICES ASSUME RankingInv, FusionInv, pc = "done" PROVE NoChunkTwice
    BY DEF NoChunkTwice
  <2> DEFINE n == Len(ranked)
             from(p) == IF 2 * p - 1 <= n THEN 2 * p - 1 ELSE 2 * (n - p + 1)
  <2>1. /\ ranked \in Seq(Docs) /\ n = IF Len(entries) < K THEN Len(entries) ELSE K
        /\ \A p, q \in DOMAIN ranked : ranked[p] = ranked[q] => p = q
    BY RankedProperties
  <2>2. n \in Nat /\ DOMAIN ranked = 1..n /\ i = n /\ context \in Seq(Docs \cup {None})
    BY <2>1 DEF RankingInv, PlacedInv, TypeOK
  <2>3. /\ Len(context) = n
        /\ \A p \in 1..n :
             context[p] = IF 2 * p - 1 <= n THEN ranked[2 * p - 1]
                            ELSE IF 2 * (n - p + 1) <= n THEN ranked[2 * (n - p + 1)]
                            ELSE None
    BY <2>2 DEF RankingInv, BestAreOutermost
  <2> HIDE DEF n
  <2>4. DOMAIN context = 1..n
    BY <2>2, <2>3
  <2>5. ASSUME NEW p \in 1..n
        PROVE  from(p) \in 1..n /\ context[p] = ranked[from(p)]
    <3>1. CASE 2 * p - 1 <= n
      BY <2>2, <2>3, <3>1
    <3>2. CASE ~(2 * p - 1 <= n)
      <4>1. 2 * (n - p + 1) <= n /\ 2 * (n - p + 1) \in 1..n
        BY <2>2, <3>2
      <4>2. QED
        BY <2>3, <3>2, <4>1
    <3>3. QED
      BY <3>1, <3>2
  <2>6. ASSUME NEW p \in 1..n, NEW q \in 1..n, from(p) = from(q) PROVE p = q
    BY <2>2, <2>6
  <2>7. \A p, q \in DOMAIN context : context[p] = context[q] => p = q
    <3> HIDE DEF from
    <3>1. QED
      BY <2>1, <2>2, <2>4, <2>5, <2>6
  <2>8. Cardinality(Found) = Len(entries)
    BY FoundCount
  <2>9. QED
    BY <2>1, <2>3, <2>7, <2>8 DEF NoChunkTwice, n
<1>2. QED
  BY <1>1, RankingInvariant, FusionInvariant, PTL

=============================================================================
