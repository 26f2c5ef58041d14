----------------------------- MODULE RankingProofs -----------------------------
(***************************************************************************)
(* Proofs about SearchRanking, for every set of chunks, every K and every   *)
(* results of the two searches.                                             *)
(***************************************************************************)
EXTENDS SearchRanking, SequenceTheorems, TLAPS

\* The two pointers of strategicReorder have met half of i steps each, the left
\* one the odd step more: what they have not passed is what is left to place.
PointersInv ==
  pc = "reorder" =>
    /\ i <= Len(ranked)
    /\ 2 * left = i + 2 + (i % 2)
    /\ 2 * right = 2 * Len(ranked) - i + (i % 2)

\* At the end the loop has placed every chunk.
PlacedInv == pc = "done" => i = Len(ranked)

RankingInv == TypeOK /\ PointersInv /\ PlacedInv /\ BestAreOutermost

-----------------------------------------------------------------------------

\* Nothing is ranked before the searches have answered.
LEMMA InitKeepsInv == Init => RankingInv
BY SMT DEF Init, RankingInv, TypeOK, PointersInv, PlacedInv, BestAreOutermost

\* The hits of a search are a list of chunks.
LEMMA HitsType == \A h \in Hits : h \in Seq(Docs)
BY DEF Hits

\* A search result that arrives is well formed.
LEMMA SearchKeepsInv == RankingInv /\ Search => RankingInv'
<1> SUFFICES ASSUME RankingInv, Search PROVE RankingInv'
  OBVIOUS
<1>1. TypeOK'
  BY HitsType DEF RankingInv, TypeOK, Search
<1>2. pc' \in {"fuse", "failed"}
  BY DEF Search
<1>3. QED
  BY <1>1, <1>2 DEF RankingInv, PointersInv, PlacedInv, BestAreOutermost

\* A hit of the keyword search gets an entry with a positive score.
LEMMA AddTextKeepsInv == RankingInv /\ AddText => RankingInv'
<1> SUFFICES ASSUME RankingInv, AddText PROVE RankingInv'
  OBVIOUS
<1>1. TypeOK'
  <2>1. text[i + 1] \in Docs /\ i \in Nat
    BY DEF RankingInv, TypeOK, AddText
  <2>2. [doc |-> text[i + 1], num |-> 1, den |-> RRF_CONSTANT + i + 1] \in Entry
    BY <2>1, RankingAssumption DEF Entry
  <2>3. entries' \in Seq(Entry) /\ i' \in Nat
    BY <2>1, <2>2 DEF RankingInv, TypeOK, AddText
  <2>4. QED
    BY <2>3 DEF RankingInv, TypeOK, AddText
<1>2. QED
  BY <1>1 DEF RankingInv, PointersInv, PlacedInv, BestAreOutermost, AddText

\* A sum of two positive scores is one.
LEMMA PlusType ==
  ASSUME NEW e \in Entry, NEW d \in Nat \ {0}
  PROVE  Plus(e, d) \in Entry
<1>1. e.num * d + e.den \in Nat \ {0} /\ e.den * d \in Nat \ {0}
  <2>1. e.num \in Nat \ {0} /\ e.den \in Nat \ {0}
    BY DEF Entry
  <2>2. \A a, b \in Nat \ {0} : a * b \in Nat \ {0}
    BY SMT
  <2>3. QED
    BY <2>1, <2>2
<1>2. QED
  BY <1>1 DEF Plus, Entry

\* The map keeps its type through a hit of the vector search.
LEMMA FusedType ==
  ASSUME NEW es \in Seq(Entry), NEW d \in Docs, NEW den \in Nat \ {0}
  PROVE  Fused(es, d, den) \in Seq(Entry)
<1>1. [doc |-> d, num |-> 1, den |-> den] \in Entry
  BY DEF Entry
<1>2. Append(es, [doc |-> d, num |-> 1, den |-> den]) \in Seq(Entry)
  BY <1>1
<1>3. \A p \in DOMAIN es : es[p] \in Entry /\ Plus(es[p], den) \in Entry
  BY PlusType
<1>4. [p \in DOMAIN es |-> IF es[p].doc = d THEN Plus(es[p], den) ELSE es[p]]
        \in Seq(Entry)
  BY <1>3
<1>5. QED
  BY <1>2, <1>4 DEF Fused

\* A hit of the vector search is entered or added.
LEMMA AddKnnKeepsInv == RankingInv /\ AddKnn => RankingInv'
<1> SUFFICES ASSUME RankingInv, AddKnn PROVE RankingInv'
  OBVIOUS
<1> DEFINE rank == i - Len(text)
<1>1. TypeOK'
  <2>1. rank \in Nat /\ rank + 1 \in DOMAIN knn
    BY DEF RankingInv, TypeOK, AddKnn
  <2>2. knn[rank + 1] \in Docs /\ RRF_CONSTANT + rank + 1 \in Nat \ {0}
    BY <2>1, RankingAssumption DEF RankingInv, TypeOK
  <2>3. entries' \in Seq(Entry)
    BY <2>2, FusedType DEF RankingInv, TypeOK, AddKnn
  <2>4. QED
    BY <2>3 DEF RankingInv, TypeOK, AddKnn
<1>2. QED
  BY <1>1 DEF RankingInv, PointersInv, PlacedInv, BestAreOutermost, AddKnn

\* What the sort and the slice leave is a list of at most K chunks.
LEMMA TopType ==
  ASSUME NEW es \in Seq(Entry), NEW s \in Sortings(es)
  PROVE  Top(es, s) \in Seq(Docs)
<1> DEFINE length == IF Len(es) < K THEN Len(es) ELSE K
<1>1. length \in Nat /\ length <= Len(es)
  BY RankingAssumption
<1>2. \A n \in 1..length : s[n] \in DOMAIN es
  BY <1>1 DEF Sortings
<1>3. \A q \in DOMAIN es : es[q].doc \in Docs
  <2>1. \A q \in DOMAIN es : es[q] \in Entry
    OBVIOUS
  <2>2. QED
    BY <2>1 DEF Entry
<1>4. \A n \in 1..length : es[s[n]].doc \in Docs
  BY <1>2, <1>3
<1>5. QED
  BY <1>1, <1>4 DEF Top

\* The array is empty when strategicReorder begins.
LEMMA RankKeepsInv == RankingInv /\ Rank => RankingInv'
<1> SUFFICES ASSUME RankingInv, Rank PROVE RankingInv'
  OBVIOUS
<1>1. ranked' \in Seq(Docs)
  BY TopType DEF RankingInv, TypeOK, Rank
<1>2. Len(ranked') \in Nat
  BY <1>1
<1>3. context' \in Seq(Docs \cup {None}) /\ Len(context') = Len(ranked')
      /\ \A p \in 1..Len(ranked') : context'[p] = None
  BY <1>2 DEF Rank
<1>4. TypeOK'
  BY <1>1, <1>2, <1>3 DEF RankingInv, TypeOK, Rank
<1>5. PointersInv' /\ PlacedInv'
  BY <1>2 DEF PointersInv, PlacedInv, Rank
<1>6. BestAreOutermost'
  BY <1>2, <1>3 DEF BestAreOutermost, Rank
<1>7. QED
  BY <1>4, <1>5, <1>6 DEF RankingInv

\* One step of the loop puts the next chunk at the outermost free place.
LEMMA PlaceKeepsInv == RankingInv /\ Place => RankingInv'
<1> SUFFICES ASSUME RankingInv, Place PROVE RankingInv'
  OBVIOUS
<1> DEFINE n == Len(ranked)
<1>1. /\ n \in Nat /\ i \in Nat /\ i < n /\ pc = "reorder"
      /\ left \in Int /\ right \in Int
      /\ 2 * left = i + 2 + (i % 2) /\ 2 * right = 2 * n - i + (i % 2)
      /\ ranked \in Seq(Docs) /\ ranked' = ranked /\ pc' = "reorder"
      /\ i' = i + 1 /\ ranked[i + 1] \in Docs
      /\ context \in Seq(Docs \cup {None}) /\ Len(context) = n
  BY DEF RankingInv, TypeOK, PointersInv, BestAreOutermost, Place
<1>2. \A p \in 1..n :
        context[p] =
          IF 2 * p - 1 <= i THEN ranked[2 * p - 1]
            ELSE IF 2 * (n - p + 1) <= i THEN ranked[2 * (n - p + 1)]
            ELSE None
  BY <1>1 DEF RankingInv, BestAreOutermost
<1> DEFINE slot == IF TakesLeft(i) THEN left ELSE right
<1>3. /\ slot \in 1..n
      /\ i % 2 = 0 => 2 * slot - 1 = i + 1
      /\ i % 2 = 1 => 2 * (n - slot + 1) = i + 1
      /\ i % 2 \in {0, 1}
  BY <1>1 DEF TakesLeft
<1>4. /\ context' = [context EXCEPT ![slot] = ranked[i + 1]]
      /\ left' = IF TakesLeft(i) THEN left + 1 ELSE left
      /\ right' = IF TakesLeft(i) THEN right ELSE right - 1
  BY DEF Place
<1>5. /\ context' \in Seq(Docs \cup {None}) /\ Len(context') = n
      /\ \A p \in 1..n : context'[p] = IF p = slot THEN ranked[i + 1] ELSE context[p]
  BY <1>1, <1>3, <1>4
<1>6. TypeOK'
  BY <1>1, <1>4, <1>5 DEF RankingInv, TypeOK, Place
<1>7. PointersInv' /\ PlacedInv'
  <2>1. pc' = "reorder" /\ Len(ranked') = n /\ i' = i + 1 /\ i' <= n
    BY <1>1
  <2>2. CASE i % 2 = 0
    <3>1. left' = left + 1 /\ right' = right
      BY <1>4, <2>2 DEF TakesLeft
    <3>2. i' % 2 = 1
      BY <1>1, <2>2
    <3>3. 2 * left' = i' + 2 + (i' % 2) /\ 2 * right' = 2 * n - i' + (i' % 2)
      BY <1>1, <2>2, <3>1, <3>2
    <3>4. QED
      BY <2>1, <3>3 DEF PointersInv, PlacedInv
  <2>3. CASE i % 2 = 1
    <3>1. left' = left /\ right' = right - 1
      BY <1>4, <2>3 DEF TakesLeft
    <3>2. i' % 2 = 0
      BY <1>1, <2>3
    <3>3. 2 * left' = i' + 2 + (i' % 2) /\ 2 * right' = 2 * n - i' + (i' % 2)
      BY <1>1, <2>3, <3>1, <3>2
    <3>4. QED
      BY <2>1, <3>3 DEF PointersInv, PlacedInv
  <2>4. QED
    BY <1>3, <2>2, <2>3
<1>8. ASSUME NEW p \in 1..n
      PROVE  context'[p] =
               IF 2 * p - 1 <= i + 1 THEN ranked[2 * p - 1]
                 ELSE IF 2 * (n - p + 1) <= i + 1 THEN ranked[2 * (n - p + 1)]
                 ELSE None
  <2>1. CASE p = slot /\ i % 2 = 0
    <3>1. 2 * p - 1 = i + 1
      BY <1>3, <2>1
    <3>2. context'[p] = ranked[2 * p - 1]
      BY <1>5, <2>1, <3>1
    <3>3. 2 * p - 1 <= i + 1
      BY <1>1, <3>1
    <3>4. QED
      BY <3>2, <3>3
  <2>2. CASE p = slot /\ i % 2 = 1
    <3>1. ~(2 * p - 1 <= i + 1)
      BY <1>1, <1>3, <2>2
    <3>2. 2 * (n - p + 1) = i + 1
      BY <1>3, <2>2
    <3>3. context'[p] = ranked[2 * (n - p + 1)]
      BY <1>5, <2>2, <3>2
    <3>4. 2 * (n - p + 1) <= i + 1
      BY <1>1, <3>2
    <3>5. QED
      BY <3>1, <3>3, <3>4
  <2>3. CASE p # slot
    <3>1. context'[p] = context[p]
      BY <1>5, <2>3
    <3>2. (2 * p - 1 <= i + 1 /\ ~(2 * p - 1 <= i)) => FALSE
      BY <1>1, <1>3, <2>3
    <3>3. (~(2 * p - 1 <= i + 1) /\ 2 * (n - p + 1) <= i + 1
             /\ ~(2 * (n - p + 1) <= i)) => FALSE
      BY <1>1, <1>3, <2>3
    <3>4. /\ (2 * p - 1 <= i + 1) <=> (2 * p - 1 <= i)
          /\ ~(2 * p - 1 <= i) =>
               ((2 * (n - p + 1) <= i + 1) <=> (2 * (n - p + 1) <= i))
      BY <1>1, <3>2, <3>3
    <3>5. context[p] =
            IF 2 * p - 1 <= i THEN ranked[2 * p - 1]
              ELSE IF 2 * (n - p + 1) <= i THEN ranked[2 * (n - p + 1)]
              ELSE None
      BY <1>2
    <3>6. QED
      BY <3>1, <3>4, <3>5
  <2>4. QED
    BY <1>3, <2>1, <2>2, <2>3
<1>9. BestAreOutermost'
  BY <1>1, <1>5, <1>8 DEF BestAreOutermost
<1>10. QED
  BY <1>6, <1>7, <1>9 DEF RankingInv

\* Returning changes nothing but the stage.
LEMMA ReturnKeepsInv == RankingInv /\ Return => RankingInv'
BY DEF RankingInv, TypeOK, PointersInv, PlacedInv, BestAreOutermost, Return

\* Every step keeps the invariant, a stuttering one too.
LEMMA StepKeepsInv == RankingInv /\ [Next]_vars => RankingInv'
<1> SUFFICES ASSUME RankingInv, [Next]_vars PROVE RankingInv'
  OBVIOUS
<1>1. CASE Search
  BY <1>1, SearchKeepsInv
<1>2. CASE AddText
  BY <1>2, AddTextKeepsInv
<1>3. CASE AddKnn
  BY <1>3, AddKnnKeepsInv
<1>4. CASE Rank
  BY <1>4, RankKeepsInv
<1>5. CASE Place
  BY <1>5, PlaceKeepsInv
<1>6. CASE Return
  BY <1>6, ReturnKeepsInv
<1>7. CASE UNCHANGED vars
  BY <1>7 DEF RankingInv, TypeOK, PointersInv, PlacedInv, BestAreOutermost, vars
<1>8. QED
  BY <1>1, <1>2, <1>3, <1>4, <1>5, <1>6, <1>7 DEF Next, Finished

-----------------------------------------------------------------------------

\* The invariant of the two loops and the two arrays (opensearch.repository.ts,
\* strategic-reorder.ts) holds throughout a call.
THEOREM RankingInvariant == Spec => []RankingInv
<1>1. Init => RankingInv
  BY InitKeepsInv
<1>2. RankingInv /\ [Next]_vars => RankingInv'
  BY StepKeepsInv
<1>3. QED
  BY <1>1, <1>2, PTL DEF Spec

\* Every variable keeps its type: scores are positive fractions and the result
\* holds chunks.
THEOREM RankingTypeCorrect == Spec => []TypeOK
<1>1. RankingInv => TypeOK
  BY DEF RankingInv
<1>2. QED
  BY <1>1, RankingInvariant, PTL

\* strategicReorder puts the best chunks at the two ends of the context, misses
\* none and writes none over another, whatever the number of results.
THEOREM HourglassIsComplete == Spec => []BestAreOutermost
<1>1. RankingInv => BestAreOutermost
  BY DEF RankingInv
<1>2. QED
  BY <1>1, RankingInvariant, PTL

=============================================================================
