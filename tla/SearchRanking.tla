---------------------------- MODULE SearchRanking ----------------------------
(***************************************************************************)
(* One call of VectorStoreService.similaritySearch: the keyword and the     *)
(* vector search of hybridSearch (opensearch.repository.ts), their rank     *)
(* fusion, and strategicReorder (strategic-reorder.ts), loop by loop.       *)
(*                                                                         *)
(* The searches are OpenSearch's; all that is known of their results is     *)
(* that each lists at most 2 * K different chunks, best first.  A score is  *)
(* a fraction: the doubles of the code differ from it by far less than two  *)
(* different scores from each other.                                        *)
(***************************************************************************)
EXTENDS Integers, Sequences, FiniteSets

CONSTANTS
  Docs,           \* the chunks in the index
  None,           \* an array slot not yet written
  K,              \* how many chunks the caller wants
  RRF_CONSTANT    \* 60

ASSUME RankingAssumption ==
  /\ None \notin Docs
  /\ K \in Nat \ {0}
  /\ RRF_CONSTANT \in Nat

VARIABLES
  pc,        \* the stage of the call
  text,      \* hits of the keyword search
  knn,       \* hits of the vector search
  i,         \* the counter of the loop that runs
  entries,   \* the map rrfScores, in the order of insertion
  ranked,    \* fusedResults
  context,   \* the array strategicReorder fills
  left,      \* its pointers
  right

vars == <<pc, text, knn, i, entries, ranked, context, left, right>>

Entry == [doc : Docs, num : Nat \ {0}, den : Nat \ {0}]

TypeOK ==
  /\ pc \in {"search", "fuse", "reorder", "done", "failed"}
  /\ {text, knn, ranked} \subseteq Seq(Docs)
  /\ i \in Nat
  /\ entries \in Seq(Entry)
  /\ context \in Seq(Docs \cup {None})
  /\ left \in Int /\ right \in Int

Init ==
  /\ pc = "search"
  /\ text = <<>> /\ knn = <<>>
  /\ i = 0
  /\ entries = <<>> /\ ranked = <<>> /\ context = <<>>
  /\ left = 0 /\ right = 0

-----------------------------------------------------------------------------

\* The hits a search may return.
Hits == UNION {{h \in [1..n -> Docs] : \A p, q \in 1..n : h[p] = h[q] => p = q} :
                 n \in 0..(2 * K)}

\* Promise.all of the two searches; either may throw, and then the call does.
Search ==
  /\ pc = "search"
  /\ \/ \E t, k \in Hits :
          /\ text' = t
          /\ knn' = k
          /\ pc' = "fuse"
     \/ pc' = "failed" /\ UNCHANGED <<text, knn>>
  /\ UNCHANGED <<i, entries, ranked, context, left, right>>

\* textHits.forEach: ranks count from 0.
AddText ==
  /\ pc = "fuse"
  /\ i < Len(text)
  /\ entries' = Append(entries,
       [doc |-> text[i + 1], num |-> 1, den |-> RRF_CONSTANT + i + 1])
  /\ i' = i + 1
  /\ UNCHANGED <<pc, text, knn, ranked, context, left, right>>

\* Mutated: the score of the vector search replaces that of the other.
PlusReplaced(e, d) == [e EXCEPT !.num = 1, !.den = d]

\* Mutated: the score is subtracted.
PlusSubtracted(e, d) == [e EXCEPT !.num = @ * d - e.den, !.den = @ * d]

\* existing.rrfScore += 1 / d.
Plus(e, d) == [e EXCEPT !.num = @ * d + e.den, !.den = @ * d]

\* Mutated: a chunk that both searches found is entered twice.
FusedTwice(es, d, den) == Append(es, [doc |-> d, num |-> 1, den |-> den])

\* The map after a hit of the vector search.
Fused(es, d, den) ==
  IF \E p \in DOMAIN es : es[p].doc = d
    THEN [p \in DOMAIN es |-> IF es[p].doc = d THEN Plus(es[p], den) ELSE es[p]]
    ELSE Append(es, [doc |-> d, num |-> 1, den |-> den])

\* knnHits.forEach.
AddKnn ==
  LET rank == i - Len(text)
  IN /\ pc = "fuse"
     /\ rank \in 0..(Len(knn) - 1)
     /\ entries' = Fused(entries, knn[rank + 1], RRF_CONSTANT + rank + 1)
     /\ i' = i + 1
     /\ UNCHANGED <<pc, text, knn, ranked, context, left, right>>

Greater(e, f) == e.num * f.den > f.num * e.den

\* Mutated: the worst come first.
PrecedesAscending(es, p, q) ==
  Greater(es[q], es[p]) \/ (~Greater(es[p], es[q]) /\ p < q)

\* The comparison of the sort, which is stable.
Precedes(es, p, q) ==
  Greater(es[p], es[q]) \/ (~Greater(es[q], es[p]) /\ p < q)

\* The orders the sort may leave the entries in; as Precedes is total, one.
Sortings(es) ==
  {s \in [DOMAIN es -> DOMAIN es] :
     /\ \A p \in DOMAIN es : \E q \in DOMAIN es : s[q] = p
     /\ \A p, q \in DOMAIN es : p < q => Precedes(es, s[p], s[q])}

\* slice(0, k) of the chunks in that order.
Top(es, s) ==
  [n \in 1..(IF Len(es) < K THEN Len(es) ELSE K) |-> es[s[n]].doc]

\* sort and slice; strategicReorder is called with the result.
Rank ==
  /\ pc = "fuse"
  /\ i = Len(text) + Len(knn)
  /\ pc' = "reorder"
  /\ \E s \in Sortings(entries) : ranked' = Top(entries, s)
  /\ context' = [n \in 1..Len(ranked') |-> None]
  /\ i' = 0
  /\ left' = 1
  /\ right' = Len(ranked')
  /\ UNCHANGED <<text, knn, entries>>

\* Mutated: the slots are taken from the left only when the step is odd.
TakesLeftOdd(step) == step % 2 = 1

TakesLeft(step) == step % 2 = 0

\* The loop of strategicReorder.
Place ==
  /\ pc = "reorder"
  /\ i < Len(ranked)
  /\ IF TakesLeft(i)
       THEN /\ context' = [context EXCEPT ![left] = ranked[i + 1]]
            /\ left' = left + 1
            /\ UNCHANGED right
       ELSE /\ context' = [context EXCEPT ![right] = ranked[i + 1]]
            /\ right' = right - 1
            /\ UNCHANGED left
  /\ i' = i + 1
  /\ UNCHANGED <<pc, text, knn, entries, ranked>>

Return ==
  /\ pc = "reorder"
  /\ i = Len(ranked)
  /\ pc' = "done"
  /\ UNCHANGED <<text, knn, i, entries, ranked, context, left, right>>

Finished == pc \in {"done", "failed"} /\ UNCHANGED vars

Next == Search \/ AddText \/ AddKnn \/ Rank \/ Place \/ Return \/ Finished

Spec == Init /\ [][Next]_vars

-----------------------------------------------------------------------------
(* Properties.                                                              *)

\* The place of a chunk in a list, one after the last when it is not there.
PlaceIn(list, d) ==
  IF \E p \in DOMAIN list : list[p] = d THEN CHOOSE p \in DOMAIN list : list[p] = d
                                        ELSE Len(list) + 1

Found == {text[p] : p \in DOMAIN text} \cup {knn[p] : p \in DOMAIN knn}

\* Fusion respects what both searches agree on: a chunk that neither search puts
\* below another is not below it in the result, and is not left out for it.
AgreementIsKept ==
  pc \in {"reorder", "done"} =>
    \A d, e \in Found :
      /\ PlaceIn(text, d) <= PlaceIn(text, e)
      /\ PlaceIn(knn, d) <= PlaceIn(knn, e)
      /\ d # e
      => /\ PlaceIn(ranked, d) <= PlaceIn(ranked, e)
         /\ PlaceIn(ranked, e) <= Len(ranked) => PlaceIn(ranked, d) <= Len(ranked)

\* A chunk that both searches found comes before every chunk that one of them
\* found, wherever they stand: for up to 2 * K hits each, two low ranks outweigh
\* one high rank.
BothOutweighOne ==
  pc \in {"reorder", "done"} =>
    \A d, e \in Found :
      /\ PlaceIn(text, d) <= Len(text) /\ PlaceIn(knn, d) <= Len(knn)
      /\ PlaceIn(text, e) > Len(text) \/ PlaceIn(knn, e) > Len(knn)
      /\ PlaceIn(ranked, e) <= Len(ranked)
      => PlaceIn(ranked, d) < PlaceIn(ranked, e)

\* No chunk is in the model's context twice, although both searches may find it,
\* and as many are there as were wanted and found.
NoChunkTwice ==
  pc = "done" =>
    /\ \A p, q \in DOMAIN context : context[p] = context[q] => p = q
    /\ Len(context) = IF Cardinality(Found) < K THEN Cardinality(Found) ELSE K

\* While the array is filled, the m best chunks stand at the outermost m places,
\* one more at the left when m is odd, and the places between are empty: so no
\* slot is written twice or missed, and the least relevant end in the middle.
BestAreOutermost ==
  pc \in {"reorder", "done"} =>
    /\ Len(context) = Len(ranked)
    /\ \A p \in 1..Len(context) :
         context[p] =
           IF 2 * p - 1 <= i THEN ranked[2 * p - 1]
             ELSE IF 2 * (Len(ranked) - p + 1) <= i THEN ranked[2 * (Len(ranked) - p + 1)]
             ELSE None

=============================================================================
