---------------------------- MODULE MCSearchRanking ----------------------------
(***************************************************************************)
(* A small instance of SearchRanking for TLC.                               *)
(***************************************************************************)
EXTENDS SearchRanking, TLC

CONSTANTS d1, d2, d3, d4, d5

MCDocs == {d1, d2, d3, d4, d5}

\* Chunks are interchangeable: only the lists order them.
MCSymmetry == Permutations(Docs)

=============================================================================
