---------------------------- MODULE MCDocumentIndex ----------------------------
(***************************************************************************)
(* A small instance of DocumentIndex for TLC.                               *)
(***************************************************************************)
EXTENDS DocumentIndex, TLC

CONSTANTS u1, u2, del1, del2, f1, f2

MCUploads   == {u1, u2}
MCDeletions == {del1, del2}
MCFiles     == {f1, f2}

\* Calls of one kind and file names are interchangeable: nothing orders them.
MCSymmetry ==
  Permutations(Uploads) \cup Permutations(Deletions) \cup Permutations(Files)

=============================================================================
