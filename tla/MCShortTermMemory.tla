--------------------------- MODULE MCShortTermMemory ---------------------------
(***************************************************************************)
(* Small instances of ShortTermMemory for TLC.                              *)
(***************************************************************************)
EXTENDS ShortTermMemory, TLC

CONSTANTS r1, r2, r3, r4

MCTwoRequests   == {r1, r2}
MCThreeRequests == {r1, r2, r3}
MCFourRequests  == {r1, r2, r3, r4}

\* Of MaxTokens = 40, a small message counts 6 with its overhead and a large one
\* 18: five small ones reach the threshold of 32, two large ones reach it too.
MCSizes == {2, 14}

\* Requests are interchangeable: nothing orders them.
MCSymmetry == Permutations(Requests)

=============================================================================
