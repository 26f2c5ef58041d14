---------------------------- MODULE MCAgentService ----------------------------
(***************************************************************************)
(* Small instances of AgentService for TLC.                                 *)
(***************************************************************************)
EXTENDS ApprovalRefinement, TLC

CONSTANTS r1, r2, r3, t1, t2, a, b

MCTwoRequests   == {r1, r2}
MCThreeRequests == {r1, r2, r3}
MCOneThread     == {t1}
MCTwoThreads    == {t1, t2}
MCTools         == {a, b}

\* The tool-calling model asks for one tool, for none or for two at once.
MCOneCall    == {<<a>>, <<b>>}
MCSingleCall == {<<a>>}
MCSomeCalls  == {<<a>>, <<a, b>>}
MCAnyCalls   == {<<>>, <<a>>, <<a, b>>}

\* Everything that awaits may throw; ToolNode turns tool errors into messages
\* and relevance_check does not await.
MCAllFailures ==
  (Nodes \ {"relevance_check", "tools_executor"}) \cup Awaits \cup {"put"}

MCNoFailures == {}

\* For the liveness run: one failure before, in and after the retry loop, and one
\* in the look-up of the pending action.
MCFewFailures == {"begin", "generator", "put", "getState", "record"}

\* For the liveness run: a chat, a resumed run that looks the pending action up
\* and one that does not.
MCLivenessKinds == {"run", "resume", "wsReject"}

\* The clients that notice a pause of a resumed run: all but REST resume and
\* reject.
MCNoticingKinds == {"run", "stream", "wsApprove", "wsReject"}

\* Requests and threads are interchangeable: nothing orders them.
MCSymmetry == Permutations(Requests) \cup Permutations(Threads)

=============================================================================
