------------------------------ MODULE MCChatTurns ------------------------------
(***************************************************************************)
(* A small instance of ChatTurns for TLC.                                   *)
(***************************************************************************)
EXTENDS ChatTurns, TLC

CONSTANTS r1, r2, s1, s2, t1

MCRequests == {r1, r2}
MCSockets  == {s1, s2}
MCThreads  == {t1}
MCMessages == {"user", "assistant"} \X MCRequests

\* One of the two questions is blank, and the answer to the other.
MCBlankAsked == {r2}
MCBlankAnswered == {r1}

Stream(s) == [kind |-> "stream", from |-> s, on |-> t1]
Resume(s) == [kind |-> "resume", from |-> s, on |-> t1]
Run       == [kind |-> "run",    from |-> s2, on |-> t1]

\* A chat over a socket, beside a chat over another one, a resumption over either
\* or a chat over REST; and a resumption of a chat over REST.
MCCalls ==
  {(r1 :> Stream(s1)) @@ (r2 :> c) :
     c \in {Stream(s2), Resume(s1), Resume(s2), Run}}
  \cup {(r1 :> Run) @@ (r2 :> Resume(s1))}

=============================================================================
