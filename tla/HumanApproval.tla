---------------------------- MODULE HumanApproval ----------------------------
(***************************************************************************)
(* What the agent promises to the human who approves its tool calls.  A     *)
(* call is asked for once.  It is executed only while it is pending, and    *)
(* when it was shown to the human unless the agent failed to tell.  It is   *)
(* not executed again while its execution is known: only an execution that  *)
(* was lost before it was settled may be repeated.  A call that was settled *)
(* or given up never comes back.                                            *)
(***************************************************************************)
CONSTANTS
  Threads,  \* conversations
  Actions,  \* what a model may ask for, one message of tool calls each
  None      \* no action

VARIABLES
  asked,    \* the actions asked for so far
  pending,  \* thread -> the action that waits for approval, or None
  shown,    \* thread -> the action shown last, or None
  missed,   \* the actions that the human should have been told of and was not
  running,  \* the threads whose pending action is being executed
  executed  \* the actions that were executed, once or more

vars == <<asked, pending, shown, missed, running, executed>>

Init ==
  /\ asked = {} /\ missed = {} /\ running = {} /\ executed = {}
  /\ pending = [t \in Threads |-> None]
  /\ shown = [t \in Threads |-> None]

\* The agent stops at a new action, and may fail in the same moment.
Ask(t) ==
  /\ pending[t] = None
  /\ \E c \in Actions \ asked :
       /\ asked' = asked \cup {c}
       /\ pending' = [pending EXCEPT ![t] = c]
       /\ missed' \in {missed, missed \cup {c}}
  /\ UNCHANGED <<shown, running, executed>>

\* The human is shown the pending action.
Show(t) ==
  /\ pending[t] # None
  /\ shown' = [shown EXCEPT ![t] = pending[t]]
  /\ UNCHANGED <<asked, pending, missed, running, executed>>

\* The thread goes on without the action, which is not being executed.
GiveUp(t) ==
  /\ pending[t] # None
  /\ t \notin running
  /\ pending' = [pending EXCEPT ![t] = None]
  /\ UNCHANGED <<asked, shown, missed, running, executed>>

\* The pending action is executed, and pending until that is settled.
Execute(t) ==
  /\ pending[t] # None
  /\ t \notin running
  /\ shown[t] = pending[t] \/ pending[t] \in missed
  /\ executed' = executed \cup {pending[t]}
  /\ running' = running \cup {t}
  /\ UNCHANGED <<asked, pending, shown, missed>>

\* The execution is known: the action is pending no longer.
Settle(t) ==
  /\ t \in running
  /\ pending' = [pending EXCEPT ![t] = None]
  /\ running' = running \ {t}
  /\ UNCHANGED <<asked, shown, missed, executed>>

\* The agent fails on some threads, on all of them when it crashes: executions that
\* were not settled are forgotten, actions that were not shown will not be.
Lose ==
  \E S \in SUBSET Threads :
    /\ running' = running \ S
    /\ missed' \in {missed \cup M : M \in SUBSET {pending[t] : t \in {u \in S :
                       pending[u] # None /\ shown[u] # pending[u]}}}
    /\ UNCHANGED <<asked, pending, shown, executed>>

Next ==
  \/ \E t \in Threads : Ask(t) \/ Show(t) \/ GiveUp(t) \/ Execute(t) \/ Settle(t)
  \/ Lose

Spec == Init /\ [][Next]_vars

=============================================================================
