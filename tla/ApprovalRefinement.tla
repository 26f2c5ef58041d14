-------------------------- MODULE ApprovalRefinement --------------------------
(***************************************************************************)
(* AgentService, as an implementation of HumanApproval: the pending action  *)
(* of a thread is the message of tool calls that its checkpoint waits with  *)
(* before tools_executor, named by the turn it belongs to.                  *)
(***************************************************************************)
EXTENDS AgentService

TurnsOf(calls) == {x.turn : x \in calls}

PendingTurn(cp) ==
  IF cp.next \in InterruptBefore THEN LastMessage(cp.chan).turn ELSE NoTurn

\* The request r has ended, and told its client of no pause.
Silent(r) == reply[r].status \notin {"none", "pending"}

Gate ==
  INSTANCE HumanApproval WITH
    Actions <- Requests,
    None <- NoTurn,
    asked <- TurnsOf(Asked),
    pending <- [t \in Threads |-> PendingTurn(thread[t])],
    shown <- [t \in Threads |-> shown[t].turn],
    missed <- TurnsOf(UNION {asked[r] : r \in {q \in Requests : Silent(q)}}),
    running <- {t \in Threads :
                  /\ thread[t].next \in InterruptBefore
                  /\ \E r \in Requests : on[r] = t /\ Active(r) /\ ran[r] # {}},
    executed <- TurnsOf(Executed)

\* With one request at a time on a thread and models that do ask for a tool, the
\* agent service keeps the promise of the gate, through nodes, puts and look-ups
\* that fail, crashes, resumptions that are sent again, chats sent instead of an
\* approval, and approvals sent twice.
KeepsApproval == Gate!Spec

=============================================================================
