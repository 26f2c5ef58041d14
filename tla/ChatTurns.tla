------------------------------- MODULE ChatTurns -------------------------------
(***************************************************************************)
(* A chat turn from end to end: AgentService.run, stream and streamResume   *)
(* (agent.service.ts) around a graph run, the memory orchestrator           *)
(* (memory-orchestrator.service.ts) over the short-term and the long-term   *)
(* memory, and the rooms in which clients hear of it.  The graph itself is  *)
(* in AgentService, the short-term memory in ShortTermMemory; here a graph  *)
(* run is its visible steps and how it ends, and the short-term memory the  *)
(* set of the messages addMessage stored, whatever it does with them later. *)
(*                                                                         *)
(* A request is suspended at one await after another; requests, background  *)
(* tasks and sockets take their steps in any order.                         *)
(***************************************************************************)
EXTENDS LongTermMemory, EventRooms

CONSTANTS
  Calls,         \* what each request may be, in one scenario or another
  BlankAsked,    \* the chats whose question has no visible character
  BlankAnswered, \* the chats whose answer has none
  MaxSteps,      \* bound: agent:step events of a graph run
  MaxFaults      \* bound: disconnections of a socket and crashes of the process

VARIABLES
  call,     \* request -> its kind, its sender and its thread, fixed from the start
  pc,       \* request -> the await it stands at
  steps,    \* request -> nodes its graph run has finished
  recall,   \* request -> what constructFinalPrompt found in the long-term memory
  stm,      \* the messages the short-term memory was given
  outcome,  \* request -> how it ended, for its client
  faults    \* history: disconnections and crashes so far

turnVars == <<call, pc, steps, recall, stm, outcome>>

vars == <<ltm, roomVars, turnVars, faults>>

\* run is POST /chat, stream and resume are chat:message and chat:resume.
AllKinds == {"run", "stream", "resume"}

Call == [kind : AllKinds, from : Sockets, on : Threads]

Kind(r) == call[r].kind

Sender(r) == call[r].from

Room(r) == call[r].on

IsChat(r) == Kind(r) \in {"run", "stream"}

Streams(r) == Kind(r) # "run"

Awaits == {"join", "search", "add", "graph", "getState", "record"}

Question(r) == <<"user", r>>

Reply(r) == <<"assistant", r>>

ASSUME TurnsAssumption ==
  /\ Calls \subseteq [Requests -> Call]
  /\ Messages = {"user", "assistant"} \X Requests
  /\ BlankAsked \subseteq Requests /\ BlankAnswered \subseteq Requests
  /\ MaxSteps \in Nat \ {0}
  /\ MaxFaults \in Nat

Active(r) == pc[r] \notin {"idle", "over"}

TypeOK ==
  /\ LtmTypeOK /\ RoomsTypeOK
  /\ call \in Calls
  /\ pc \in [Requests -> Awaits \cup {"idle", "over"}]
  /\ steps \in [Requests -> 0..MaxSteps]
  /\ recall \in [Requests -> SUBSET Messages]
  /\ stm \subseteq Messages
  /\ outcome \in [Requests -> Ends \cup {"none", "lost"}]
  /\ faults \in 0..MaxFaults

Init ==
  /\ LtmInit /\ RoomsInit
  /\ call \in Calls
  /\ pc = [r \in Requests |-> "idle"]
  /\ steps = [r \in Requests |-> 0]
  /\ recall = [r \in Requests |-> {}]
  /\ stm = {}
  /\ outcome = [r \in Requests |-> "none"]
  /\ faults = 0

-----------------------------------------------------------------------------

Goto(r, next) ==
  /\ pc' = [pc EXCEPT ![r] = next]
  /\ UNCHANGED outcome

\* The request is over.
End(r, how) ==
  /\ pc' = [pc EXCEPT ![r] = "over"]
  /\ outcome' = [outcome EXCEPT ![r] = how]

\* Mutated: constructFinalPrompt stores the question first.
ArriveStoring(r) ==
  /\ pc[r] = "idle"
  /\ Streams(r) => Sender(r) \in open
  /\ Goto(r, IF Streams(r) THEN "join" ELSE "search")
  /\ PersistTurn(Question(r), r \in BlankAsked)
  /\ UNCHANGED <<roomVars, call, steps, recall, stm, faults>>

\* ChatController.chat, handleMessage or handleResume is called.
Arrive(r) ==
  /\ pc[r] = "idle"
  /\ Streams(r) => Sender(r) \in open
  /\ Goto(r, IF Streams(r) THEN "join" ELSE "search")
  /\ UNCHANGED <<ltm, roomVars, call, steps, recall, stm, faults>>

\* An exception reaches the controller, which answers with an HTTP error, or the
\* gateway, which emits agent:error to the sender.
Fail(r) ==
  /\ End(r, "error")
  /\ IF Streams(r) THEN EmitError(Sender(r), r) ELSE UNCHANGED roomVars

\* handleResume without a thread or an action.
Refuse(r) ==
  /\ pc[r] = "idle"
  /\ Kind(r) = "resume"
  /\ Sender(r) \in open
  /\ Fail(r)
  /\ UNCHANGED <<ltm, call, steps, recall, stm, faults>>

\* Mutated: the graph starts before the socket is in the room.
JoinNothing(r) ==
  /\ pc[r] = "join"
  /\ Goto(r, IF Kind(r) = "stream" THEN "search" ELSE "graph")
  /\ UNCHANGED <<ltm, roomVars, call, steps, recall, stm, faults>>

\* await client.join(threadId).
Join(r) ==
  /\ pc[r] = "join"
  /\ JoinRoom(Sender(r), Room(r))
  /\ Goto(r, IF Kind(r) = "stream" THEN "search" ELSE "graph")
  /\ UNCHANGED <<ltm, call, steps, recall, stm, faults>>

\* constructFinalPrompt searches the long-term memory.
Search(r) ==
  /\ pc[r] = "search"
  /\ \E found \in SearchResults : recall' = [recall EXCEPT ![r] = found]
  /\ Goto(r, "add")
  /\ UNCHANGED <<ltm, roomVars, call, steps, stm, faults>>

\* It reads the short-term memory and adds the question, which may throw, then
\* starts to index it and returns without waiting for that.  What was recalled
\* is text of the graph's input now.
AddQuestion(r) ==
  /\ pc[r] = "add"
  /\ \/ /\ stm' = stm \cup {Question(r)}
        /\ PersistTurn(Question(r), r \in BlankAsked)
        /\ Goto(r, "graph")
        /\ UNCHANGED roomVars
     \/ /\ stm' \in {stm, stm \cup {Question(r)}}
        /\ Fail(r)
        /\ UNCHANGED ltm
  /\ recall' = [recall EXCEPT ![r] = {}]
  /\ UNCHANGED <<call, steps, faults>>

\* A node is finished.
Step(r) ==
  /\ pc[r] = "graph"
  /\ steps[r] < MaxSteps
  /\ steps' = [steps EXCEPT ![r] = @ + 1]
  /\ IF Streams(r) THEN EmitToRoom(Room(r), r, "step") ELSE UNCHANGED roomVars
  /\ UNCHANGED <<ltm, call, pc, recall, stm, outcome, faults>>

\* The graph run stops before the tools, throws, or comes to its end: a chat has
\* its answer recorded then, a resumed run is over.  Only a Command on a
\* finished thread has no step.
LeaveGraph(r) ==
  /\ pc[r] = "graph"
  /\ \/ steps[r] > 0 /\ Goto(r, "getState") /\ UNCHANGED roomVars
     \/ Fail(r)
     \/ IsChat(r) /\ steps[r] > 0 /\ Goto(r, "record") /\ UNCHANGED roomVars
     \/ Kind(r) = "resume" /\ End(r, "done") /\ EmitToRoom(Room(r), r, "done")
  /\ UNCHANGED <<ltm, call, steps, recall, stm, faults>>

\* Mutated: stream goes on after the interrupt.
ReportPendingAndGoOn(r) ==
  /\ pc[r] = "getState"
  /\ EmitToRoom(Room(r), r, "interrupt")
  /\ Goto(r, "record")
  /\ UNCHANGED <<ltm, call, steps, recall, stm, faults>>

\* The pending action is looked up and emitted to the room, also from REST.
ReportPending(r) ==
  /\ pc[r] = "getState"
  /\ \/ End(r, "interrupt") /\ EmitToRoom(Room(r), r, "interrupt")
     \/ Fail(r)
  /\ UNCHANGED <<ltm, call, steps, recall, stm, faults>>

\* Whether an answer is recorded as a blank text: a marker, '[Tool Execution]',
\* stands for one.
RecordedBlank(blank) == FALSE

\* Mutated: the client is answered although the answer may not have been stored.
CompleteUnawaited(r) ==
  /\ stm' \in {stm, stm \cup {Reply(r)}}
  /\ PersistTurn(Reply(r), RecordedBlank(r \in BlankAnswered))
  /\ End(r, "done")
  /\ IF Streams(r) THEN EmitToRoom(Room(r), r, "done") ELSE UNCHANGED roomVars

\* The answer is stored, its indexing started and the client answered.
Complete(r) ==
  /\ stm' = stm \cup {Reply(r)}
  /\ PersistTurn(Reply(r), RecordedBlank(r \in BlankAnswered))
  /\ End(r, "done")
  /\ IF Streams(r) THEN EmitToRoom(Room(r), r, "done") ELSE UNCHANGED roomVars

\* Mutated: recordAssistantResponse waits for the index.
RecordIndexed(r) ==
  /\ pc[r] = "record"
  /\ ~Pending(Reply(r)) /\ ~Pending(Question(r))
  /\ Complete(r)
  /\ UNCHANGED <<call, steps, recall, faults>>

\* recordAssistantResponse and what follows it; or addMessage throws, then the
\* answer is in the checkpoint and maybe in the short-term memory only.
Record(r) ==
  /\ pc[r] = "record"
  /\ \/ Complete(r)
     \/ /\ stm' \in {stm, stm \cup {Reply(r)}}
        /\ Fail(r)
        /\ UNCHANGED ltm
  /\ UNCHANGED <<call, steps, recall, faults>>

\* The sockets that sent a request or joined a room.
Used ==
  {Sender(r) : r \in {q \in Requests : Streams(q) /\ pc[q] # "idle"}}
    \cup UNION {rooms[t] : t \in Threads}

\* A background task goes on.
Persist(m) == Background(m) /\ UNCHANGED <<roomVars, turnVars, faults>>

\* A client joins a room.
Listen(s, t) == ChatJoin(s, t) /\ UNCHANGED <<ltm, turnVars, faults>>

\* A client leaves, on its own.
Leave(s) ==
  /\ faults < MaxFaults
  /\ faults' = faults + 1
  /\ s \in Used
  /\ Disconnect(s)
  /\ UNCHANGED <<ltm, turnVars>>

\* The process dies and the index is kept; stm says what was said, whether the keys
\* are kept or not.
Crash ==
  /\ faults < MaxFaults
  /\ faults' = faults + 1
  /\ LtmCrash /\ RoomsCrash(Used)
  /\ pc' = [r \in Requests |-> IF Active(r) THEN "over" ELSE pc[r]]
  /\ outcome' = [r \in Requests |-> IF Active(r) THEN "lost" ELSE outcome[r]]
  /\ recall' = [r \in Requests |-> {}]
  /\ UNCHANGED <<call, steps, stm>>

\* What the process does for one request, without its client.
Serve(r) ==
  Join(r) \/ Search(r) \/ AddQuestion(r) \/ Step(r) \/ LeaveGraph(r)
    \/ ReportPending(r) \/ Record(r)

\* Nothing is left to do in the process: every request that could still come
\* would come from a socket that is gone.
Quiescent ==
  /\ \A r \in Requests : ~Active(r)
  /\ \A m \in Messages : ~Pending(m)
  /\ UNCHANGED vars

Next ==
  \/ \E r \in Requests : Arrive(r) \/ Refuse(r) \/ Serve(r)
  \/ \E m \in Messages : Persist(m)
  \/ \E s \in Sockets : Leave(s) \/ \E t \in Threads : Listen(s, t)
  \/ Crash
  \/ Quiescent

Spec == Init /\ [][Next]_vars

\* Every await of a request settles, as in AgentService.  Nothing is assumed of
\* clients, nor of the background tasks, which nobody waits for.
FairSpec == Spec /\ \A r \in Requests : WF_vars(Serve(r))

-----------------------------------------------------------------------------
(* Properties.                                                              *)

\* The agent:step events of a request; REST has none.
StepEvents(r) == IF Streams(r) THEN [i \in 1..steps[r] |-> "step"] ELSE <<>>

\* The event that ended a request, if it is one of these.
EndEvent(r, ends) == IF outcome[r] \in ends THEN <<outcome[r]>> ELSE <<>>

\* A client that stays connected hears of its own request every step from the
\* first, and exactly one end, after them: no join, failure or other client comes
\* in between.
SenderMissesNothing ==
  \A r \in Requests :
    Streams(r) /\ Sender(r) \in open =>
      heard[Sender(r)][r] = StepEvents(r) \o EndEvent(r, Ends)

\* The ends of a request that its room is told of; of REST the interrupt only.
RoomEnds(r) == IF Streams(r) THEN {"interrupt", "done"} ELSE {"interrupt"}

\* The others in the room of a request.
Audience(r) == {s \in rooms[Room(r)] : ~(Streams(r) /\ s = Sender(r))}

IsSuffix(s, t) == \E n \in 0..Len(t) : s = SubSeq(t, n + 1, Len(t))

\* Every other client in the room hears of a request, from some event on, what its
\* sender hears, but not that it failed: no event out of order, none left out,
\* and never a second end, also when the sender is gone or used REST.
RoomHearsTheSame ==
  \A r \in Requests : \A s \in Audience(r) :
    IsSuffix(heard[s][r], StepEvents(r) \o EndEvent(r, RoomEnds(r)))

\* A client that is told "done" of a chat has had both halves of the turn stored in
\* the short-term memory, and those with a text are on their way into the
\* long-term memory.
DoneIsRemembered ==
  \A r \in Requests :
    IsChat(r) /\ outcome[r] = "done" =>
      /\ {Question(r), Reply(r)} \subseteq stm
      /\ r \notin BlankAnswered => task[Reply(r)] # "none"
      /\ r \notin BlankAsked => task[Question(r)] # "none"

\* A question or an answer without any text is kept out of the long-term memory, as
\* docs/ltm-architecture.md says of empty messages and of those with tool calls only.
BlankIsNotIndexed ==
  \A r \in Requests :
    /\ r \in BlankAsked => task[Question(r)] = "none"
    /\ r \in BlankAnswered => task[Reply(r)] = "none"

\* What a prompt quotes from the long-term memory was said before, in a turn whose
\* short-term memory had been written: never the question itself, nor a
\* message that was refused there.
RecallIsOfThePast ==
  \A r \in Requests : recall[r] \subseteq stm \ {Question(r), Reply(r)}

Ended(events) == events # <<>> /\ events[Len(events)] \in Ends

\* A sender that is connected has heard that its request is over.
SenderKnows(r) ==
  Streams(r) /\ Sender(r) \in open => Ended(heard[Sender(r)][r])

\* Every request comes to its end, and its sender hears it or is gone, even if no
\* background task ever ends; the search that a request waits for does, by the
\* timeout of the client library.
SenderHearsTheEnd ==
  \A r \in Requests : Active(r) ~> pc[r] = "over" /\ SenderKnows(r)

=============================================================================
