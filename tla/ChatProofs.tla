------------------------------ MODULE ChatProofs ------------------------------
(***************************************************************************)
(* Proofs about ChatTurns: types, memory, and what clients hear, for every  *)
(* set of requests, sockets and threads, every number of attempts, and any  *)
(* number of failures, disconnections and crashes.                          *)
(*                                                                         *)
(* The long-term memory counts: every copy in the index, or on its way      *)
(* there, is of an attempt that failed or of the last one (Counts).  A turn *)
(* is a chain: what is indexed was stored before, in its own turn           *)
(* (TurnInv).                                                               *)
(*                                                                         *)
(* Seen by one request, a step tells its room an event, tells its sender an *)
(* error, or tells nobody anything while sockets come and go; EventInv      *)
(* survives each of the three (TellRoom, TellSender, TellNobody).           *)
(***************************************************************************)
EXTENDS ChatTurns, SequenceTheorems, TLAPS

\* The messages whose indexing was started.
Begun == {m \in Messages : task[m] # "none"}

\* The attempts at a message and the copies they made or may make.
Counts(m) ==
  /\ m \notin Begun => failed[m] = 0 /\ copies[m] = 0 /\ adrift[m] = 0
  /\ Pending(m) => attempt[m] = failed[m] + 1
  /\ task[m] \in {"calling", "failed"} => copies[m] + adrift[m] <= failed[m]
  /\ copies[m] + adrift[m] <= failed[m] + 1
  /\ task[m] \in {"indexed", "done"} => copies[m] > 0
  /\ task[m] \in {"indexed", "done", "lost"} => failed[m] < Retries
  /\ task[m] = "failed" => failed[m] = Retries

LtmInv == LtmTypeOK /\ \A m \in Messages : Counts(m)

\* The question of a chat is stored, and being indexed unless it is blank.
Asked(r) ==
  /\ Question(r) \in stm
  /\ r \notin BlankAsked => Question(r) \in Begun

\* How far a request is with its memory, by the await it stands at.
TurnInv(r) ==
  /\ pc[r] # "over" => outcome[r] = "none"
  /\ pc[r] = "join" => Streams(r)
  /\ pc[r] \in {"search", "add", "record"} => IsChat(r)
  /\ pc[r] \in {"idle", "join", "search", "add"} => Question(r) \notin Begun
  /\ outcome[r] # "done" => Reply(r) \notin Begun
  /\ IsChat(r) /\ pc[r] \in {"graph", "getState", "record"} => Asked(r)
  /\ IsChat(r) /\ outcome[r] = "done" =>
       Asked(r) /\ Reply(r) \in stm /\ Reply(r) \in Begun

\* What is indexed, or was recalled, is in the short-term memory.
MemoryInv == Begun \subseteq stm /\ RecallIsOfThePast

ChatInv ==
  /\ LtmInv
  /\ TypeOK
  /\ MemoryInv
  /\ \A r \in Requests : TurnInv(r)

-----------------------------------------------------------------------------
(* The long-term memory.                                                    *)

\* Nothing is being indexed at first.
LEMMA LtmInitKeepsInv == LtmInit => LtmInv /\ Begun = {}
BY LtmAssumption DEF LtmInit, LtmInv, LtmTypeOK, TaskStates, Begun, Counts, Pending

\* A task is started for a message that had none.
LEMMA PersistTurnKeepsInv ==
  ASSUME LtmInv, NEW m \in Messages \ Begun, NEW blank \in BOOLEAN,
         PersistTurn(m, blank)
  PROVE  /\ LtmInv'
         /\ Begun' = IF blank THEN Begun ELSE Begun \cup {m}
<1>1. CASE blank
  BY <1>1 DEF PersistTurn, ltm, LtmInv, LtmTypeOK, Begun, Counts, Pending
<1>2. CASE ~blank
  <2>1. LtmTypeOK'
    BY <1>2, LtmAssumption DEF PersistTurn, LtmInv, LtmTypeOK, TaskStates
  <2>2. ASSUME NEW k \in Messages PROVE Counts(k)'
    BY <1>2 DEF PersistTurn, LtmInv, LtmTypeOK, Counts, Begun, Pending
  <2>3. Begun' = Begun \cup {m}
    BY <1>2 DEF PersistTurn, LtmInv, LtmTypeOK, Begun
  <2>4. QED
    BY <1>2, <2>1, <2>2, <2>3 DEF LtmInv
<1>3. QED
  BY <1>1, <1>2

\* A background task keeps the counts, and starts and forgets nothing.
LEMMA BackgroundKeepsInv ==
  ASSUME LtmInv, NEW m \in Messages, Background(m)
  PROVE  LtmInv' /\ Begun' = Begun
<1> USE DEF LtmInv, LtmTypeOK, TaskStates, Counts, Begun, Pending
<1>1. CASE Index(m)
  BY <1>1, LtmAssumption DEF Index
<1>2. CASE Return(m)
  BY <1>2, LtmAssumption DEF Return
<1>3. CASE AttemptFails(m)
  BY <1>3, LtmAssumption DEF AttemptFails, IsLastAttempt, AfterLastFailure
<1>4. CASE IndexLate(m)
  BY <1>4, LtmAssumption DEF IndexLate
<1>5. QED
  BY <1>1, <1>2, <1>3, <1>4 DEF Background

\* A crash leaves what was sent adrift.
LEMMA LtmCrashKeepsInv ==
  ASSUME LtmInv, LtmCrash
  PROVE  LtmInv' /\ Begun' = Begun
BY LtmAssumption DEF LtmInv, LtmTypeOK, TaskStates, Counts, Begun, Pending, LtmCrash

\* So does whatever has nothing to do with it.
LEMMA LtmUnchanged ==
  ASSUME LtmInv, UNCHANGED ltm
  PROVE  LtmInv' /\ Begun' = Begun
BY DEF LtmInv, LtmTypeOK, Counts, Begun, Pending, ltm

-----------------------------------------------------------------------------
(* The rooms.                                                               *)

\* Who sends a request, and where.
LEMMA CallType ==
  ASSUME TypeOK, NEW r \in Requests
  PROVE  /\ Kind(r) \in AllKinds /\ Sender(r) \in Sockets /\ Room(r) \in Threads
         /\ ~IsChat(r) => Kind(r) = "resume"
         /\ Kind(r) # "stream" /\ Streams(r) => ~IsChat(r)
BY TurnsAssumption DEF TypeOK, Call, AllKinds, Kind, Sender, Room, IsChat, Streams

\* The messages of a request.
LEMMA MessagesOfRequests ==
  ASSUME NEW r \in Requests
  PROVE  /\ Question(r) \in Messages /\ Reply(r) \in Messages
         /\ Question(r) # Reply(r)
         /\ \A q \in Requests :
              q # r => Question(q) # Question(r) /\ Reply(q) # Reply(r)
         /\ \A q \in Requests : Question(q) # Reply(r) /\ Reply(q) # Question(r)
BY TurnsAssumption DEF Question, Reply

\* What is appended for a socket is an event.
LEMMA HearsType ==
  ASSUME RoomsTypeOK, NEW s \in Sockets, NEW r \in Requests,
         NEW event \in {"step"} \cup Ends
  PROVE  Hears(s, r, event) \in [Requests -> Seq({"step"} \cup Ends)]
<1>1. heard[s] \in [Requests -> Seq({"step"} \cup Ends)]
  BY DEF RoomsTypeOK
<1>2. Append(heard[s][r], event) \in Seq({"step"} \cup Ends)
  BY <1>1
<1>3. QED
  BY <1>1, <1>2 DEF Hears

LEMMA RoomsInitType == RoomsInit => RoomsTypeOK
BY DEF RoomsInit, RoomsTypeOK

LEMMA DisconnectType ==
  ASSUME RoomsTypeOK, NEW s \in Sockets, Disconnect(s)
  PROVE  RoomsTypeOK'
BY DEF RoomsTypeOK, Disconnect

LEMMA JoinRoomType ==
  ASSUME RoomsTypeOK, NEW s \in Sockets, NEW t \in Threads, JoinRoom(s, t)
  PROVE  RoomsTypeOK'
BY DEF RoomsTypeOK, JoinRoom

LEMMA EmitToRoomType ==
  ASSUME RoomsTypeOK, NEW t \in Threads, NEW r \in Requests,
         NEW event \in {"step"} \cup Ends, EmitToRoom(t, r, event)
  PROVE  RoomsTypeOK'
<1>1. \A s \in Sockets :
         Hears(s, r, event) \in [Requests -> Seq({"step"} \cup Ends)]
  BY HearsType
<1>2. QED
  BY <1>1 DEF RoomsTypeOK, EmitToRoom

LEMMA EmitErrorType ==
  ASSUME RoomsTypeOK, NEW s \in Sockets, NEW r \in Requests, EmitError(s, r)
  PROVE  RoomsTypeOK'
<1>1. Hears(s, r, "error") \in [Requests -> Seq({"step"} \cup Ends)]
  BY HearsType DEF Ends
<1>2. QED
  BY <1>1 DEF RoomsTypeOK, EmitError

LEMMA RoomsCrashType ==
  ASSUME RoomsTypeOK, NEW used, RoomsCrash(used)
  PROVE  RoomsTypeOK'
BY DEF RoomsTypeOK, RoomsCrash

LEMMA RoomsUnchanged ==
  ASSUME RoomsTypeOK, UNCHANGED roomVars
  PROVE  RoomsTypeOK'
BY DEF RoomsTypeOK, roomVars

-----------------------------------------------------------------------------
(* A request, while others take their steps.                                *)

\* A request keeps its invariant while it is not its turn: no other request
\* indexes its messages, and what is stored stays stored.
LEMMA OthersKeepTurnInv ==
  ASSUME TypeOK, NEW q \in Requests, TurnInv(q),
         call' = call, pc'[q] = pc[q], outcome'[q] = outcome[q],
         stm \subseteq stm', Begun \subseteq Begun',
         Question(q) \in Begun' => Question(q) \in Begun,
         Reply(q) \in Begun' => Reply(q) \in Begun
  PROVE  TurnInv(q)'
BY DEF TurnInv, Asked, IsChat, Streams, Kind

\* What was recalled stays in the past, as long as nothing more is.
LEMMA RecallStays ==
  ASSUME RecallIsOfThePast, NEW r \in Requests, TypeOK,
         stm \subseteq stm', recall' \in {recall, [recall EXCEPT ![r] = {}]}
  PROVE  RecallIsOfThePast'
BY DEF RecallIsOfThePast, TypeOK

\* Where a request goes on, the others stay.
LEMMA GotoEffect ==
  ASSUME TypeOK, NEW r \in Requests, NEW next \in Awaits \cup {"idle", "over"},
         Goto(r, next)
  PROVE  /\ pc' \in [Requests -> Awaits \cup {"idle", "over"}]
         /\ outcome' \in [Requests -> Ends \cup {"none", "lost"}]
         /\ pc'[r] = next /\ outcome'[r] = outcome[r]
         /\ \A q \in Requests : q # r => pc'[q] = pc[q] /\ outcome'[q] = outcome[q]
BY DEF TypeOK, Goto

LEMMA EndEffect ==
  ASSUME TypeOK, NEW r \in Requests, NEW how \in Ends, End(r, how)
  PROVE  /\ pc' \in [Requests -> Awaits \cup {"idle", "over"}]
         /\ outcome' \in [Requests -> Ends \cup {"none", "lost"}]
         /\ pc'[r] = "over" /\ outcome'[r] = how
         /\ \A q \in Requests : q # r => pc'[q] = pc[q] /\ outcome'[q] = outcome[q]
BY DEF TypeOK, End

LEMMA FailEffect ==
  ASSUME TypeOK, NEW r \in Requests, Fail(r)
  PROVE  RoomsTypeOK' /\ End(r, "error")
<1>1. RoomsTypeOK /\ Sender(r) \in Sockets
  BY CallType DEF TypeOK
<1>2. QED
  BY <1>1, EmitErrorType, RoomsUnchanged DEF Fail

\* What an event that goes to the room of a streamed request leaves.
LEMMA TellRoomType ==
  ASSUME TypeOK, NEW r \in Requests, NEW event \in {"step"} \cup Ends,
         \/ EmitToRoom(Room(r), r, event)
         \/ UNCHANGED roomVars
  PROVE  RoomsTypeOK'
BY CallType, EmitToRoomType, RoomsUnchanged DEF TypeOK

\* A step of one request keeps the invariant if it keeps the types and its own
\* part of it, and starts to index nothing but its own messages.
LEMMA RequestStep ==
  ASSUME ChatInv, NEW r \in Requests, LtmInv', TypeOK', MemoryInv', TurnInv(r)',
         call' = call, stm \subseteq stm',
         \A q \in Requests : q # r => pc'[q] = pc[q] /\ outcome'[q] = outcome[q],
         Begun \subseteq Begun', Begun' \subseteq Begun \cup {Question(r), Reply(r)}
  PROVE  ChatInv'
<1>1. ASSUME NEW q \in Requests, q # r PROVE TurnInv(q)'
  <2>1. /\ Question(q) \notin {Question(r), Reply(r)}
        /\ Reply(q) \notin {Question(r), Reply(r)}
    BY <1>1, MessagesOfRequests
  <2>2. TypeOK /\ TurnInv(q)
    BY DEF ChatInv
  <2>3. QED
    BY <1>1, <2>1, <2>2, OthersKeepTurnInv
<1>2. QED
  BY <1>1 DEF ChatInv

\* The same of a step that leaves both memories alone.
LEMMA StepOutsideMemory ==
  ASSUME ChatInv, NEW r \in Requests, UNCHANGED <<ltm, call, recall, stm, faults>>,
         RoomsTypeOK', steps' \in [Requests -> 0..MaxSteps],
         pc' \in [Requests -> Awaits \cup {"idle", "over"}],
         outcome' \in [Requests -> Ends \cup {"none", "lost"}],
         \A q \in Requests : q # r => pc'[q] = pc[q] /\ outcome'[q] = outcome[q],
         TurnInv(r)'
  PROVE  ChatInv'
<1>1. LtmInv' /\ Begun' = Begun
  BY LtmUnchanged DEF ChatInv
<1>2. TypeOK'
  BY <1>1 DEF ChatInv, TypeOK, LtmInv
<1>3. MemoryInv'
  BY <1>1, RecallStays DEF ChatInv, MemoryInv
<1>4. QED
  BY <1>1, <1>2, <1>3, RequestStep

-----------------------------------------------------------------------------
(* The actions.                                                             *)

LEMMA InitKeepsInv == Init => ChatInv
<1> SUFFICES ASSUME Init PROVE ChatInv
  OBVIOUS
<1>1. LtmInv /\ Begun = {}
  BY LtmInitKeepsInv DEF Init
<1>2. RoomsTypeOK
  BY RoomsInitType DEF Init
<1>3. TypeOK
  BY <1>1, <1>2, TurnsAssumption DEF Init, TypeOK, LtmInv
<1>4. MemoryInv
  BY <1>1 DEF Init, MemoryInv, RecallIsOfThePast
<1>5. \A r \in Requests : TurnInv(r)
  BY <1>1 DEF Init, TurnInv
<1>6. QED
  BY <1>1, <1>3, <1>4, <1>5 DEF ChatInv

LEMMA ArriveKeepsInv ==
  ASSUME ChatInv, NEW r \in Requests, Arrive(r)
  PROVE  ChatInv'
<1>1. TypeOK /\ TurnInv(r) /\ RoomsTypeOK' /\ Begun' = Begun
  BY RoomsUnchanged, LtmUnchanged DEF ChatInv, TypeOK, Arrive
<1> DEFINE next == IF Streams(r) THEN "join" ELSE "search"
<1>2. next \in Awaits \cup {"idle", "over"} /\ Goto(r, next)
  BY DEF Arrive, Awaits
<1>3. /\ pc' \in [Requests -> Awaits \cup {"idle", "over"}]
      /\ outcome' \in [Requests -> Ends \cup {"none", "lost"}]
      /\ pc'[r] = next /\ outcome'[r] = outcome[r]
      /\ \A q \in Requests : q # r => pc'[q] = pc[q] /\ outcome'[q] = outcome[q]
  BY <1>1, <1>2, GotoEffect
<1>4. TurnInv(r)'
  BY <1>1, <1>3, CallType DEF Arrive, TurnInv, Kind, IsChat, Streams, Asked, AllKinds
<1>5. QED
  BY <1>1, <1>3, <1>4, StepOutsideMemory DEF Arrive, TypeOK

LEMMA RefuseKeepsInv ==
  ASSUME ChatInv, NEW r \in Requests, Refuse(r)
  PROVE  ChatInv'
<1>1. TypeOK /\ TurnInv(r) /\ Begun' = Begun
  BY LtmUnchanged DEF ChatInv, Refuse
<1>2. RoomsTypeOK' /\ End(r, "error")
  BY <1>1, FailEffect DEF Refuse
<1>3. TurnInv(r)'
  BY <1>1, <1>2, EndEffect
     DEF Refuse, TurnInv, Kind, IsChat, Streams, Asked, Ends
<1>4. QED
  BY <1>1, <1>2, <1>3, EndEffect, StepOutsideMemory DEF Refuse, TypeOK, Ends

LEMMA JoinKeepsInv ==
  ASSUME ChatInv, NEW r \in Requests, Join(r)
  PROVE  ChatInv'
<1>1. TypeOK /\ TurnInv(r) /\ RoomsTypeOK' /\ Begun' = Begun
  BY CallType, JoinRoomType, LtmUnchanged DEF ChatInv, TypeOK, Join
<1> DEFINE next == IF Kind(r) = "stream" THEN "search" ELSE "graph"
<1>2. next \in Awaits /\ Goto(r, next)
  BY DEF Join, Awaits
<1>3. TurnInv(r)'
  BY <1>1, <1>2, GotoEffect, CallType
     DEF Join, TurnInv, Kind, IsChat, Streams, Asked, AllKinds
<1>4. QED
  BY <1>1, <1>2, <1>3, GotoEffect, StepOutsideMemory DEF Join, TypeOK

\* What is found was stored, and is of another turn.
LEMMA SearchKeepsInv ==
  ASSUME ChatInv, NEW r \in Requests, Search(r)
  PROVE  ChatInv'
<1>1. TypeOK /\ TurnInv(r) /\ LtmInv' /\ RoomsTypeOK' /\ Begun' = Begun
  BY RoomsUnchanged, LtmUnchanged DEF ChatInv, TypeOK, Search
<1>2. Goto(r, "add") /\ "add" \in Awaits
  BY DEF Search, Awaits
<1>3. PICK found \in SearchResults : recall' = [recall EXCEPT ![r] = found]
  BY DEF Search
<1>4. found \subseteq Begun
  BY LtmAssumption
     DEF SearchResults, KnnHits, ChatInv, LtmInv, LtmTypeOK, Counts, Begun
<1>5. {Question(r), Reply(r)} \cap Begun = {}
  BY <1>1 DEF Search, TurnInv
<1>6. MemoryInv'
  <2>1. recall'[r] \subseteq stm \ {Question(r), Reply(r)}
    BY <1>1, <1>3, <1>4, <1>5 DEF ChatInv, MemoryInv, TypeOK
  <2>2. \A q \in Requests : q # r => recall'[q] = recall[q]
    BY <1>1, <1>3 DEF TypeOK
  <2>3. QED
    BY <1>1, <2>1, <2>2
       DEF ChatInv, MemoryInv, RecallIsOfThePast, Search, Question, Reply
<1>7. TypeOK'
  <2>1. recall' \in [Requests -> SUBSET Messages]
    BY <1>1, <1>3, <1>4 DEF TypeOK, Begun
  <2>2. QED
    BY <1>1, <1>2, <2>1, GotoEffect DEF TypeOK, LtmInv, Search
<1>8. TurnInv(r)'
  BY <1>1, <1>2, GotoEffect DEF Search, TurnInv, Kind, IsChat, Streams, Asked
<1>9. QED
  BY <1>1, <1>2, <1>6, <1>7, <1>8, GotoEffect, RequestStep DEF Search

\* The question is stored before it is indexed; or the request is over, whether
\* it was stored or not.
LEMMA AddQuestionKeepsInv ==
  ASSUME ChatInv, NEW r \in Requests, AddQuestion(r)
  PROVE  ChatInv'
<1>1. TypeOK /\ TurnInv(r) /\ Question(r) \in Messages \ Begun
  BY MessagesOfRequests DEF ChatInv, AddQuestion, TurnInv
<1>2. /\ recall' = [recall EXCEPT ![r] = {}]
      /\ recall' \in [Requests -> SUBSET Messages]
      /\ UNCHANGED <<call, steps, faults>>
  BY <1>1 DEF AddQuestion, TypeOK
<1>3. CASE /\ stm' = stm \cup {Question(r)}
           /\ PersistTurn(Question(r), r \in BlankAsked)
           /\ Goto(r, "graph")
           /\ UNCHANGED roomVars
  <2> DEFINE blank == r \in BlankAsked
  <2>1. /\ LtmInv'
        /\ Begun' = IF blank THEN Begun ELSE Begun \cup {Question(r)}
    <3>1. blank \in BOOLEAN /\ PersistTurn(Question(r), blank)
      BY <1>3
    <3> HIDE DEF blank
    <3>2. QED
      BY <1>1, <3>1, PersistTurnKeepsInv DEF ChatInv
  <2>2. /\ "graph" \in Awaits
        /\ RoomsTypeOK'
    BY <1>1, <1>3, RoomsUnchanged DEF Awaits, TypeOK
  <2>3. TypeOK'
    BY <1>1, <1>2, <1>3, <2>1, <2>2, GotoEffect DEF TypeOK, LtmInv
  <2>4. MemoryInv'
    BY <1>1, <1>2, <1>3, <2>1, RecallStays DEF ChatInv, MemoryInv
  <2>5. TurnInv(r)'
    BY <1>1, <1>2, <1>3, <2>1, <2>2, GotoEffect, MessagesOfRequests
       DEF AddQuestion, TurnInv, Asked, Kind, IsChat, Question, Reply
  <2>6. QED
    BY <1>1, <1>2, <1>3, <2>1, <2>2, <2>3, <2>4, <2>5, GotoEffect, RequestStep
<1>4. CASE /\ stm' \in {stm, stm \cup {Question(r)}}
           /\ Fail(r)
           /\ UNCHANGED ltm
  <2>1. /\ LtmInv' /\ Begun' = Begun
        /\ RoomsTypeOK' /\ End(r, "error") /\ "error" \in Ends
    BY <1>1, <1>4, LtmUnchanged, FailEffect DEF ChatInv, Ends
  <2>2. TypeOK'
    BY <1>1, <1>2, <1>4, <2>1, EndEffect DEF TypeOK, LtmInv
  <2>3. MemoryInv'
    BY <1>1, <1>2, <1>4, <2>1, RecallStays DEF ChatInv, MemoryInv
  <2>4. TurnInv(r)'
    BY <1>1, <1>2, <2>1, EndEffect DEF AddQuestion, TurnInv, Reply
  <2>5. QED
    BY <1>1, <1>2, <1>4, <2>1, <2>2, <2>3, <2>4, EndEffect, RequestStep
<1>5. QED
  BY <1>3, <1>4 DEF AddQuestion

LEMMA StepKeepsInv ==
  ASSUME ChatInv, NEW r \in Requests, Step(r)
  PROVE  ChatInv'
<1>1. TypeOK /\ TurnInv(r) /\ RoomsTypeOK' /\ Begun' = Begun
  BY TellRoomType, LtmUnchanged DEF ChatInv, Step
<1>2. steps' \in [Requests -> 0..MaxSteps]
  BY <1>1, TurnsAssumption DEF Step, TypeOK
<1>3. TurnInv(r)'
  BY <1>1 DEF Step, TurnInv, Kind, IsChat, Streams, Asked, Question, Reply
<1>4. QED
  BY <1>1, <1>2, <1>3, StepOutsideMemory DEF Step, TypeOK

\* Only a chat goes on to record an answer, and only a resumption is done here.
LEMMA LeaveGraphKeepsInv ==
  ASSUME ChatInv, NEW r \in Requests, LeaveGraph(r)
  PROVE  ChatInv'
<1>1. /\ TypeOK /\ TurnInv(r) /\ Begun' = Begun
      /\ UNCHANGED <<ltm, call, steps, recall, stm, faults>>
  BY LtmUnchanged DEF ChatInv, LeaveGraph
<1>2. ASSUME NEW next \in {"getState", "record"}, next = "record" => IsChat(r),
             Goto(r, next), UNCHANGED roomVars
      PROVE  ChatInv'
  <2>1. next \in Awaits /\ RoomsTypeOK'
    BY <1>1, <1>2, RoomsUnchanged DEF Awaits, TypeOK
  <2>2. TurnInv(r)'
    BY <1>1, <1>2, <2>1, GotoEffect
       DEF LeaveGraph, TurnInv, Kind, IsChat, Streams, Asked, Question, Reply
  <2>3. QED
    BY <1>1, <1>2, <2>1, <2>2, GotoEffect, StepOutsideMemory DEF TypeOK
<1>3. ASSUME NEW how \in {"error", "done"}, how = "done" => ~IsChat(r),
             End(r, how), RoomsTypeOK'
      PROVE  ChatInv'
  <2>1. how \in Ends
    BY DEF Ends
  <2>2. TurnInv(r)'
    BY <1>1, <1>3, <2>1, EndEffect
       DEF LeaveGraph, TurnInv, Kind, IsChat, Streams, Asked, Question, Reply
  <2>3. QED
    BY <1>1, <1>3, <2>1, <2>2, EndEffect, StepOutsideMemory DEF TypeOK
<1>4. CASE Goto(r, "getState") /\ UNCHANGED roomVars
  BY <1>2, <1>4
<1>5. CASE Fail(r)
  BY <1>1, <1>3, <1>5, FailEffect
<1>6. CASE IsChat(r) /\ Goto(r, "record") /\ UNCHANGED roomVars
  BY <1>2, <1>6
<1>7. CASE /\ Kind(r) = "resume" /\ End(r, "done")
           /\ EmitToRoom(Room(r), r, "done")
  BY <1>1, <1>3, <1>7, TellRoomType DEF IsChat, Ends
<1>8. QED
  BY <1>4, <1>5, <1>6, <1>7 DEF LeaveGraph

LEMMA ReportPendingKeepsInv ==
  ASSUME ChatInv, NEW r \in Requests, ReportPending(r)
  PROVE  ChatInv'
<1>1. TypeOK /\ TurnInv(r) /\ Begun' = Begun
  BY LtmUnchanged DEF ChatInv, ReportPending
<1>2. PICK how \in {"interrupt", "error"} : End(r, how) /\ RoomsTypeOK'
  BY <1>1, FailEffect, TellRoomType DEF ReportPending, Ends
<1>3. how \in Ends
  BY DEF Ends
<1>4. TurnInv(r)'
  BY <1>1, <1>2, <1>3, EndEffect
     DEF ReportPending, TurnInv, Kind, IsChat, Streams, Asked, Question, Reply
<1>5. QED
  BY <1>1, <1>2, <1>3, <1>4, EndEffect, StepOutsideMemory
     DEF ReportPending, TypeOK

\* The answer is stored, then indexed, and the question was.
LEMMA RecordKeepsInv ==
  ASSUME ChatInv, NEW r \in Requests, Record(r)
  PROVE  ChatInv'
<1>1. /\ TypeOK /\ TurnInv(r) /\ Reply(r) \in Messages \ Begun
      /\ IsChat(r) /\ Asked(r)
      /\ UNCHANGED <<call, steps, recall, faults>>
  BY MessagesOfRequests DEF ChatInv, Record, TurnInv
<1>2. CASE Complete(r)
  <2>1. LtmInv' /\ Begun' = Begun \cup {Reply(r)}
    <3>1. PersistTurn(Reply(r), FALSE)
      BY <1>2 DEF Complete, RecordedBlank
    <3>2. QED
      BY <1>1, <3>1, PersistTurnKeepsInv DEF ChatInv
  <2>2. /\ stm' = stm \cup {Reply(r)}
        /\ End(r, "done") /\ "done" \in Ends /\ RoomsTypeOK'
    BY <1>1, <1>2, TellRoomType DEF Complete, Ends
  <2>3. TypeOK'
    BY <1>1, <2>1, <2>2, EndEffect DEF TypeOK, LtmInv
  <2>4. MemoryInv'
    BY <1>1, <2>1, <2>2, RecallStays DEF ChatInv, MemoryInv
  <2>5. TurnInv(r)'
    BY <1>1, <2>1, <2>2, EndEffect
       DEF TurnInv, Asked, Kind, IsChat, Question, Reply
  <2>6. QED
    BY <1>1, <2>1, <2>2, <2>3, <2>4, <2>5, EndEffect, RequestStep
<1>3. CASE /\ stm' \in {stm, stm \cup {Reply(r)}}
           /\ Fail(r)
           /\ UNCHANGED ltm
  <2>1. /\ LtmInv' /\ Begun' = Begun
        /\ RoomsTypeOK' /\ End(r, "error") /\ "error" \in Ends
    BY <1>1, <1>3, LtmUnchanged, FailEffect DEF ChatInv, Ends
  <2>2. TypeOK'
    BY <1>1, <1>3, <2>1, EndEffect DEF TypeOK, LtmInv
  <2>3. MemoryInv'
    BY <1>1, <1>3, <2>1, RecallStays DEF ChatInv, MemoryInv
  <2>4. TurnInv(r)'
    BY <1>1, <2>1, EndEffect DEF TurnInv, Reply
  <2>5. QED
    BY <1>1, <1>3, <2>1, <2>2, <2>3, <2>4, EndEffect, RequestStep
<1>4. QED
  BY <1>2, <1>3 DEF Record

\* A step that touches no request and starts no indexing.
LEMMA StepOutsideTurns ==
  ASSUME ChatInv, UNCHANGED turnVars, faults' \in 0..MaxFaults,
         LtmInv', RoomsTypeOK', Begun' = Begun
  PROVE  ChatInv'
<1>1. TypeOK'
  BY DEF ChatInv, TypeOK, turnVars, LtmInv
<1>2. MemoryInv'
  BY DEF ChatInv, MemoryInv, RecallIsOfThePast, turnVars, Question, Reply
<1>3. ASSUME NEW r \in Requests PROVE TurnInv(r)'
  BY OthersKeepTurnInv DEF ChatInv, turnVars
<1>4. QED
  BY <1>1, <1>2, <1>3 DEF ChatInv

LEMMA PersistKeepsInv ==
  ASSUME ChatInv, NEW m \in Messages, Persist(m)
  PROVE  ChatInv'
BY BackgroundKeepsInv, RoomsUnchanged, StepOutsideTurns DEF ChatInv, TypeOK, Persist

LEMMA ListenKeepsInv ==
  ASSUME ChatInv, NEW s \in Sockets, NEW t \in Threads, Listen(s, t)
  PROVE  ChatInv'
BY LtmUnchanged, JoinRoomType, StepOutsideTurns
   DEF ChatInv, TypeOK, Listen, ChatJoin

LEMMA LeaveKeepsInv ==
  ASSUME ChatInv, NEW s \in Sockets, Leave(s)
  PROVE  ChatInv'
<1>1. faults' \in 0..MaxFaults
  BY TurnsAssumption DEF ChatInv, TypeOK, Leave
<1>2. QED
  BY <1>1, LtmUnchanged, DisconnectType, StepOutsideTurns DEF ChatInv, TypeOK, Leave

\* A request that a crash ends has not recorded its answer; nothing recorded is lost.
LEMMA CrashKeepsInv ==
  ASSUME ChatInv, Crash
  PROVE  ChatInv'
<1>1. LtmInv' /\ RoomsTypeOK' /\ Begun' = Begun
  BY LtmCrashKeepsInv, RoomsCrashType DEF ChatInv, TypeOK, Crash
<1>2. TypeOK'
  BY <1>1, TurnsAssumption DEF ChatInv, TypeOK, LtmInv, Crash
<1>3. MemoryInv'
  BY <1>1 DEF ChatInv, MemoryInv, RecallIsOfThePast, Crash
<1>4. ASSUME NEW r \in Requests PROVE TurnInv(r)'
  <2>1. TypeOK /\ TurnInv(r)
    BY DEF ChatInv
  <2>2. CASE Active(r)
    BY <1>1, <2>1, <2>2 DEF Crash, Active, TurnInv, Reply
  <2>3. CASE ~Active(r)
    <3>1. /\ pc'[r] = pc[r] /\ outcome'[r] = outcome[r]
          /\ UNCHANGED <<call, stm>>
      BY <2>3 DEF Crash
    <3>2. QED
      BY <1>1, <2>1, <3>1, OthersKeepTurnInv
  <2>4. QED
    BY <2>2, <2>3
<1>5. QED
  BY <1>1, <1>2, <1>3, <1>4 DEF ChatInv

LEMMA NextKeepsInv == ChatInv /\ [Next]_vars => ChatInv'
<1> SUFFICES ASSUME ChatInv, [Next]_vars PROVE ChatInv'
  OBVIOUS
<1>1. ASSUME NEW r \in Requests, Arrive(r) \/ Refuse(r) \/ Serve(r) PROVE ChatInv'
  BY <1>1, ArriveKeepsInv, RefuseKeepsInv, JoinKeepsInv, SearchKeepsInv,
     AddQuestionKeepsInv, StepKeepsInv, LeaveGraphKeepsInv, ReportPendingKeepsInv,
     RecordKeepsInv DEF Serve
<1>2. ASSUME NEW m \in Messages, Persist(m) PROVE ChatInv'
  BY <1>2, PersistKeepsInv
<1>3. ASSUME NEW s \in Sockets, Leave(s) \/ \E t \in Threads : Listen(s, t)
      PROVE  ChatInv'
  BY <1>3, LeaveKeepsInv, ListenKeepsInv
<1>4. CASE Crash
  BY <1>4, CrashKeepsInv
<1>5. CASE UNCHANGED vars
  BY <1>5, LtmUnchanged, RoomsUnchanged, StepOutsideTurns
     DEF vars, turnVars, ChatInv, TypeOK
<1>6. QED
  BY <1>1, <1>2, <1>3, <1>4, <1>5 DEF Next, Quiescent

-----------------------------------------------------------------------------
(* The theorems.                                                            *)

\* The inductive invariant holds in every behaviour, however requests, background
\* tasks and clients interleave, fail and crash.
THEOREM ChatInvariant == Spec => []ChatInv
<1>1. QED
  BY InitKeepsInv, NextKeepsInv, PTL DEF Spec

\* Every variable keeps its type: no message is tried more often than the retry
\* loop allows, and no room has a socket that is not connected.
THEOREM ChatTypeCorrect == Spec => []TypeOK
<1>1. ChatInv => TypeOK
  BY DEF ChatInv
<1>2. QED
  BY <1>1, ChatInvariant, PTL

\* Short of a crash, the retry loop of persistTurn drops nothing unreported.
THEOREM LossesAreReported == Spec => []LossIsReported
<1>1. ChatInv => LossIsReported
  BY DEF ChatInv, LtmInv, LossIsReported, Counts
<1>2. QED
  BY <1>1, ChatInvariant, PTL

\* Every copy of a message beyond the first is due to an attempt that threw.
THEOREM CopiesAreOfRetries == Spec => []CopiesAreRetries
<1>1. ChatInv => CopiesAreRetries
  BY DEF ChatInv, LtmInv, LtmTypeOK, CopiesAreRetries, Counts
<1>2. QED
  BY <1>1, ChatInvariant, PTL

\* A prompt recalls messages of other turns only, which the short-term memory took.
THEOREM RecallsAreOfThePast == Spec => []RecallIsOfThePast
<1>1. ChatInv => RecallIsOfThePast
  BY DEF ChatInv, MemoryInv
<1>2. QED
  BY <1>1, ChatInvariant, PTL

\* Both halves of a chat that was answered are stored, and those with a text are
\* being indexed.
THEOREM DoneTurnsAreRemembered == Spec => []DoneIsRemembered
<1>1. ChatInv => DoneIsRemembered
  BY DEF ChatInv, TurnInv, Asked, DoneIsRemembered, Begun
<1>2. QED
  BY <1>1, ChatInvariant, PTL

-----------------------------------------------------------------------------
(* What clients hear.                                                       *)

Events == {"step"} \cup Ends

\* Where a streamed request has joined its room.
Joined == {"search", "add", "graph", "getState", "record"}

\* What a sender, and what the others in the room, should have heard.
SenderTold(r) == StepEvents(r) \o EndEvent(r, Ends)

OthersTold(r) == StepEvents(r) \o EndEvent(r, RoomEnds(r))

\* A sender that is connected is in the room from client.join on.
SenderInRoom(r) ==
  Streams(r) /\ pc[r] \in Joined /\ Sender(r) \in open =>
    Sender(r) \in rooms[Room(r)]

IsOther(r, s) == ~(Streams(r) /\ s = Sender(r))

\* Who is connected and not in the room has heard nothing, so that it may join.
OutsidersHeardNothing(r) ==
  \A s \in open : s \notin rooms[Room(r)] /\ IsOther(r, s) => heard[s][r] = <<>>

SenderHeardAll(r) ==
  Streams(r) /\ Sender(r) \in open => heard[Sender(r)][r] = SenderTold(r)

OthersHeardTheSame(r) ==
  \A s \in rooms[Room(r)] :
    IsOther(r, s) => IsSuffix(heard[s][r], OthersTold(r))

EventInv(r) ==
  /\ SenderInRoom(r)
  /\ OutsidersHeardNothing(r)
  /\ SenderHeardAll(r)
  /\ OthersHeardTheSame(r)

EventsInv == \A r \in Requests : EventInv(r)

-----------------------------------------------------------------------------
(* Sequences of events.                                                     *)

\* The empty sequence is a suffix of any other.
LEMMA EmptyIsSuffix ==
  ASSUME NEW S, NEW t \in Seq(S)
  PROVE  IsSuffix(<<>>, t)
<1>1. SubSeq(t, Len(t) + 1, Len(t)) = <<>>
  BY LenProperties, SubSeqEmpty
<1>2. QED
  BY <1>1, LenProperties DEF IsSuffix

\* What both hear next keeps the one a suffix of the other.
LEMMA AppendToSuffix ==
  ASSUME NEW S, NEW s \in Seq(S), NEW t \in Seq(S), NEW e \in S, IsSuffix(s, t)
  PROVE  IsSuffix(Append(s, e), Append(t, e))
<1>1. PICK n \in 0..Len(t) : s = SubSeq(t, n + 1, Len(t))
  BY DEF IsSuffix
<1> DEFINE u == SubSeq(Append(t, e), n + 1, Len(t) + 1)
<1>2. Append(t, e) \in Seq(S) /\ Len(Append(t, e)) = Len(t) + 1
  BY LenProperties
<1>3. Len(s) = Len(t) - n
  BY <1>1, LenProperties
<1>4. u \in Seq(S) /\ Len(u) = Len(t) + 1 - n
  BY <1>2, LenProperties
<1>5. \A i \in 1..Len(u) : u[i] = Append(s, e)[i]
  BY <1>1, <1>2, <1>3, <1>4, LenProperties
<1>6. Append(s, e) \in Seq(S) /\ Len(Append(s, e)) = Len(u)
  BY <1>3, <1>4
<1>7. Append(s, e) = u
  BY <1>4, <1>5, <1>6, SeqEqual
<1>8. n \in 0..Len(Append(t, e))
  BY <1>2, LenProperties
<1>9. QED
  BY <1>2, <1>7, <1>8 DEF IsSuffix

\* Another event at the end.
LEMMA AppendToConcat ==
  ASSUME NEW S, NEW s \in Seq(S), NEW e \in S
  PROVE  s \o <<e>> = Append(s, e) /\ s \o <<>> = s
OBVIOUS

\* The events of a request.
LEMMA ToldType ==
  ASSUME TypeOK, NEW r \in Requests
  PROVE  /\ StepEvents(r) \in Seq(Events)
         /\ SenderTold(r) \in Seq(Events) /\ OthersTold(r) \in Seq(Events)
         /\ \A s \in Sockets : heard[s][r] \in Seq(Events)
<1>1. steps[r] \in Nat
  BY TurnsAssumption DEF TypeOK
<1>2. StepEvents(r) \in Seq(Events)
  BY <1>1 DEF StepEvents, Events
<1>3. EndEvent(r, Ends) \in Seq(Events) /\ EndEvent(r, RoomEnds(r)) \in Seq(Events)
  <2>1. RoomEnds(r) \subseteq Ends /\ Ends \subseteq Events
    BY DEF RoomEnds, Ends, Events
  <2>2. ASSUME NEW ends \in SUBSET Events PROVE EndEvent(r, ends) \in Seq(Events)
    BY DEF EndEvent
  <2>3. QED
    BY <2>1, <2>2
<1>4. \A s \in Sockets : heard[s][r] \in Seq(Events)
  BY DEF TypeOK, RoomsTypeOK, Events
<1>5. QED
  BY <1>2, <1>3, <1>4, ConcatProperties DEF SenderTold, OthersTold

\* A request that is not over has told its steps.
LEMMA ToldSteps ==
  ASSUME TypeOK, NEW r \in Requests, outcome[r] = "none"
  PROVE  SenderTold(r) = StepEvents(r) /\ OthersTold(r) = StepEvents(r)
<1>1. "none" \notin Ends /\ "none" \notin RoomEnds(r)
  BY DEF Ends, RoomEnds
<1>2. QED
  BY <1>1, ToldType, AppendToConcat DEF SenderTold, OthersTold, EndEvent

-----------------------------------------------------------------------------
(* Seen by one request, what a step may tell.                               *)

\* The facts a request keeps for good.
LEMMA CallStays ==
  ASSUME call' = call, NEW r \in Requests
  PROVE  /\ Kind(r)' = Kind(r) /\ Sender(r)' = Sender(r) /\ Room(r)' = Room(r)
         /\ Streams(r)' = Streams(r) /\ IsChat(r)' = IsChat(r)
         /\ RoomEnds(r)' = RoomEnds(r)
         /\ \A s : IsOther(r, s)' = IsOther(r, s)
BY DEF Kind, Sender, Room, Streams, IsChat, RoomEnds, IsOther

\* Nobody is told anything of a request.  Sockets may join rooms and disconnect,
\* but leave no room while they are connected.
LEMMA TellNobody ==
  ASSUME TypeOK, TypeOK', NEW r \in Requests, EventInv(r), call' = call,
         \A s \in Sockets : heard'[s][r] = heard[s][r],
         open' \subseteq open,
         \A t \in Threads : \A s \in open' : s \in rooms[t] => s \in rooms'[t],
         SenderInRoom(r)',
         Streams(r) => SenderTold(r)' = SenderTold(r),
         OthersTold(r)' = OthersTold(r)
  PROVE  EventInv(r)'
<1>1. /\ Sender(r) \in Sockets /\ Room(r) \in Threads
      /\ open \subseteq Sockets /\ rooms'[Room(r)] \subseteq open'
      /\ OthersTold(r) \in Seq(Events)
  BY CallType, ToldType DEF TypeOK, RoomsTypeOK
<1>2. /\ Sender(r)' = Sender(r) /\ Room(r)' = Room(r) /\ Streams(r)' = Streams(r)
      /\ \A s : IsOther(r, s)' = IsOther(r, s)
  BY CallStays
<1>3. OutsidersHeardNothing(r)'
  BY <1>1, <1>2 DEF EventInv, OutsidersHeardNothing
<1>4. SenderHeardAll(r)'
  BY <1>1, <1>2 DEF EventInv, SenderHeardAll
<1>5. OthersHeardTheSame(r)'
  <2>1. ASSUME NEW s \in rooms'[Room(r)], IsOther(r, s)
        PROVE  IsSuffix(heard'[s][r], OthersTold(r))
    <3>1. CASE s \in rooms[Room(r)]
      BY <1>1, <2>1, <3>1 DEF EventInv, OthersHeardTheSame
    <3>2. CASE s \notin rooms[Room(r)]
      BY <1>1, <2>1, <3>2, EmptyIsSuffix DEF EventInv, OutsidersHeardNothing
    <3>3. QED
      BY <3>1, <3>2
  <2>2. QED
    BY <1>2, <2>1 DEF OthersHeardTheSame, IsSuffix
<1>6. QED
  BY <1>3, <1>4, <1>5 DEF EventInv

\* The room is told an event of a request.
LEMMA TellRoom ==
  ASSUME TypeOK, NEW r \in Requests, EventInv(r), call' = call,
         NEW event \in Events, EmitToRoom(Room(r), r, event),
         pc[r] \in Joined, pc'[r] \in Joined \cup {"over"},
         Streams(r) => SenderTold(r)' = Append(SenderTold(r), event),
         OthersTold(r)' = Append(OthersTold(r), event)
  PROVE  EventInv(r)'
<1>1. /\ Sender(r) \in Sockets /\ Room(r) \in Threads
      /\ open \subseteq Sockets /\ rooms[Room(r)] \subseteq Sockets
      /\ OthersTold(r) \in Seq(Events)
      /\ \A s \in Sockets : heard[s][r] \in Seq(Events)
  BY CallType, ToldType DEF TypeOK, RoomsTypeOK
<1>2. /\ Sender(r)' = Sender(r) /\ Room(r)' = Room(r) /\ Streams(r)' = Streams(r)
      /\ \A s : IsOther(r, s)' = IsOther(r, s)
      /\ UNCHANGED <<open, rooms>>
  BY CallStays DEF EmitToRoom
<1>3. \A s \in Sockets :
        heard'[s][r] = IF s \in rooms[Room(r)] THEN Append(heard[s][r], event)
                                               ELSE heard[s][r]
  BY DEF EmitToRoom, Hears, TypeOK, RoomsTypeOK
<1>4. SenderInRoom(r)' /\ OutsidersHeardNothing(r)'
  BY <1>1, <1>2, <1>3 DEF EventInv, OutsidersHeardNothing, SenderInRoom, Joined
<1>5. SenderHeardAll(r)'
  BY <1>1, <1>2, <1>3 DEF EventInv, SenderInRoom, SenderHeardAll
<1>6. OthersHeardTheSame(r)'
  <2>1. ASSUME NEW s \in rooms[Room(r)], IsOther(r, s)
        PROVE  IsSuffix(heard'[s][r], Append(OthersTold(r), event))
    <3>1. IsSuffix(heard[s][r], OthersTold(r))
      BY <2>1 DEF EventInv, OthersHeardTheSame
    <3>2. IsSuffix(Append(heard[s][r], event), Append(OthersTold(r), event))
      BY <1>1, <3>1, AppendToSuffix
    <3>3. QED
      BY <1>1, <1>3, <3>2
  <2>2. QED
    BY <1>2, <2>1 DEF OthersHeardTheSame, IsSuffix
<1>7. QED
  BY <1>4, <1>5, <1>6 DEF EventInv

\* The sender is told of an error, if the request is one over a socket.
LEMMA TellSender ==
  ASSUME TypeOK, NEW r \in Requests, EventInv(r), call' = call, steps' = steps,
         outcome[r] = "none", Fail(r)
  PROVE  EventInv(r)'
<1>1. /\ Sender(r) \in Sockets /\ Room(r) \in Threads
      /\ open \subseteq Sockets /\ rooms[Room(r)] \subseteq Sockets
      /\ StepEvents(r) \in Seq(Events) /\ "error" \in Events
  BY CallType, ToldType DEF TypeOK, RoomsTypeOK, Events, Ends
<1>2. /\ Sender(r)' = Sender(r) /\ Room(r)' = Room(r) /\ Streams(r)' = Streams(r)
      /\ \A s : IsOther(r, s)' = IsOther(r, s)
      /\ RoomEnds(r)' = RoomEnds(r)
      /\ UNCHANGED <<open, rooms>>
  BY CallStays DEF Fail, EmitError, roomVars
<1>3. pc'[r] = "over" /\ outcome'[r] = "error"
  BY FailEffect, EndEffect DEF Ends
<1>4. /\ SenderTold(r) = StepEvents(r) /\ OthersTold(r) = StepEvents(r)
      /\ SenderTold(r)' = Append(StepEvents(r), "error")
      /\ OthersTold(r)' = StepEvents(r)
  <2>1. StepEvents(r)' = StepEvents(r)
    BY <1>2 DEF StepEvents
  <2>2. EndEvent(r, Ends)' = <<"error">> /\ EndEvent(r, RoomEnds(r))' = <<>>
    BY <1>3 DEF EndEvent, Ends, RoomEnds
  <2>3. QED
    BY <1>1, <2>1, <2>2, ToldSteps, AppendToConcat DEF SenderTold, OthersTold
<1>5. \A s \in Sockets :
        /\ IsOther(r, s) => heard'[s][r] = heard[s][r]
        /\ Streams(r) /\ s = Sender(r) /\ s \in open =>
             heard'[s][r] = Append(heard[s][r], "error")
  BY <1>1 DEF Fail, EmitError, Hears, roomVars, IsOther, TypeOK, RoomsTypeOK
<1>6. SenderInRoom(r)' /\ OutsidersHeardNothing(r)'
  BY <1>1, <1>2, <1>3, <1>5
     DEF EventInv, OutsidersHeardNothing, SenderInRoom, Joined
<1>7. SenderHeardAll(r)'
  BY <1>1, <1>2, <1>4, <1>5 DEF EventInv, SenderHeardAll
<1>8. OthersHeardTheSame(r)'
  BY <1>1, <1>2, <1>4, <1>5 DEF EventInv, OthersHeardTheSame, IsSuffix
<1>9. QED
  BY <1>6, <1>7, <1>8 DEF EventInv

-----------------------------------------------------------------------------
(* The actions.                                                             *)

\* A request that neither takes a step nor ends has told the same.
LEMMA ToldStays ==
  ASSUME NEW r \in Requests, call' = call,
         steps'[r] = steps[r], outcome'[r] = outcome[r]
  PROVE  SenderTold(r)' = SenderTold(r) /\ OthersTold(r)' = OthersTold(r)
BY CallStays DEF SenderTold, OthersTold, StepEvents, EndEvent

\* Nobody is told anything of a request that does not move, or moves on quietly.
LEMMA QuietForOne ==
  ASSUME TypeOK, TypeOK', NEW q \in Requests, EventInv(q),
         UNCHANGED <<call, open>>,
         steps'[q] = steps[q], outcome'[q] = outcome[q],
         \A s \in Sockets : heard'[s][q] = heard[s][q],
         \A t \in Threads : rooms[t] \subseteq rooms'[t],
         Streams(q) /\ pc'[q] \in Joined => pc[q] \in Joined
  PROVE  EventInv(q)'
<1>1. SenderTold(q)' = SenderTold(q) /\ OthersTold(q)' = OthersTold(q)
  BY ToldStays
<1>2. SenderInRoom(q)'
  BY CallStays, CallType DEF EventInv, SenderInRoom
<1>3. QED
  BY <1>1, <1>2, TellNobody

\* An event or an error of one request is nothing to another.
LEMMA OtherRequestsUntold ==
  ASSUME TypeOK, NEW r \in Requests, NEW q \in Requests, q # r, call' = call,
         \/ \E event \in Events : EmitToRoom(Room(r), r, event)
         \/ EmitError(Sender(r), r)
         \/ UNCHANGED roomVars
  PROVE  UNCHANGED <<open, rooms>> /\ \A s \in Sockets : heard'[s][q] = heard[s][q]
<1>1. Sender(r) \in Sockets /\ \A s \in Sockets : DOMAIN heard[s] = Requests
  BY CallType DEF TypeOK, RoomsTypeOK
<1>2. ASSUME NEW event, EmitToRoom(Room(r), r, event)
      PROVE  UNCHANGED <<open, rooms>>
             /\ \A s \in Sockets : heard'[s][q] = heard[s][q]
  BY <1>1, <1>2 DEF EmitToRoom, Hears
<1>3. CASE EmitError(Sender(r), r)
  BY <1>1, <1>3 DEF EmitError, Hears, TypeOK, RoomsTypeOK
<1>4. QED
  BY <1>2, <1>3 DEF roomVars

\* A step of one request keeps the invariant of all if it keeps its own.
LEMMA RequestTells ==
  ASSUME TypeOK, TypeOK', \A q \in Requests : EventInv(q), NEW r \in Requests,
         EventInv(r)', call' = call,
         \A q \in Requests : q # r =>
           pc'[q] = pc[q] /\ outcome'[q] = outcome[q] /\ steps'[q] = steps[q],
         \/ \E event \in Events : EmitToRoom(Room(r), r, event)
         \/ EmitError(Sender(r), r)
         \/ UNCHANGED roomVars
  PROVE  \A q \in Requests : EventInv(q)'
<1>1. ASSUME NEW q \in Requests, q # r PROVE EventInv(q)'
  <2>1. UNCHANGED <<open, rooms>> /\ \A s \in Sockets : heard'[s][q] = heard[s][q]
    BY <1>1, OtherRequestsUntold
  <2>2. QED
    BY <1>1, <2>1, QuietForOne
<1>2. QED
  BY <1>1

\* A request moves on and tells nobody.
LEMMA MoveQuietly ==
  ASSUME TypeOK, TypeOK', \A q \in Requests : EventInv(q), NEW r \in Requests,
         NEW next \in Awaits, Goto(r, next), UNCHANGED <<roomVars, call, steps>>,
         Streams(r) /\ next \in Joined => pc[r] \in Joined
  PROVE  \A q \in Requests : EventInv(q)'
<1>1. /\ pc'[r] = next /\ outcome'[r] = outcome[r]
      /\ \A q \in Requests : q # r => pc'[q] = pc[q] /\ outcome'[q] = outcome[q]
  BY GotoEffect
<1>2. EventInv(r)'
  BY <1>1, QuietForOne DEF roomVars
<1>3. QED
  BY <1>1, <1>2, RequestTells

\* A request fails.
LEMMA FailTells ==
  ASSUME ChatInv, TypeOK', \A q \in Requests : EventInv(q), NEW r \in Requests,
         Fail(r), pc[r] # "over", UNCHANGED <<call, steps>>
  PROVE  \A q \in Requests : EventInv(q)'
<1>1. TypeOK /\ outcome[r] = "none"
  BY DEF ChatInv, TurnInv
<1>2. EventInv(r)'
  BY <1>1, TellSender
<1>3. \A q \in Requests : q # r => pc'[q] = pc[q] /\ outcome'[q] = outcome[q]
  BY <1>1, FailEffect, EndEffect DEF Ends
<1>4. QED
  BY <1>1, <1>2, <1>3, RequestTells DEF Fail

\* A request ends with an event that its room is told of: all there is to tell is
\* the steps, and that.
LEMMA EndTells ==
  ASSUME ChatInv, TypeOK', \A q \in Requests : EventInv(q), NEW r \in Requests,
         NEW how \in {"interrupt", "done"}, End(r, how), pc[r] \in Joined,
         UNCHANGED <<call, steps>>,
         IF Streams(r) \/ how = "interrupt" THEN EmitToRoom(Room(r), r, how)
                                           ELSE UNCHANGED roomVars
  PROVE  \A q \in Requests : EventInv(q)'
<1>1. TypeOK /\ outcome[r] = "none" /\ how \in Events /\ how \in Ends
  BY DEF ChatInv, TurnInv, Joined, Events, Ends
<1>2. /\ pc'[r] = "over" /\ outcome'[r] = how
      /\ \A q \in Requests : q # r => pc'[q] = pc[q] /\ outcome'[q] = outcome[q]
  BY <1>1, EndEffect
<1>3. /\ StepEvents(r)' = StepEvents(r) /\ StepEvents(r) \in Seq(Events)
      /\ SenderTold(r) = StepEvents(r) /\ OthersTold(r) = StepEvents(r)
      /\ RoomEnds(r)' = RoomEnds(r) /\ Streams(r)' = Streams(r)
  BY <1>1, CallStays, ToldType, ToldSteps DEF StepEvents
<1>4. CASE Streams(r) \/ how = "interrupt"
  <2>1. EndEvent(r, Ends)' = <<how>> /\ EndEvent(r, RoomEnds(r))' = <<how>>
    BY <1>1, <1>2, <1>3, <1>4 DEF EndEvent, Ends, RoomEnds
  <2>2. /\ SenderTold(r)' = Append(SenderTold(r), how)
        /\ OthersTold(r)' = Append(OthersTold(r), how)
    BY <1>1, <1>3, <2>1, AppendToConcat DEF SenderTold, OthersTold
  <2>3. EventInv(r)'
    BY <1>1, <1>2, <1>4, <2>2, TellRoom
  <2>4. QED
    BY <1>1, <1>2, <1>4, <2>3, RequestTells
<1>5. CASE ~(Streams(r) \/ how = "interrupt")
  <2>1. EndEvent(r, RoomEnds(r))' = <<>>
    BY <1>2, <1>3, <1>5 DEF EndEvent, RoomEnds
  <2>2. OthersTold(r)' = OthersTold(r)
    BY <1>3, <2>1, AppendToConcat DEF OthersTold
  <2>3. SenderInRoom(r)'
    BY <1>3, <1>5 DEF SenderInRoom
  <2>4. EventInv(r)'
    BY <1>1, <1>5, <2>2, <2>3, TellNobody DEF roomVars
  <2>5. QED
    BY <1>1, <1>2, <1>5, <2>4, RequestTells
<1>6. QED
  BY <1>4, <1>5

\* A node is finished: of a streamed request the room hears it.
LEMMA StepTells ==
  ASSUME ChatInv, TypeOK', \A q \in Requests : EventInv(q), NEW r \in Requests,
         Step(r)
  PROVE  \A q \in Requests : EventInv(q)'
<1>1. /\ TypeOK /\ outcome[r] = "none" /\ "step" \in Events
      /\ pc[r] \in Joined
      /\ UNCHANGED <<call, pc, outcome>>
      /\ steps[r] \in Nat /\ steps'[r] = steps[r] + 1
      /\ \A q \in Requests : q # r => steps'[q] = steps[q]
  BY TurnsAssumption DEF ChatInv, TurnInv, TypeOK, Step, Joined, Events
<1>2. CASE Streams(r)
  <2>1. StepEvents(r)' = Append(StepEvents(r), "step")
    <3>1. /\ StepEvents(r) = [i \in 1..steps[r] |-> "step"]
          /\ StepEvents(r)' = [i \in 1..(steps[r] + 1) |-> "step"]
      BY <1>1, <1>2, CallStays DEF StepEvents
    <3>2. QED
      BY <1>1, <3>1
  <2>2. StepEvents(r) \in Seq(Events) /\ StepEvents(r)' \in Seq(Events)
    BY <1>1, <2>1, ToldType
  <2>3. EndEvent(r, Ends)' = <<>> /\ EndEvent(r, RoomEnds(r))' = <<>>
    BY <1>1 DEF EndEvent, Ends, RoomEnds
  <2>4. /\ SenderTold(r)' = Append(SenderTold(r), "step")
        /\ OthersTold(r)' = Append(OthersTold(r), "step")
    BY <1>1, <2>1, <2>2, <2>3, ToldSteps, AppendToConcat
       DEF SenderTold, OthersTold
  <2>5. EmitToRoom(Room(r), r, "step")
    BY <1>2 DEF Step
  <2>6. EventInv(r)'
    BY <1>1, <2>4, <2>5, TellRoom
  <2>7. QED
    BY <1>1, <2>5, <2>6, RequestTells
<1>3. CASE ~Streams(r)
  <2>1. OthersTold(r)' = OthersTold(r)
    BY <1>1, <1>3, CallStays DEF OthersTold, StepEvents, EndEvent
  <2>2. UNCHANGED roomVars /\ SenderInRoom(r)'
    BY <1>1, <1>3, CallStays DEF Step, SenderInRoom
  <2>3. EventInv(r)'
    BY <1>1, <1>3, <2>1, <2>2, TellNobody DEF roomVars
  <2>4. QED
    BY <1>1, <2>2, <2>3, RequestTells
<1>4. QED
  BY <1>2, <1>3

\* The sender is in the room when client.join is done, or gone.
LEMMA JoinTells ==
  ASSUME ChatInv, TypeOK', \A q \in Requests : EventInv(q), NEW r \in Requests,
         Join(r)
  PROVE  \A q \in Requests : EventInv(q)'
<1>1. /\ TypeOK /\ Sender(r) \in Sockets /\ Room(r) \in Threads
      /\ UNCHANGED <<open, heard, call, steps>>
      /\ rooms' = [rooms EXCEPT ![Room(r)] =
                     IF Sender(r) \in open THEN @ \cup {Sender(r)} ELSE @]
  BY CallType DEF ChatInv, Join, JoinRoom
<1>2. /\ \A t \in Threads : rooms[t] \subseteq rooms'[t]
      /\ Sender(r) \in open => Sender(r) \in rooms'[Room(r)]
  BY <1>1 DEF TypeOK, RoomsTypeOK
<1>3. /\ outcome'[r] = outcome[r]
      /\ \A q \in Requests : q # r => pc'[q] = pc[q] /\ outcome'[q] = outcome[q]
  BY <1>1, GotoEffect DEF Join, Awaits
<1>4. EventInv(r)'
  <2>1. SenderTold(r)' = SenderTold(r) /\ OthersTold(r)' = OthersTold(r)
    BY <1>1, <1>3, ToldStays
  <2>2. SenderInRoom(r)'
    BY <1>1, <1>2, CallStays DEF SenderInRoom
  <2>3. QED
    BY <1>1, <1>2, <2>1, <2>2, TellNobody
<1>5. ASSUME NEW q \in Requests, q # r PROVE EventInv(q)'
  BY <1>1, <1>2, <1>3, <1>5, QuietForOne
<1>6. QED
  BY <1>4, <1>5

LEMMA ServeTells ==
  ASSUME ChatInv, TypeOK', \A q \in Requests : EventInv(q), NEW r \in Requests,
         Arrive(r) \/ Refuse(r) \/ Serve(r)
  PROVE  \A q \in Requests : EventInv(q)'
<1>1. TypeOK /\ Joined \subseteq Awaits
  BY DEF ChatInv, Joined, Awaits
<1>2. CASE Arrive(r)
  <2> DEFINE next == IF Streams(r) THEN "join" ELSE "search"
  <2>1. /\ next \in Awaits /\ Goto(r, next) /\ UNCHANGED <<roomVars, call, steps>>
        /\ Streams(r) => next \notin Joined
    BY <1>2 DEF Arrive, Awaits, Joined
  <2>2. QED
    BY <1>1, <2>1, MoveQuietly
<1>3. CASE Refuse(r)
  BY <1>3, FailTells DEF Refuse
<1>4. CASE Join(r)
  BY <1>4, JoinTells
<1>5. CASE Search(r)
  BY <1>1, <1>5, MoveQuietly DEF Search, Joined
<1>6. CASE AddQuestion(r)
  <2>1. CASE Goto(r, "graph") /\ UNCHANGED roomVars
    BY <1>1, <1>6, <2>1, MoveQuietly DEF AddQuestion, Joined
  <2>2. CASE Fail(r)
    BY <1>6, <2>2, FailTells DEF AddQuestion
  <2>3. QED
    BY <1>6, <2>1, <2>2 DEF AddQuestion
<1>7. CASE Step(r)
  BY <1>7, StepTells
<1>8. CASE LeaveGraph(r)
  <2>1. pc[r] \in Joined /\ UNCHANGED <<call, steps>>
    BY <1>8 DEF LeaveGraph, Joined
  <2>2. CASE Goto(r, "getState") /\ UNCHANGED roomVars
    BY <1>1, <2>1, <2>2, MoveQuietly DEF Joined
  <2>3. CASE Fail(r)
    BY <1>8, <2>1, <2>3, FailTells DEF LeaveGraph
  <2>4. CASE Goto(r, "record") /\ UNCHANGED roomVars
    BY <1>1, <2>1, <2>4, MoveQuietly DEF Joined
  <2>5. CASE /\ Kind(r) = "resume" /\ End(r, "done")
             /\ EmitToRoom(Room(r), r, "done")
    BY <2>1, <2>5, EndTells DEF Streams
  <2>6. QED
    BY <1>8, <2>2, <2>3, <2>4, <2>5 DEF LeaveGraph
<1>9. CASE ReportPending(r)
  <2>1. pc[r] \in Joined /\ UNCHANGED <<call, steps>>
    BY <1>9 DEF ReportPending, Joined
  <2>2. CASE End(r, "interrupt") /\ EmitToRoom(Room(r), r, "interrupt")
    BY <2>1, <2>2, EndTells
  <2>3. CASE Fail(r)
    BY <1>9, <2>1, <2>3, FailTells DEF ReportPending
  <2>4. QED
    BY <1>9, <2>2, <2>3 DEF ReportPending
<1>10. CASE Record(r)
  <2>1. pc[r] \in Joined /\ UNCHANGED <<call, steps>>
    BY <1>10 DEF Record, Joined
  <2>2. CASE Complete(r)
    BY <2>1, <2>2, EndTells DEF Complete
  <2>3. CASE Fail(r)
    BY <1>10, <2>1, <2>3, FailTells DEF Record
  <2>4. QED
    BY <1>10, <2>2, <2>3 DEF Record
<1>11. QED
  BY <1>2, <1>3, <1>4, <1>5, <1>6, <1>7, <1>8, <1>9, <1>10 DEF Serve

\* Sockets that join or leave of their own accord hear nothing by it.
LEMMA ClientsTell ==
  ASSUME TypeOK, TypeOK', \A q \in Requests : EventInv(q), NEW s \in Sockets,
         Leave(s) \/ \E t \in Threads : Listen(s, t)
  PROVE  \A q \in Requests : EventInv(q)'
<1> SUFFICES ASSUME NEW q \in Requests PROVE EventInv(q)'
  OBVIOUS
<1>1. /\ UNCHANGED <<call, pc, steps, outcome, heard>>
      /\ Sender(q) \in Sockets /\ Room(q) \in Threads
  BY CallType DEF Leave, Listen, Disconnect, ChatJoin, JoinRoom, turnVars
<1>2. SenderTold(q)' = SenderTold(q) /\ OthersTold(q)' = OthersTold(q)
  BY <1>1, ToldStays
<1>3. /\ open' \subseteq open
      /\ \A t \in Threads : \A c \in open' : c \in rooms[t] => c \in rooms'[t]
  <2>1. CASE Leave(s)
    BY <2>1 DEF TypeOK, RoomsTypeOK, Leave, Disconnect
  <2>2. ASSUME NEW t \in Threads, Listen(s, t)
        PROVE  open' = open /\ \A u \in Threads : rooms[u] \subseteq rooms'[u]
    BY <2>2 DEF TypeOK, RoomsTypeOK, Listen, ChatJoin, JoinRoom
  <2>3. QED
    BY <2>1, <2>2
<1>4. SenderInRoom(q)'
  BY <1>1, <1>3, CallStays DEF EventInv, SenderInRoom
<1>5. QED
  BY <1>1, <1>2, <1>3, <1>4, TellNobody

\* A crash takes the sockets of every room, and of every request under way.
LEMMA CrashTells ==
  ASSUME ChatInv, TypeOK', \A q \in Requests : EventInv(q), Crash
  PROVE  \A q \in Requests : EventInv(q)'
<1> SUFFICES ASSUME NEW q \in Requests PROVE EventInv(q)'
  OBVIOUS
<1>1. /\ TypeOK /\ TurnInv(q) /\ Room(q) \in Threads
      /\ UNCHANGED <<call, steps, heard>>
  BY CallType DEF ChatInv, Crash, RoomsCrash
<1>2. \A t \in Threads : rooms[t] \subseteq Used
  BY DEF Used
<1>3. /\ open' \subseteq open
      /\ \A t \in Threads : \A c \in open' : c \in rooms[t] => c \in rooms'[t]
  BY <1>2 DEF Crash, RoomsCrash
<1>4. SenderInRoom(q)'
  BY <1>1 DEF Crash, SenderInRoom, Active, Joined
<1>5. SenderTold(q)' = SenderTold(q) /\ OthersTold(q)' = OthersTold(q)
  <2>1. CASE Active(q)
    <3>1. outcome[q] = "none" /\ outcome'[q] = "lost"
      BY <1>1, <2>1 DEF Crash, Active, TurnInv
    <3>2. QED
      BY <1>1, <3>1, CallStays
         DEF SenderTold, OthersTold, StepEvents, EndEvent, Ends, RoomEnds
  <2>2. CASE ~Active(q)
    BY <1>1, <2>2, ToldStays DEF Crash
  <2>3. QED
    BY <2>1, <2>2
<1>6. QED
  BY <1>1, <1>3, <1>4, <1>5, TellNobody

LEMMA NextTells == ChatInv /\ ChatInv' /\ EventsInv /\ [Next]_vars => EventsInv'
<1> SUFFICES ASSUME ChatInv, ChatInv', \A q \in Requests : EventInv(q), [Next]_vars
             PROVE  \A q \in Requests : EventInv(q)'
  BY DEF EventsInv
<1>1. TypeOK /\ TypeOK'
  BY DEF ChatInv
<1>2. ASSUME NEW r \in Requests, Arrive(r) \/ Refuse(r) \/ Serve(r)
      PROVE  \A q \in Requests : EventInv(q)'
  BY <1>1, <1>2, ServeTells
<1>3. ASSUME UNCHANGED <<roomVars, turnVars>> PROVE \A q \in Requests : EventInv(q)'
  BY <1>1, <1>3, QuietForOne DEF roomVars, turnVars
<1>4. ASSUME NEW s \in Sockets, Leave(s) \/ \E t \in Threads : Listen(s, t)
      PROVE  \A q \in Requests : EventInv(q)'
  BY <1>1, <1>4, ClientsTell
<1>5. CASE Crash
  BY <1>1, <1>5, CrashTells
<1>6. QED
  BY <1>2, <1>3, <1>4, <1>5 DEF Next, Quiescent, Persist, vars

LEMMA InitTells == Init => EventsInv
<1> SUFFICES ASSUME Init, NEW r \in Requests PROVE EventInv(r)
  BY DEF EventsInv
<1>1. ChatInv /\ TypeOK
  BY InitKeepsInv DEF ChatInv
<1>2. StepEvents(r) = <<>>
  BY DEF Init, StepEvents
<1>3. SenderTold(r) = <<>> /\ OthersTold(r) = <<>>
  BY <1>1, <1>2, ToldSteps DEF Init
<1>4. /\ Sender(r) \in Sockets /\ rooms[Room(r)] = {} /\ pc[r] \notin Joined
      /\ \A s \in Sockets : heard[s][r] = <<>>
  BY <1>1, CallType DEF Init, RoomsInit, Joined
<1>5. QED
  BY <1>3, <1>4 DEF EventInv, SenderInRoom, OutsidersHeardNothing, SenderHeardAll,
                    OthersHeardTheSame, Init, RoomsInit

-----------------------------------------------------------------------------
(* How requests end.                                                        *)

\* A request that is over has one of the ends its sender hears, or a crash ended it,
\* and with it the socket it came from.
EndingInv ==
  \A r \in Requests :
    /\ pc[r] = "over" => outcome[r] \in Ends \cup {"lost"}
    /\ Streams(r) /\ outcome[r] = "lost" => Sender(r) \notin open

\* The awaits by how many may follow, nodes not counted.
StagesAhead == [stage \in Awaits \cup {"idle", "over"} |->
  CASE stage = "idle" -> 6 [] stage = "join" -> 5 [] stage = "search" -> 4
    [] stage = "add" -> 3 [] stage = "graph" -> 2
    [] stage \in {"getState", "record"} -> 1 [] stage = "over" -> 0]

\* The most steps a request may still take.
Ahead(r) == StagesAhead[pc[r]] + (MaxSteps - steps[r])

Stays(r) == pc'[r] = pc[r] /\ outcome'[r] = outcome[r] /\ steps'[r] = steps[r]

\* A request finishes a node, goes on to a later await or comes to an end; a crash
\* ends it unheard, and closes the socket it came from.
Advances(r) ==
  \/ /\ pc[r] = "graph" /\ pc'[r] = "graph" /\ outcome'[r] = outcome[r]
     /\ steps'[r] = steps[r] + 1
  \/ /\ pc'[r] \in Awaits /\ StagesAhead[pc'[r]] < StagesAhead[pc[r]]
     /\ outcome'[r] = outcome[r] /\ steps'[r] = steps[r]
  \/ /\ pc[r] # "over" /\ pc'[r] = "over" /\ steps'[r] = steps[r]
     /\ \/ outcome'[r] \in Ends
        \/ outcome'[r] = "lost" /\ (Streams(r) => Sender(r) \notin open')

\* The awaits are numbered in the order a request comes to them.
LEMMA StagesInOrder ==
  /\ StagesAhead["idle"] = 6 /\ StagesAhead["join"] = 5 /\ StagesAhead["search"] = 4
  /\ StagesAhead["add"] = 3 /\ StagesAhead["graph"] = 2 /\ StagesAhead["getState"] = 1
  /\ StagesAhead["record"] = 1 /\ StagesAhead["over"] = 0
BY DEF StagesAhead, Awaits

\* A request goes on, the others stay.
LEMMA GotoAdvances ==
  ASSUME TypeOK, NEW r \in Requests, NEW next \in Awaits, Goto(r, next),
         StagesAhead[next] < StagesAhead[pc[r]], steps' = steps
  PROVE  Advances(r) /\ \A q \in Requests : q # r => Stays(q)
BY GotoEffect DEF Advances, Stays

\* A request ends, the others stay.
LEMMA EndAdvances ==
  ASSUME TypeOK, NEW r \in Requests, NEW how \in Ends, End(r, how),
         pc[r] # "over", steps' = steps
  PROVE  Advances(r) /\ \A q \in Requests : q # r => Stays(q)
BY EndEffect DEF Advances, Stays

\* A request fails, the others stay.
LEMMA FailAdvances ==
  ASSUME TypeOK, NEW r \in Requests, Fail(r), pc[r] # "over", steps' = steps
  PROVE  Advances(r) /\ \A q \in Requests : q # r => Stays(q)
BY EndAdvances DEF Fail, Ends

\* Whatever the process does for a request takes that request on.
LEMMA ServeAdvances ==
  ASSUME ChatInv, NEW r \in Requests, Arrive(r) \/ Refuse(r) \/ Serve(r)
  PROVE  Advances(r) /\ \A q \in Requests : q # r => Stays(q)
<1>1. TypeOK /\ {"join", "search", "add", "graph", "getState", "record"} = Awaits
  BY DEF ChatInv, Awaits
<1>2. CASE Arrive(r)
  <2> DEFINE next == IF Streams(r) THEN "join" ELSE "search"
  <2>1. pc[r] = "idle" /\ Goto(r, next) /\ steps' = steps
    BY <1>2 DEF Arrive
  <2>2. next \in Awaits /\ StagesAhead[next] < StagesAhead["idle"]
    BY <1>1, StagesInOrder
  <2> HIDE DEF next
  <2>3. QED
    BY <1>1, <2>1, <2>2, GotoAdvances
<1>3. CASE Refuse(r)
  BY <1>1, <1>3, FailAdvances DEF Refuse
<1>4. CASE Join(r)
  <2> DEFINE next == IF Kind(r) = "stream" THEN "search" ELSE "graph"
  <2>1. pc[r] = "join" /\ Goto(r, next) /\ steps' = steps
    BY <1>4 DEF Join
  <2>2. next \in Awaits /\ StagesAhead[next] < StagesAhead["join"]
    BY <1>1, StagesInOrder
  <2> HIDE DEF next
  <2>3. QED
    BY <1>1, <2>1, <2>2, GotoAdvances
<1>5. CASE Search(r)
  <2>1. pc[r] = "search" /\ Goto(r, "add") /\ steps' = steps
    BY <1>5 DEF Search
  <2>2. QED
    BY <1>1, <2>1, StagesInOrder, GotoAdvances
<1>6. CASE AddQuestion(r)
  <2>1. pc[r] = "add" /\ (Goto(r, "graph") \/ Fail(r)) /\ steps' = steps
    BY <1>6 DEF AddQuestion
  <2>2. QED
    BY <1>1, <2>1, StagesInOrder, GotoAdvances, FailAdvances
<1>7. CASE Step(r)
  BY <1>1, <1>7 DEF Step, Advances, Stays, TypeOK
<1>8. CASE LeaveGraph(r)
  <2>1. /\ pc[r] = "graph" /\ steps' = steps
        /\ Goto(r, "getState") \/ Fail(r) \/ Goto(r, "record") \/ End(r, "done")
    BY <1>8 DEF LeaveGraph
  <2>2. QED
    BY <1>1, <2>1, StagesInOrder, GotoAdvances, FailAdvances, EndAdvances DEF Ends
<1>9. CASE ReportPending(r)
  <2>1. pc[r] = "getState" /\ steps' = steps /\ (End(r, "interrupt") \/ Fail(r))
    BY <1>9 DEF ReportPending
  <2>2. QED
    BY <1>1, <2>1, FailAdvances, EndAdvances DEF Ends
<1>10. CASE Record(r)
  <2>1. pc[r] = "record" /\ steps' = steps /\ (End(r, "done") \/ Fail(r))
    BY <1>10 DEF Record, Complete
  <2>2. QED
    BY <1>1, <2>1, FailAdvances, EndAdvances DEF Ends
<1>11. QED
  BY <1>2, <1>3, <1>4, <1>5, <1>6, <1>7, <1>8, <1>9, <1>10 DEF Serve

\* A crash ends what is under way, and closes the sockets it came from.
LEMMA CrashAdvances ==
  ASSUME ChatInv, Crash, NEW q \in Requests
  PROVE  Advances(q) \/ Stays(q)
<1>1. /\ pc'[q] = IF Active(q) THEN "over" ELSE pc[q]
      /\ outcome'[q] = IF Active(q) THEN "lost" ELSE outcome[q]
      /\ steps' = steps /\ open' = open \ Used
  BY DEF Crash, RoomsCrash
<1>2. CASE Active(q)
  <2>1. Streams(q) => Sender(q) \in Used
    BY <1>2 DEF Used, Active
  <2>2. QED
    BY <1>1, <1>2, <2>1 DEF Advances, Active
<1>3. CASE ~Active(q)
  BY <1>1, <1>3 DEF Stays
<1>4. QED
  BY <1>2, <1>3

\* Every step takes each request on or leaves it, and opens no socket.
LEMMA NextAdvances ==
  ASSUME ChatInv, [Next]_vars
  PROVE  /\ \A q \in Requests : Advances(q) \/ Stays(q)
         /\ call' = call /\ open' \subseteq open
<1>1. ASSUME NEW r \in Requests, Arrive(r) \/ Refuse(r) \/ Serve(r)
      PROVE  /\ \A q \in Requests : Advances(q) \/ Stays(q)
             /\ call' = call /\ open' \subseteq open
  <2>1. \A q \in Requests : Advances(q) \/ Stays(q)
    BY <1>1, ServeAdvances
  <2>2. call' = call
    BY <1>1 DEF Serve, Arrive, Refuse, Join, Search, AddQuestion, Step, LeaveGraph,
                ReportPending, Record
  <2>3. ASSUME NEW event, EmitToRoom(Room(r), r, event) PROVE open' = open
    BY <2>3 DEF EmitToRoom
  <2>4. Fail(r) => open' = open
    BY DEF Fail, EmitError, roomVars
  <2>5. open' = open
    BY <1>1, <2>3, <2>4
       DEF Serve, Arrive, Refuse, Join, JoinRoom, Search, AddQuestion, Step, LeaveGraph,
           ReportPending, Record, Complete, roomVars
  <2>6. QED
    BY <2>1, <2>2, <2>5
<1>2. CASE UNCHANGED <<roomVars, turnVars>>
  BY <1>2 DEF roomVars, turnVars, Stays
<1>3. ASSUME NEW s \in Sockets, Leave(s) \/ \E t \in Threads : Listen(s, t)
      PROVE  UNCHANGED turnVars /\ open' \subseteq open
  BY <1>3 DEF Leave, Listen, Disconnect, ChatJoin, JoinRoom
<1>4. CASE Crash
  <2>1. call' = call /\ open' \subseteq open
    BY <1>4 DEF Crash, RoomsCrash
  <2>2. QED
    BY <1>4, <2>1, CrashAdvances
<1>5. ASSUME NEW s \in Sockets, Leave(s) \/ \E t \in Threads : Listen(s, t)
      PROVE  /\ \A q \in Requests : Advances(q) \/ Stays(q)
             /\ call' = call /\ open' \subseteq open
  BY <1>3, <1>5 DEF turnVars, Stays
<1>6. QED
  BY <1>1, <1>2, <1>4, <1>5 DEF Next, Quiescent, Persist, vars

\* Ends are as they should be, as long as requests only advance.
LEMMA NextKeepsEndingInv == ChatInv /\ EndingInv /\ [Next]_vars => EndingInv'
<1> SUFFICES ASSUME ChatInv, EndingInv, [Next]_vars PROVE EndingInv'
  OBVIOUS
<1>1. ASSUME NEW q \in Requests
      PROVE  /\ pc'[q] = "over" => outcome'[q] \in Ends \cup {"lost"}
             /\ Streams(q)' /\ outcome'[q] = "lost" => Sender(q)' \notin open'
  <2>1. /\ Advances(q) \/ Stays(q)
        /\ Streams(q)' = Streams(q) /\ Sender(q)' = Sender(q) /\ open' \subseteq open
    BY NextAdvances, CallStays
  <2>2. "over" \notin Awaits /\ "lost" \notin Ends
    BY DEF Awaits, Ends
  <2>3. QED
    BY <2>1, <2>2 DEF Advances, Stays, EndingInv
<1>2. QED
  BY <1>1 DEF EndingInv

\* A request that advances is closer to its end.
LEMMA AdvancingComesCloser ==
  ASSUME TypeOK, TypeOK', NEW r \in Requests
  PROVE  /\ Advances(r) => Ahead(r)' < Ahead(r)
         /\ Stays(r) => Ahead(r)' = Ahead(r)
         /\ Ahead(r) \in Nat /\ Ahead(r)' \in Nat
<1>1. \A stage \in Awaits \cup {"idle", "over"} :
        StagesAhead[stage] \in Nat /\ (stage # "over" => StagesAhead[stage] > 0)
  BY StagesInOrder DEF Awaits
<1>2. /\ pc[r] \in Awaits \cup {"idle", "over"} /\ pc'[r] \in Awaits \cup {"idle", "over"}
      /\ steps[r] \in 0..MaxSteps /\ steps'[r] \in 0..MaxSteps /\ MaxSteps \in Nat
  BY TurnsAssumption DEF TypeOK
<1>3. Ahead(r)' = StagesAhead[pc'[r]] + (MaxSteps - steps'[r])
  BY DEF Ahead
<1>4. Ahead(r) \in Nat /\ Ahead(r)' \in Nat
  BY <1>1, <1>2, <1>3 DEF Ahead
<1>5. ASSUME Advances(r) PROVE Ahead(r)' < Ahead(r)
  BY <1>1, <1>2, <1>3, <1>5, StagesInOrder DEF Advances, Ahead
<1>6. QED
  BY <1>3, <1>4, <1>5 DEF Stays, Ahead

\* The last event of a request that has ended is its end.
LEMMA EndIsHeard ==
  ASSUME TypeOK, EndingInv, NEW r \in Requests, EventInv(r), pc[r] = "over"
  PROVE  SenderKnows(r)
<1> SUFFICES ASSUME Streams(r), Sender(r) \in open
             PROVE  Ended(heard[Sender(r)][r])
  BY DEF SenderKnows
<1>1. outcome[r] \in Ends
  BY DEF EndingInv
<1>2. heard[Sender(r)][r] = StepEvents(r) \o <<outcome[r]>>
  BY <1>1 DEF EventInv, SenderHeardAll, SenderTold, EndEvent
<1>3. StepEvents(r) \in Seq(Events) /\ outcome[r] \in Events
  BY <1>1, ToldType DEF Events
<1> DEFINE told == Append(StepEvents(r), outcome[r])
<1>4. told # <<>> /\ told[Len(told)] = outcome[r]
  BY <1>3
<1>5. heard[Sender(r)][r] = told
  BY <1>2, <1>3, AppendToConcat
<1> HIDE DEF told
<1>6. QED
  BY <1>1, <1>4, <1>5 DEF Ended

-----------------------------------------------------------------------------
(* The theorems.                                                            *)

\* The inductive invariant of the events holds in every behaviour.
THEOREM EventInvariant == Spec => []EventsInv
<1>1. QED
  BY InitTells, NextTells, ChatInvariant, PTL DEF Spec

\* A client that stays connected hears all of its own request, in order.
THEOREM SendersMissNothing == Spec => []SenderMissesNothing
<1>1. EventsInv => SenderMissesNothing
  BY DEF EventsInv, EventInv, SenderHeardAll, SenderTold, SenderMissesNothing
<1>2. QED
  BY <1>1, EventInvariant, PTL

\* What the others in a room hear is a suffix of what there was to hear.
THEOREM RoomsHearTheSame == Spec => []RoomHearsTheSame
<1>1. EventsInv => RoomHearsTheSame
  BY DEF EventsInv, EventInv, OthersHeardTheSame, OthersTold, IsOther, Audience,
         RoomHearsTheSame
<1>2. QED
  BY <1>1, EventInvariant, PTL

\* Whatever fails, crashes or disconnects: a request that is over is over for its
\* sender as well, if that is still connected.
THEOREM EndsAreHeard == Spec => [](\A r \in Requests : pc[r] = "over" => SenderKnows(r))
<1>1. Init => EndingInv
  BY DEF Init, EndingInv
<1>2. EventsInv /\ ChatInv /\ EndingInv =>
        \A r \in Requests : pc[r] = "over" => SenderKnows(r)
  BY EndIsHeard DEF EventsInv, ChatInv
<1>3. QED
  BY <1>1, <1>2, NextKeepsEndingInv, ChatInvariant, EventInvariant, PTL DEF Spec

\* What the process does for a request brings that request closer to its end, and
\* nothing, neither other requests nor clients nor the long-term memory, takes
\* it back: after at most 6 + MaxSteps steps of its own it is over.
THEOREM ServiceComesToAnEnd ==
  Spec => [][\A r \in Requests :
               /\ Ahead(r)' <= Ahead(r) /\ Ahead(r) \in Nat
               /\ Serve(r) => Ahead(r)' < Ahead(r)]_vars
<1>1. ASSUME ChatInv, ChatInv', [Next]_vars, NEW r \in Requests
      PROVE  /\ Ahead(r)' <= Ahead(r) /\ Ahead(r) \in Nat
             /\ Serve(r) => Ahead(r)' < Ahead(r)
  <2>1. TypeOK /\ TypeOK'
    BY <1>1 DEF ChatInv
  <2>2. Advances(r) \/ Stays(r)
    BY <1>1, NextAdvances
  <2>3. Serve(r) => Advances(r)
    BY <1>1, ServeAdvances
  <2>4. /\ Advances(r) => Ahead(r)' < Ahead(r)
        /\ Stays(r) => Ahead(r)' = Ahead(r)
        /\ Ahead(r) \in Nat /\ Ahead(r)' \in Nat
    BY <2>1, AdvancingComesCloser
  <2>5. QED
    BY <2>2, <2>3, <2>4
<1>2. ChatInv /\ ChatInv' /\ [Next]_vars =>
        [\A r \in Requests :
           /\ Ahead(r)' <= Ahead(r) /\ Ahead(r) \in Nat
           /\ Serve(r) => Ahead(r)' < Ahead(r)]_vars
  BY <1>1
<1>3. QED
  BY <1>2, ChatInvariant, PTL DEF Spec

=============================================================================
