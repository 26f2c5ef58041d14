---------------------------- MODULE ApprovalProofs ----------------------------
(***************************************************************************)
(* Proofs about the approval of tool calls: what a client is told, how far  *)
(* an answer is, and that the agent service implements HumanApproval when   *)
(* it serves one request at a time on a thread, for any finite set of       *)
(* requests, any threads, tools, failures and crashes, and any number of    *)
(* repeated requests and of checkpoints that are yet to be put.             *)
(*                                                                         *)
(* PlaceInv says at which node a request waits.  OrderInv says that the one *)
(* active request of a thread continues, checkpoint by checkpoint, what the *)
(* thread holds, and that a turn asks for its calls once.  CallInv says who *)
(* asked for a call, who ran it and who was told of it.                     *)
(***************************************************************************)
EXTENDS ApprovalRefinement, AgentProofs, FiniteSetTheorems

\* One request at a time on a thread.
Serial == MaxInFlight = 1 /\ IsFiniteSet(Requests)

\* Models that ask for a call when they are asked to.
Calling == <<>> \notin ToolCalls

\* Where the locals of a request are a graph run.
Loaded == {"running", "getState", "record"}

\* The requests that have no graph run yet.
NotBegun == {"idle", "prompt", "begin"}

\* The nodes a request waits at, with all its checkpoints put.
Placed(r) ==
  /\ pc[r] \in {"getState", "record"} => run[r].unstored = <<>>
  /\ pc[r] = "getState" => run[r].cp.next = "tools_executor" /\ run[r].stepped
  /\ pc[r] = "record" => run[r].cp.next = END

PlaceInv == \A r \in Requests : Placed(r)

\* No call of the turn is among these.
Unasked(turn, calls) == \A x \in calls : x.turn # turn

\* A checkpoint on its way to the tools: its turn has asked for none of the calls
\* before the tool-calling node.
Ordered(cp, calls) ==
  /\ cp.next # END => cp.chan.question \in Requests
  /\ cp.next \in {"planner", "tools_caller"} => Unasked(cp.chan.question, calls)
  /\ cp.next = "tools_executor" => LastMessage(cp.chan).calls \in ToolCalls

\* The requests on a thread come one after the other.
Alone(r) == \A q \in Requests : q # r /\ on[q] = on[r] => ~Active(q)

\* The checkpoint before the i-th that r has not put.
Behind(r, i) == IF i = 1 THEN thread[on[r]] ELSE run[r].unstored[i - 1]

\* The checkpoints of r that are not put lead from what its thread holds to its copy,
\* one before the tools after one before the tool-calling node, and last.
Lined(r) ==
  LET loc == run[r]
      n   == Len(loc.unstored)
  IN /\ loc.cp = IF n = 0 THEN thread[on[r]] ELSE loc.unstored[n]
     /\ \A i \in 1..n :
          /\ Ordered(loc.unstored[i], Asked)
          /\ loc.unstored[i].chan.question = loc.cp.chan.question
          /\ loc.unstored[i].next = "tools_executor" =>
               /\ i = n /\ Behind(r, i).next = "tools_caller"
               /\ Unasked(loc.unstored[i].chan.question, Asked)
     /\ ~loc.stepped /\ loc.cp.next = "tools_executor" => n = 0

\* A turn that has not begun left no trace.
NoTrace(r) ==
  /\ \A t \in Threads : thread[t].chan.question # r
  /\ \A q \in Requests : pc[q] \in Loaded => run[q].cp.chan.question # r
  /\ Unasked(r, Asked)

OrderInv ==
  /\ \A t \in Threads : Ordered(thread[t], Asked)
  /\ \A r \in Requests :
       /\ Active(r) => Alone(r)
       /\ pc[r] \in Loaded => Lined(r)
       /\ pc[r] \in NotBegun => NoTrace(r)

\* The thread t waits with calls of this turn.
WaitsAt(t, turn) == thread[t].next = "tools_executor" /\ thread[t].chan.question = turn

\* A request has its answer at its end, and has neither asked for calls nor run any
\* before its first superstep.
Begun(r) ==
  /\ reply[r].status = "none" <=> pc[r] # "done"
  /\ pc[r] \in NotBegun \/ (pc[r] = "running" /\ ~run[r].stepped) =>
       asked[r] = {} /\ ran[r] = {}

\* What a request in progress asked for is what its thread waits with; what it runs
\* is of its turn; what was shown when it came is still the last.
InProgress(r) ==
  Active(r) =>
    /\ \A x \in asked[r] : run[r].unstored = <<>> /\ WaitsAt(on[r], x.turn)
    /\ \A x \in ran[r] : x.turn = run[r].cp.chan.question
    /\ approved[r] = shown[on[r]]

\* A request asks for calls of its own thread.
AsksHere(r) == \A x \in asked[r] : x.turn \in Requests /\ on[x.turn] = on[r]

\* A thread waits with calls that r ran only until r has put what it made of them,
\* or forever, when r failed to.
Settles(r) ==
  \A t \in Threads : \A x \in ran[r] :
    WaitsAt(t, x.turn) =>
      \/ reply[r].status \in {"error", "lost"}
      \/ pc[r] = "running" /\ on[r] = t /\ run[r].unstored # <<>>

\* Nobody runs the calls of a request that is in progress.
AsksFirst(r) == \A q \in Requests : ran[q] \cap asked[r] # {} => pc[r] = "done"

\* The calls that r told its client of are shown as long as a thread waits with them.
Tells(r) ==
  \A t \in Threads : \A x \in asked[r] :
    WaitsAt(t, x.turn) /\ reply[r].status = "pending" =>
      shown[t] = PendingAction(thread[t].chan)

CallInv ==
  \A r \in Requests :
    Begun(r) /\ InProgress(r) /\ AsksHere(r) /\ Settles(r) /\ AsksFirst(r) /\ Tells(r)

\* What is shown was asked for, and not by a request in progress.
ShownInv ==
  /\ \A t \in Threads : shown[t].turn \in Requests => ~Unasked(shown[t].turn, Asked)
  /\ \A r \in Requests : \A x \in asked[r] : Active(r) => shown[on[r]].turn # x.turn

-----------------------------------------------------------------------------
(* What a step may be.                                                      *)

\* A request goes on to another await of its own.
Waits(r) ==
  /\ \/ pc[r] = "prompt" /\ pc' = [pc EXCEPT ![r] = "begin"]
     \/ /\ pc[r] = "running" /\ run[r].unstored = <<>>
        /\ \/ Paused(r) /\ pc' = [pc EXCEPT ![r] = "getState"]
           \/ run[r].cp.next = END /\ pc' = [pc EXCEPT ![r] = "record"]
  /\ UNCHANGED <<thread, kind, on, run, reply, shown, approved, asked, ran>>

\* A request ends with an error or with an answer.
Leaves(r, rep) ==
  /\ Active(r) /\ End(r, rep)
  /\ \/ rep.status = "error"
     \/ /\ rep.status = "completed"
        /\ \/ pc[r] = "record"
           \/ /\ pc[r] = "running" /\ run[r].unstored = <<>>
              /\ run[r].cp.next = END \/ kind[r] \in {"resume", "reject"}
  /\ UNCHANGED <<thread, kind, on, shown, approved, asked, ran>>

\* A graph run starts from checkpoint cp.
Begins(r, cp) ==
  /\ pc[r] = "begin" /\ cp = Started(kind[r], thread[on[r]], r)
  /\ run' = [run EXCEPT ![r] =
               [NullRun EXCEPT !.cp = cp,
                               !.unstored = IF kind[r] \in ChatKinds THEN <<cp>>
                                                                     ELSE <<>>]]
  /\ thread' = IF kind[r] \in ChatKinds THEN thread
                                        ELSE [thread EXCEPT ![on[r]] = cp]
  /\ pc' = [pc EXCEPT ![r] = "running"]
  /\ UNCHANGED <<kind, on, reply, shown, approved, asked, ran>>

\* A node of a run leaves the channels at c.
Runs(r, c) ==
  LET old == run[r].cp
  IN /\ pc[r] = "running" /\ old.next # END /\ ~Paused(r)
     /\ c \in NodeResults(old.next, old.chan)
     /\ run' = [run EXCEPT ![r] =
                  Streamed(run[r], old.next, Advanced(old, old.next, c))]
     /\ ran' = IF old.next = "tools_executor"
                 THEN [ran EXCEPT ![r] = Calls(old.chan)] ELSE ran
     /\ UNCHANGED <<thread, kind, on, pc, reply, shown, approved, asked>>

\* The answer of a request that throws.
ErrorOf(r) == [NoReply EXCEPT !.status = "error", !.stepped = run[r].stepped]

\* A checkpoint is put, and the run goes on or throws.
Puts(r) ==
  /\ pc[r] = "running" /\ run[r].unstored # <<>> /\ Store(r)
  /\ \/ run' = [run EXCEPT ![r].unstored = Tail(@)] /\ UNCHANGED <<pc, reply>>
     \/ End(r, ErrorOf(r))
  /\ UNCHANGED <<kind, on, shown, approved, ran>>

\* The pending action p is shown.
Shows(r, p) ==
  /\ pc[r] = "getState" /\ p = PendingAction(thread[on[r]].chan)
  /\ shown' = [shown EXCEPT ![on[r]] = p]
  /\ End(r, [NoReply EXCEPT !.status = "pending", !.shown = p,
                            !.stepped = run[r].stepped])
  /\ UNCHANGED <<thread, kind, on, approved, asked, ran>>

\* What one request does, its client included.
Acts(r) ==
  \/ Arrive(r) \/ Waits(r) \/ \E rep : Leaves(r, rep)
  \/ \E cp : Begins(r, cp)
  \/ \E c : Runs(r, c)
  \/ Puts(r)
  \/ \E p : Shows(r, p)

\* An error ends the request.
LEMMA FailLeaves ==
  ASSUME NEW r \in Requests, End(r, ErrorOf(r)), Active(r),
         UNCHANGED <<thread, kind, on, shown, approved, asked, ran>>
  PROVE  Acts(r)
<1>1. ErrorOf(r).status = "error"
  BY DEF NoReply, ErrorOf
<1>2. Leaves(r, ErrorOf(r))
  BY <1>1 DEF Leaves
<1>3. QED
  BY <1>2 DEF Acts

\* A final answer ends the request.
LEMMA CompletedLeaves ==
  ASSUME NEW r \in Requests, End(r, Completed(r)),
         \/ pc[r] = "record"
         \/ /\ pc[r] = "running" /\ run[r].unstored = <<>>
            /\ run[r].cp.next = END \/ kind[r] \in {"resume", "reject"},
         UNCHANGED <<thread, kind, on, shown, approved, asked, ran>>
  PROVE  Acts(r)
<1>1. Completed(r).status = "completed"
  BY DEF Completed
<1>2. Active(r)
  BY DEF Active
<1>3. Leaves(r, Completed(r))
  BY <1>1, <1>2, Zenon DEF Leaves
<1>4. QED
  BY <1>3 DEF Acts

\* Every step is a crash, or one request acts, or nothing happens.
LEMMA StepsAre ==
  ASSUME [Next]_vars
  PROVE  UNCHANGED vars \/ Crash \/ \E r \in Requests : Acts(r)
<1>0. ASSUME NEW r \in Requests, NEW point, Fail(r, point), Active(r) PROVE Acts(r)
  BY <1>0, FailLeaves DEF Fail, ErrorOf
<1>1. ASSUME NEW r \in Requests, BuildPrompt(r) PROVE Acts(r)
  <2>1. pc[r] = "prompt"
    BY <1>1 DEF BuildPrompt
  <2>2. CASE Fail(r, "prompt")
    BY <2>1, <2>2, <1>0 DEF Active
  <2>3. CASE ~Fail(r, "prompt")
    <3>1. Waits(r)
      BY <1>1, <2>1, <2>3 DEF BuildPrompt, Waits
    <3>2. QED
      BY <3>1 DEF Acts
  <2>4. QED
    BY <2>2, <2>3
<1>2. ASSUME NEW r \in Requests, Begin(r) PROVE Acts(r)
  <2>1. pc[r] = "begin"
    BY <1>2 DEF Begin
  <2>2. CASE Fail(r, "begin")
    BY <2>1, <2>2, <1>0 DEF Active
  <2>3. CASE ~Fail(r, "begin")
    <3>1. Begins(r, Started(kind[r], thread[on[r]], r))
      BY <1>2, <2>1, <2>3 DEF Begin, Begins
    <3>2. QED
      BY <3>1 DEF Acts
  <2>4. QED
    BY <2>2, <2>3
<1>3. ASSUME NEW r \in Requests, RunNode(r) PROVE Acts(r)
  <2> DEFINE old == run[r].cp
  <2>1. pc[r] = "running" /\ old.next # END /\ ~Paused(r)
    BY <1>3 DEF RunNode
  <2>2. CASE Fail(r, old.next)
    BY <2>1, <2>2, <1>0 DEF Active
  <2>3. CASE ~Fail(r, old.next)
    <3>1. PICK c \in NodeResults(old.next, old.chan) :
            run' = [run EXCEPT ![r] = Streamed(@, old.next, Advanced(@.cp, old.next, c))]
      BY <1>3, <2>3 DEF RunNode
    <3>2. run' = [run EXCEPT ![r] = Streamed(run[r], old.next, Advanced(old, old.next, c))]
      BY <3>1
    <3>3. Runs(r, c)
      BY <1>3, <2>1, <2>3, <3>2 DEF RunNode, Runs
    <3>4. QED
      BY <3>3 DEF Acts
  <2>4. QED
    BY <2>2, <2>3
<1>4. ASSUME NEW r \in Requests, Put(r) PROVE Acts(r)
  <2>1. pc[r] = "running" /\ run[r].unstored # <<>>
    BY <1>4 DEF Put
  <2>2. CASE Store(r)
    <3>1. Puts(r)
      BY <1>4, <2>1, <2>2 DEF Put, Puts, ErrorOf
    <3>2. QED
      BY <3>1 DEF Acts
  <2>3. CASE ~Store(r)
    BY <1>4, <2>1, <2>3, FailLeaves DEF Put, ErrorOf, Active
  <2>4. QED
    BY <2>2, <2>3
<1>5. ASSUME NEW r \in Requests, ReportPending(r) PROVE Acts(r)
  <2>1. pc[r] = "getState"
    BY <1>5 DEF ReportPending
  <2>2. CASE Fail(r, "getState")
    BY <2>1, <2>2, <1>0 DEF Active
  <2>3. CASE ~Fail(r, "getState")
    <3>1. Shows(r, PendingAction(thread[on[r]].chan))
      BY <1>5, <2>1, <2>3 DEF ReportPending, Shows
    <3>2. QED
      BY <3>1 DEF Acts
  <2>4. QED
    BY <2>2, <2>3
<1>6. ASSUME NEW r \in Requests, NoticePause(r) PROVE Acts(r)
  <2>1. Waits(r)
    BY <1>6 DEF NoticePause, Waits, AllPut
  <2>2. QED
    BY <2>1 DEF Acts
<1>7. ASSUME NEW r \in Requests, Finish(r) PROVE Acts(r)
  <2>1. /\ pc[r] = "running" /\ run[r].unstored = <<>>
        /\ run[r].cp.next = END \/ kind[r] \in {"resume", "reject"}
        /\ UNCHANGED <<thread, kind, on, shown, approved, asked, ran>>
    BY <1>7 DEF Finish, AllPut, NoticesPause
  <2>2. CASE kind[r] \in ChatKinds
    <3>1. run[r].cp.next = END
      BY <2>1, <2>2 DEF ChatKinds
    <3>2. Waits(r)
      BY <1>7, <2>1, <2>2, <3>1 DEF Finish, Waits
    <3>3. QED
      BY <3>2 DEF Acts
  <2>3. CASE kind[r] \notin ChatKinds
    BY <1>7, <2>1, <2>3, CompletedLeaves DEF Finish
  <2>4. QED
    BY <2>2, <2>3
<1>8. ASSUME NEW r \in Requests, Record(r) PROVE Acts(r)
  <2>1. pc[r] = "record"
    BY <1>8 DEF Record
  <2>2. CASE Fail(r, "record")
    BY <2>1, <2>2, <1>0 DEF Active
  <2>3. CASE ~Fail(r, "record")
    BY <1>8, <2>1, <2>3, CompletedLeaves DEF Record
  <2>4. QED
    BY <2>2, <2>3
<1>9. ASSUME NEW r \in Requests, Arrive(r) \/ Serve(r) PROVE Acts(r)
  BY <1>1, <1>2, <1>3, <1>4, <1>5, <1>6, <1>7, <1>8, <1>9 DEF Serve, Acts
<1>10. QED
  BY <1>9 DEF Next, Quiescent

-----------------------------------------------------------------------------
(* Supersteps, as the approval sees them.                                   *)

\* The node that asks for calls is the only one that leads to the executor.
LEMMA EdgesToTools ==
  ASSUME NEW n \in Nodes, NEW c
  PROVE  /\ Successor(n, c) # "planner"
         /\ Successor(n, c) = "tools_caller" => n = "planner"
         /\ Successor(n, c) = "tools_executor" <=> n = "tools_caller"
BY DEF Successor, RouteAfterPlan, RouteAfterGrading, Nodes, END

\* What the tool-calling node asks for is in its last message.
LEMMA CallerAsks ==
  ASSUME NEW c \in Channels, NEW d \in ToolsCaller(c)
  PROVE  LastMessage(d).calls \in ToolCalls
<1> DEFINE e == Noted(c)
           msg(calls) == [role |-> "ai", turn |-> c.question, calls |-> calls]
<1>1. PICK calls \in ToolCalls :
         d = [e EXCEPT !.messages = Append(e.messages, msg(calls))]
  BY DEF ToolsCaller
<1>2. e \in Channels /\ e.messages \in Seq(Message)
  BY NotedType DEF Channels
<1>3. d.messages = Append(e.messages, msg(calls))
  BY <1>1, <1>2 DEF Channels
<1>4. /\ Len(d.messages) = Len(e.messages) + 1
      /\ d.messages[Len(e.messages) + 1] = msg(calls)
      /\ Len(e.messages) \in Nat
  BY <1>2, <1>3
<1>5. QED
  BY <1>4 DEF LastMessage

\* The calls of a checkpoint before the tools are of its turn.
LEMMA CallsAreOfTurn ==
  ASSUME NEW cp, ToolTurn(cp), cp.next = "tools_executor", NEW x \in Calls(cp.chan)
  PROVE  x.turn = cp.chan.question
BY DEF ToolTurn, Calls

\* What a node of r that leaves the channels at c has done to its run.
HasRun(r, c) ==
  LET old == run[r].cp
      n   == old.next
      new == run'[r].cp
      len == Len(run[r].unstored)
  IN /\ pc[r] = "running" /\ n \in Nodes /\ ~(n = "tools_executor" /\ run[r].stepped)
     /\ new.next = Successor(n, c) /\ new.chan.question = old.chan.question
     /\ new = Advanced(old, n, c) /\ run'[r].stepped
     /\ len \in Nat /\ Len(run'[r].unstored) = len + 1
     /\ \A i \in 1..len : run'[r].unstored[i] = run[r].unstored[i]
     /\ run'[r].unstored[len + 1] = new
     /\ \A q \in Requests \ {r} : run'[q] = run[q] /\ ran'[q] = ran[q]
     /\ UNCHANGED <<thread, kind, on, pc, reply, shown, approved, asked>>
     /\ n = "tools_caller" => LastMessage(new.chan).calls \in ToolCalls
     /\ n # "tools_executor" => ran'[r] = ran[r]
     /\ n = "tools_executor" =>
          /\ ran'[r] = Calls(old.chan)
          /\ \A x \in Calls(old.chan) : x.turn = old.chan.question

\* The effect of a superstep on the channels is that of its node.
LEMMA RunsFacts ==
  ASSUME ServiceInv, NEW r \in Requests, NEW c, Runs(r, c)
  PROVE  HasRun(r, c)
<1> DEFINE old == run[r].cp
           n   == old.next
           cp  == Advanced(old, n, c)
           loc == Streamed(run[r], n, cp)
<1>1. /\ pc[r] = "running" /\ n # END /\ ~Paused(r) /\ c \in NodeResults(n, old.chan)
      /\ run' = [run EXCEPT ![r] = loc]
      /\ ran' = IF n = "tools_executor" THEN [ran EXCEPT ![r] = Calls(old.chan)]
                                        ELSE ran
      /\ UNCHANGED <<thread, kind, on, pc, reply, shown, approved, asked>>
  BY DEF Runs
<1>2. /\ run \in [Requests -> Run] /\ DOMAIN ran = Requests
      /\ run[r] \in Run /\ old \in Checkpoint /\ CheckpointInv(old)
      /\ run[r].unstored \in Seq(Checkpoint)
  BY DEF ServiceInv, TypeOK, RunInv, GoodRun, Copies, Run
<1>3. n \in Nodes /\ old.chan \in Channels
  BY <1>1, <1>2 DEF Checkpoint
<1>4. /\ cp \in Checkpoint /\ cp.chan = c /\ c.question = old.chan.question
      /\ cp.next = Successor(n, c)
  BY <1>1, <1>2, <1>3, SuperstepKeepsInv DEF Advanced
<1>5. ~(n = "tools_executor" /\ run[r].stepped)
  BY <1>1 DEF Paused, InterruptBefore
<1>6. n = "tools_caller" => LastMessage(c).calls \in ToolCalls
  BY <1>1, <1>3, NodeResultsAt, CallerAsks
<1>7. n = "tools_executor" => \A x \in Calls(old.chan) : x.turn = old.chan.question
  BY <1>2, CallsAreOfTurn DEF CheckpointInv
<1> HIDE DEF cp, n, old
<1>8. loc.cp = cp /\ loc.unstored = Append(run[r].unstored, cp) /\ loc.stepped
  BY <1>2, <1>4, StreamedType
<1> HIDE DEF loc
<1>9. /\ run'[r] = loc
      /\ \A q \in Requests \ {r} : run'[q] = run[q] /\ ran'[q] = ran[q]
      /\ n # "tools_executor" => ran'[r] = ran[r]
      /\ n = "tools_executor" => ran'[r] = Calls(old.chan)
  BY <1>1, <1>2
<1>10. /\ Len(run[r].unstored) \in Nat
       /\ Len(loc.unstored) = Len(run[r].unstored) + 1
       /\ \A i \in 1..Len(run[r].unstored) : loc.unstored[i] = run[r].unstored[i]
       /\ loc.unstored[Len(run[r].unstored) + 1] = cp
  BY <1>2, <1>4, <1>8, AppendProperties
<1>11. QED
  BY <1>1, <1>3, <1>4, <1>5, <1>6, <1>7, <1>8, <1>9, <1>10 DEF HasRun, cp, n, old

\* What storing the oldest checkpoint of r has done to its thread, and what it was.
HasStored(r) ==
  LET cp == Head(run[r].unstored)
  IN /\ on[r] \in Threads /\ thread'[on[r]] = cp
     /\ run[r].unstored # <<>> /\ cp = run[r].unstored[1]
     /\ Len(run[r].unstored) \in Nat \ {0}
     /\ \A t \in Threads \ {on[r]} : thread'[t] = thread[t]
     /\ \A q \in Requests \ {r} : asked'[q] = asked[q]
     /\ cp.next # "tools_executor" => asked'[r] = asked[r]
     /\ cp.next = "tools_executor" =>
          /\ asked'[r] = asked[r] \cup Calls(cp.chan)
          /\ \A x \in Calls(cp.chan) : x.turn = cp.chan.question
     /\ TurnAt(cp.chan.question, on[r])

\* The checkpoint is the oldest that r has not put, and asks for its calls.
LEMMA StoreFacts ==
  ASSUME ServiceInv, NEW r \in Requests, run[r].unstored # <<>>, Store(r)
  PROVE  HasStored(r)
<1> DEFINE cp == Head(run[r].unstored)
<1>1. /\ on[r] \in Threads /\ run[r].unstored \in Seq(Checkpoint)
      /\ thread \in [Threads -> Checkpoint] /\ DOMAIN asked = Requests
      /\ GoodRun(run[r], on[r])
  BY DEF ServiceInv, TypeOK, RunInv, Run
<1>2. /\ cp = run[r].unstored[1] /\ 1 \in DOMAIN run[r].unstored
      /\ Len(run[r].unstored) \in Nat \ {0}
  BY <1>1
<1>3. CheckpointInv(cp) /\ TurnAt(cp.chan.question, on[r])
  BY <1>1, <1>2 DEF GoodRun, Copies
<1> HIDE DEF cp
<1>4. cp.next = "tools_executor" => \A x \in Calls(cp.chan) : x.turn = cp.chan.question
  BY <1>3, CallsAreOfTurn DEF CheckpointInv
<1>5. /\ thread' = [thread EXCEPT ![on[r]] = cp]
      /\ asked' = IF cp.next = "tools_executor"
                    THEN [asked EXCEPT ![r] = @ \cup Calls(cp.chan)] ELSE asked
  BY DEF Store, InterruptBefore, cp
<1>6. /\ thread'[on[r]] = cp
      /\ \A t \in Threads \ {on[r]} : thread'[t] = thread[t]
      /\ \A q \in Requests \ {r} : asked'[q] = asked[q]
      /\ cp.next # "tools_executor" => asked'[r] = asked[r]
      /\ cp.next = "tools_executor" => asked'[r] = asked[r] \cup Calls(cp.chan)
  BY <1>1, <1>5
<1>7. QED
  BY <1>1, <1>2, <1>3, <1>4, <1>6 DEF HasStored, cp

\* What the run of r looks like after a put that ended well.
HasPut(r) ==
  LET len == Len(run[r].unstored)
  IN /\ run'[r].cp = run[r].cp /\ run'[r].stepped = run[r].stepped
     /\ Len(run'[r].unstored) = len - 1
     /\ \A i \in 1..len - 1 : run'[r].unstored[i] = run[r].unstored[i + 1]
     /\ len = 1 => run'[r].unstored = <<>>
     /\ \A q \in Requests \ {r} : run'[q] = run[q]
     /\ UNCHANGED <<pc, reply>>

\* The run has one checkpoint less to put.
LEMMA TailFacts ==
  ASSUME ServiceInv, NEW r \in Requests, run[r].unstored # <<>>,
         run' = [run EXCEPT ![r].unstored = Tail(@)], UNCHANGED <<pc, reply>>
  PROVE  HasPut(r)
<1>1. run \in [Requests -> Run] /\ run[r].unstored \in Seq(Checkpoint)
  BY DEF ServiceInv, TypeOK, Run
<1>2. /\ run'[r].cp = run[r].cp /\ run'[r].stepped = run[r].stepped
      /\ run'[r].unstored = Tail(run[r].unstored)
      /\ \A q \in Requests \ {r} : run'[q] = run[q]
  BY <1>1 DEF Run
<1>3. /\ Len(Tail(run[r].unstored)) = Len(run[r].unstored) - 1
      /\ Tail(run[r].unstored) \in Seq(Checkpoint)
      /\ \A i \in 1..Len(run[r].unstored) - 1 :
           Tail(run[r].unstored)[i] = run[r].unstored[i + 1]
  BY <1>1
<1>4. Len(run[r].unstored) = 1 => Tail(run[r].unstored) = <<>>
  <2> DEFINE rest == Tail(run[r].unstored)
  <2>1. Len(run[r].unstored) = 1 => Len(rest) = 0
    BY <1>3
  <2>2. rest \in Seq(Checkpoint)
    BY <1>3
  <2> HIDE DEF rest
  <2>3. Len(rest) = 0 => rest = <<>>
    BY <2>2, EmptySeq
  <2>4. QED
    BY <2>1, <2>3 DEF rest
<1>5. QED
  BY <1>2, <1>3, <1>4 DEF HasPut

\* What the start of a graph run from cp has done.
HasBegun(r, cp) ==
  /\ on[r] \in Threads /\ pc[r] = "begin" /\ pc'[r] = "running"
  /\ \A t \in Threads \ {on[r]} : thread'[t] = thread[t]
  /\ \A q \in Requests \ {r} : pc'[q] = pc[q] /\ run'[q] = run[q]
  /\ UNCHANGED <<kind, on, reply, shown, approved, asked, ran>>
  /\ run'[r].cp = cp /\ ~run'[r].stepped
  /\ kind[r] \in ChatKinds =>
       /\ cp.chan.question = r /\ cp.next = "planner"
       /\ run'[r].unstored = <<cp>> /\ thread' = thread
  /\ kind[r] \notin ChatKinds =>
       /\ cp.chan.question = thread[on[r]].chan.question
       /\ cp.next = thread[on[r]].next
       /\ cp.chan.messages = thread[on[r]].chan.messages
       /\ run'[r].unstored = <<>> /\ thread'[on[r]] = cp

\* A chat starts its own turn, a command goes on with the turn of the thread.
LEMMA BeginsFacts ==
  ASSUME ServiceInv, NEW r \in Requests, NEW cp, Begins(r, cp)
  PROVE  HasBegun(r, cp)
<1>1. /\ on[r] \in Threads /\ thread[on[r]] \in Checkpoint
      /\ CheckpointInv(thread[on[r]])
      /\ run \in [Requests -> Run] /\ thread \in [Threads -> Checkpoint]
      /\ DOMAIN pc = Requests
  BY DEF ServiceInv, TypeOK, StoredInv
<1> DEFINE first == IF kind[r] \in ChatKinds THEN <<cp>> ELSE <<>>
           loc   == [NullRun EXCEPT !.cp = cp, !.unstored = first]
<1>2. loc.cp = cp /\ loc.unstored = first /\ loc.stepped = FALSE
  BY DEF NullRun
<1>3. cp = Started(kind[r], thread[on[r]], r)
  BY DEF Begins
<1>4. /\ kind[r] \in ChatKinds => cp.chan.question = r /\ cp.next = "planner"
      /\ kind[r] \notin ChatKinds =>
           /\ cp.chan.question = thread[on[r]].chan.question
           /\ cp.next = thread[on[r]].next
           /\ cp.chan.messages = thread[on[r]].chan.messages
  BY <1>1, <1>3, StartKeepsInv
<1>5. run' = [run EXCEPT ![r] = loc]
  BY DEF Begins
<1> HIDE DEF loc
<1>6. run'[r] = loc /\ \A q \in Requests \ {r} : run'[q] = run[q]
  BY <1>1, <1>5
<1>7. /\ pc[r] = "begin" /\ pc'[r] = "running"
      /\ \A q \in Requests \ {r} : pc'[q] = pc[q]
      /\ UNCHANGED <<kind, on, reply, shown, approved, asked, ran>>
      /\ kind[r] \in ChatKinds => thread' = thread
      /\ kind[r] \notin ChatKinds => thread' = [thread EXCEPT ![on[r]] = cp]
  BY <1>1 DEF Begins
<1>8. /\ \A t \in Threads \ {on[r]} : thread'[t] = thread[t]
      /\ kind[r] \notin ChatKinds => thread'[on[r]] = cp
  BY <1>1, <1>7
<1>9. QED
  BY <1>1, <1>2, <1>4, <1>6, <1>7, <1>8 DEF HasBegun

\* A request that ends forgets its run, the others keep theirs.
LEMMA EndFacts ==
  ASSUME ServiceInv, NEW r \in Requests, NEW rep, End(r, rep)
  PROVE  /\ pc'[r] = "done" /\ reply'[r] = rep
         /\ run'[r].unstored = <<>> /\ ~run'[r].stepped
         /\ \A q \in Requests \ {r} :
              pc'[q] = pc[q] /\ run'[q] = run[q] /\ reply'[q] = reply[q]
<1>1. DOMAIN pc = Requests /\ DOMAIN run = Requests /\ DOMAIN reply = Requests
  BY DEF ServiceInv, TypeOK
<1>2. QED
  BY <1>1, NullRunInv DEF End

\* The reply of a report.
Told(r, p) == [NoReply EXCEPT !.status = "pending", !.shown = p,
                              !.stepped = run[r].stepped]

\* A report ends a request with what it found.
LEMMA ShowsFacts ==
  ASSUME ServiceInv, NEW r \in Requests, NEW p, Shows(r, p)
  PROVE  /\ on[r] \in Threads /\ pc[r] = "getState"
         /\ p = PendingAction(thread[on[r]].chan)
         /\ shown'[on[r]] = p
         /\ \A t \in Threads \ {on[r]} : shown'[t] = shown[t]
         /\ pc'[r] = "done" /\ reply'[r].status = "pending" /\ reply'[r].shown = p
         /\ \A q \in Requests \ {r} :
              pc'[q] = pc[q] /\ run'[q] = run[q] /\ reply'[q] = reply[q]
         /\ UNCHANGED <<thread, kind, on, approved, asked, ran>>
<1>1. End(r, Told(r, p)) /\ pc[r] = "getState"
  BY DEF Shows, Told
<1>2. Told(r, p).status = "pending" /\ Told(r, p).shown = p
  BY DEF Told, NoReply
<1>3. on[r] \in Threads /\ DOMAIN shown = Threads
  BY DEF ServiceInv, TypeOK
<1>4. QED
  BY <1>1, <1>2, <1>3, EndFacts DEF Shows

-----------------------------------------------------------------------------
(* Where requests wait.                                                     *)

\* Nobody has run yet.
LEMMA InitPlaces == Init => PlaceInv
BY DEF Init, PlaceInv, Placed

\* A request that keeps its place and its locals waits where it did.
LEMMA PlacedElsewhere ==
  ASSUME NEW q \in Requests, Placed(q), pc'[q] = pc[q], run'[q] = run[q]
  PROVE  Placed(q)'
BY DEF Placed

\* Where nobody waits, everybody is at its place.
LEMMA PlacedNowhere ==
  ASSUME NEW q \in Requests, pc'[q] \notin {"getState", "record"}
  PROVE  Placed(q)'
BY DEF Placed

\* What a step of r leaves of the others.
LEMMA OthersStay ==
  ASSUME ServiceInv, NEW r \in Requests, Acts(r)
  PROVE  /\ UNCHANGED <<kind, on>>
         /\ \A q \in Requests \ {r} :
              /\ pc'[q] = pc[q] /\ run'[q] = run[q] /\ reply'[q] = reply[q]
              /\ approved'[q] = approved[q] /\ asked'[q] = asked[q] /\ ran'[q] = ran[q]
         /\ \A t \in Threads \ {on[r]} : thread'[t] = thread[t] /\ shown'[t] = shown[t]
<1>1. /\ DOMAIN pc = Requests /\ DOMAIN approved = Requests
      /\ on[r] \in Threads
  BY DEF ServiceInv, TypeOK
<1>2. CASE Arrive(r)
  BY <1>1, <1>2 DEF Arrive
<1>3. CASE Waits(r)
  BY <1>1, <1>3 DEF Waits
<1>4. ASSUME NEW rep, Leaves(r, rep)
      PROVE  /\ End(r, rep)
             /\ UNCHANGED <<thread, kind, on, shown, approved, asked, ran>>
  BY <1>4 DEF Leaves
<1>5. ASSUME NEW cp, Begins(r, cp) PROVE HasBegun(r, cp)
  BY <1>5, BeginsFacts
<1>6. ASSUME NEW c, Runs(r, c) PROVE HasRun(r, c)
  BY <1>6, RunsFacts
<1>7. ASSUME Puts(r)
      PROVE  /\ UNCHANGED <<kind, on, shown, approved, ran>>
             /\ HasStored(r)
             /\ HasPut(r) \/ End(r, ErrorOf(r))
  BY <1>7, StoreFacts, TailFacts DEF Puts
<1>8. ASSUME NEW rep, End(r, rep)
      PROVE  \A q \in Requests \ {r} :
               pc'[q] = pc[q] /\ run'[q] = run[q] /\ reply'[q] = reply[q]
  BY <1>8, EndFacts
<1>9. CASE Puts(r)
  BY <1>7, <1>8, <1>9 DEF HasStored, HasPut
<1>10. ASSUME NEW p, Shows(r, p)
       PROVE  /\ UNCHANGED <<thread, kind, on, approved, asked, ran>>
              /\ \A t \in Threads \ {on[r]} : shown'[t] = shown[t]
              /\ \A q \in Requests \ {r} :
                   pc'[q] = pc[q] /\ run'[q] = run[q] /\ reply'[q] = reply[q]
  BY <1>10, ShowsFacts
<1>11. CASE \E rep : Leaves(r, rep)
  BY <1>4, <1>8, <1>11
<1>12. CASE \E cp : Begins(r, cp)
  BY <1>5, <1>12 DEF HasBegun
<1>13. CASE \E c : Runs(r, c)
  BY <1>6, <1>13 DEF HasRun
<1>14. CASE \E p : Shows(r, p)
  BY <1>10, <1>14
<1>15. QED
  BY <1>2, <1>3, <1>9, <1>11, <1>12, <1>13, <1>14 DEF Acts

\* Whatever a request does, it waits at the node it should.
LEMMA ActPlaces ==
  ASSUME ServiceInv, PlaceInv, NEW r \in Requests, Acts(r)
  PROVE  PlaceInv'
<1>1. /\ \A q \in Requests \ {r} : pc'[q] = pc[q] /\ run'[q] = run[q]
      /\ \A q \in Requests : Placed(q)
      /\ DOMAIN pc = Requests
  BY OthersStay DEF PlaceInv, ServiceInv, TypeOK
<1>2. \A q \in Requests \ {r} : Placed(q)'
  BY <1>1, PlacedElsewhere
<1>3. SUFFICES Placed(r)'
  BY <1>2 DEF PlaceInv
<1>4. CASE Arrive(r)
  <2>1. pc'[r] \in {"prompt", "begin"}
    BY <1>1, <1>4 DEF Arrive
  <2>2. QED
    BY <2>1, PlacedNowhere
<1>5. CASE Waits(r)
  <2>1. CASE pc[r] = "prompt"
    <3>1. pc'[r] = "begin"
      BY <1>1, <1>5, <2>1 DEF Waits
    <3>2. QED
      BY <3>1, PlacedNowhere
  <2>2. CASE pc[r] = "running"
    <3>1. /\ run' = run /\ run[r].unstored = <<>>
          /\ \/ pc'[r] = "getState" /\ Paused(r)
             \/ pc'[r] = "record" /\ run[r].cp.next = END
      BY <1>1, <1>5, <2>2 DEF Waits
    <3>2. QED
      BY <3>1 DEF Placed, Paused, InterruptBefore
  <2>3. QED
    BY <1>5, <2>1, <2>2 DEF Waits
<1>6. ASSUME NEW rep, End(r, rep) PROVE Placed(r)'
  <2>1. pc'[r] = "done"
    BY <1>6, EndFacts
  <2>2. QED
    BY <2>1, PlacedNowhere
<1>7. ASSUME NEW cp, Begins(r, cp) PROVE Placed(r)'
  <2>1. pc'[r] = "running"
    BY <1>7, BeginsFacts DEF HasBegun
  <2>2. QED
    BY <2>1, PlacedNowhere
<1>8. ASSUME pc[r] = "running", pc' = pc PROVE Placed(r)'
  BY <1>8, PlacedNowhere
<1>9. ASSUME NEW c, Runs(r, c) PROVE Placed(r)'
  BY <1>8, <1>9 DEF Runs
<1>10. CASE Puts(r)
  BY <1>6, <1>8, <1>10 DEF Puts
<1>11. QED
  BY <1>4, <1>5, <1>6, <1>7, <1>9, <1>10 DEF Acts, Leaves, Shows

\* A crash leaves nobody waiting.
LEMMA CrashPlaces ==
  ASSUME Crash
  PROVE  PlaceInv'
<1>1. \A r \in Requests : pc'[r] \in {"idle", "done"}
  BY DEF Crash, Active
<1>2. QED
  BY <1>1 DEF PlaceInv, Placed

\* Every step keeps requests at their places.
LEMMA NextPlaces == ServiceInv /\ PlaceInv /\ [Next]_vars => PlaceInv'
<1> SUFFICES ASSUME ServiceInv, PlaceInv, [Next]_vars
             PROVE  PlaceInv'
  OBVIOUS
<1>1. CASE UNCHANGED vars
  BY <1>1 DEF vars, PlaceInv, Placed
<1>2. QED
  BY <1>1, StepsAre, ActPlaces, CrashPlaces

\* Requests are always at their places.
LEMMA PlaceInvariant == Spec => []PlaceInv
BY InitPlaces, NextPlaces, ServiceInvariant, PTL DEF Spec

\* What StatusMatchesOutcome says of a request.
TrueStatus(q) ==
  /\ reply'[q].status = "completed" /\ kind[q] \notin {"resume", "reject"} =>
       run[q].cp.next = END
  /\ reply'[q].status = "pending" => run[q].cp.next \in InterruptBefore

\* A request that ends was where its reply says.
LEMMA ActOutcome ==
  ASSUME ServiceInv, PlaceInv, NEW r \in Requests, Acts(r),
         NEW q \in Requests, pc[q] # "done", pc'[q] = "done"
  PROVE  TrueStatus(q)
<1>1. q = r
  BY OthersStay
<1>2. Placed(r) /\ DOMAIN pc = Requests
  BY DEF PlaceInv, ServiceInv, TypeOK
<1>3. CASE Arrive(r) \/ Waits(r)
  BY <1>1, <1>2, <1>3 DEF Arrive, Waits
<1>4. ASSUME NEW rep, Leaves(r, rep) PROVE TrueStatus(r)
  <2>1. reply'[r] = rep
    BY <1>4, EndFacts DEF Leaves
  <2>2. rep.status # "pending"
    BY <1>4 DEF Leaves
  <2>3. rep.status = "completed" /\ kind[r] \notin {"resume", "reject"} =>
          run[r].cp.next = END
    BY <1>2, <1>4 DEF Leaves, Placed
  <2>4. QED
    BY <2>1, <2>2, <2>3 DEF TrueStatus
<1>5. ASSUME NEW cp, Begins(r, cp) PROVE FALSE
  BY <1>1, <1>5, BeginsFacts DEF HasBegun
<1>6. ASSUME NEW c, Runs(r, c) PROVE FALSE
  BY <1>1, <1>6, RunsFacts DEF HasRun
<1>7. CASE Puts(r)
  <2>1. End(r, ErrorOf(r)) /\ ErrorOf(r).status = "error"
    BY <1>1, <1>7 DEF Puts, ErrorOf, NoReply
  <2>2. reply'[r].status = "error"
    BY <2>1, EndFacts
  <2>3. QED
    BY <1>1, <2>2 DEF TrueStatus
<1>8. ASSUME NEW p, Shows(r, p) PROVE TrueStatus(r)
  BY <1>2, <1>8, ShowsFacts DEF Placed, TrueStatus, InterruptBefore
<1>9. QED
  BY <1>1, <1>3, <1>4, <1>5, <1>6, <1>7, <1>8 DEF Acts

\* A client that is told "completed" or "pending" is told where its run stands,
\* unless it resumed the run over REST, however requests interleave, fail and crash
\* and however the puts lag behind the nodes.
THEOREM StatusIsTrue == Spec => StatusMatchesOutcome
<1>1. ServiceInv /\ PlaceInv /\ [Next]_vars =>
        [\A r \in Requests :
           pc[r] # "done" /\ pc'[r] = "done" =>
             /\ reply'[r].status = "completed" /\ kind[r] \notin {"resume", "reject"} =>
                  run[r].cp.next = END
             /\ reply'[r].status = "pending" =>
                  run[r].cp.next \in InterruptBefore]_vars
  <2> SUFFICES ASSUME ServiceInv, PlaceInv, [Next]_vars, ~UNCHANGED vars,
                      NEW q \in Requests, pc[q] # "done", pc'[q] = "done"
               PROVE  TrueStatus(q)
    BY DEF TrueStatus
  <2>1. CASE Crash
    <3>1. reply'[q].status = "lost"
      BY <2>1 DEF Crash, Active, NoReply
    <3>2. QED
      BY <3>1 DEF TrueStatus
  <2>2. ASSUME NEW r \in Requests, Acts(r) PROVE TrueStatus(q)
    BY <2>2, ActOutcome
  <2>3. QED
    BY <2>1, <2>2, StepsAre
<1>2. QED
  BY <1>1, ServiceInvariant, PlaceInvariant, PTL DEF Spec, StatusMatchesOutcome

-----------------------------------------------------------------------------
(* How far an answer is.                                                    *)

\* The bounds of the rounds that are left.
LEMMA RoundsAreBounded ==
  ASSUME NEW c \in Channels
  PROVE  RoundsLeft(c) \in 1..MaxRetries
BY ChannelAssumption DEF RoundsLeft, Channels

\* The distance from each node.
LEMMA AheadOf ==
  ASSUME NEW cp
  PROVE  /\ cp.next = "planner" => StepsAhead(cp) = 2 * RoundsLeft(cp.chan) + 4
         /\ cp.next = "query_rewriter" => StepsAhead(cp) = 2 * RoundsLeft(cp.chan) + 3
         /\ cp.next = "search" => StepsAhead(cp) = 2 * RoundsLeft(cp.chan) + 2
         /\ cp.next = "relevance_check" => StepsAhead(cp) = 2 * RoundsLeft(cp.chan) + 1
         /\ cp.next = "generator" => StepsAhead(cp) = 2 * RoundsLeft(cp.chan)
         /\ cp.next = "grader" => StepsAhead(cp) = 2 * RoundsLeft(cp.chan) - 1
         /\ cp.next = "tools_caller" => StepsAhead(cp) = 3
         /\ cp.next = "tools_executor" => StepsAhead(cp) = 2
         /\ cp.next = "tools_result" => StepsAhead(cp) = 1
         /\ cp.next = END => StepsAhead(cp) = 0
BY DEF StepsAhead, END

\* No checkpoint is further from the end than the longest run.
LEMMA AheadIsBounded ==
  ASSUME NEW cp \in Checkpoint
  PROVE  StepsAhead(cp) \in 0..LongestRun
<1>1. RoundsLeft(cp.chan) \in 1..MaxRetries /\ MaxRetries \in Nat /\ MaxRetries > 0
  BY RoundsAreBounded, ChannelAssumption DEF Checkpoint
<1>2. cp.next \in Nodes \cup {END}
  BY DEF Checkpoint
<1>3. QED
  BY <1>1, <1>2, AheadOf DEF LongestRun, Nodes

\* A superstep leads nearer to the end: the only edge back, from the grader to
\* the generator, is taken after a counted verdict and below MaxRetries.
LEMMA SuperstepComesCloser ==
  ASSUME NEW cp \in Checkpoint, CheckpointInv(cp), cp.next \in Nodes,
         NEW d \in NodeResults(cp.next, cp.chan)
  PROVE  StepsAhead(Advanced(cp, cp.next, d)) < StepsAhead(cp)
<1> DEFINE n == cp.next
           c == cp.chan
           new == Advanced(cp, n, d)
<1>1. /\ c \in Channels /\ d \in Channels
      /\ new.chan = d /\ new.next = Successor(n, d)
  BY SuperstepKeepsInv DEF Checkpoint, Advanced
<1>2. NodeEffect(n, c, d)
  BY <1>1, NodeHasEffect DEF CheckpointInv, ToolTurn
<1>3. /\ n # "grader" => d.retryCount = c.retryCount
      /\ n = "grader" => d.retryCount = c.retryCount + 1 \/ d.gradingFeedback = FALSE
  BY <1>2 DEF NodeEffect
<1>4. /\ RoundsLeft(c) \in Nat \ {0} /\ RoundsLeft(d) \in Nat
      /\ d.retryCount = c.retryCount => RoundsLeft(d) = RoundsLeft(c)
      /\ d.retryCount = c.retryCount + 1 /\ d.retryCount < MaxRetries =>
           RoundsLeft(d) = RoundsLeft(c) - 1
  BY <1>1, ChannelAssumption DEF Channels, RoundsLeft
<1> SUFFICES StepsAhead(new) < StepsAhead(cp)
  OBVIOUS
<1> HIDE DEF new
<1>5. CASE n = "grader"
  <2>1. \/ new.next = END
        \/ new.next = "generator" /\ RoundsLeft(d) = RoundsLeft(c) - 1
    BY <1>1, <1>3, <1>4, <1>5 DEF Successor, RouteAfterGrading
  <2>2. QED
    BY <1>1, <1>4, <1>5, <2>1, AheadOf
<1>6. CASE n = "planner"
  <2>1. new.next \in {"query_rewriter", "tools_caller", "generator"}
    BY <1>1, <1>6 DEF Successor, RouteAfterPlan
  <2>2. QED
    BY <1>1, <1>3, <1>4, <1>6, <2>1, AheadOf
<1>7. CASE n \in Nodes \ {"grader", "planner"}
  <2>1. <<n, new.next>> \in
          {<<"query_rewriter", "search">>, <<"search", "relevance_check">>,
           <<"relevance_check", "generator">>, <<"generator", "grader">>,
           <<"tools_caller", "tools_executor">>,
           <<"tools_executor", "tools_result">>, <<"tools_result", END>>}
    BY <1>1, <1>7 DEF Successor, Nodes
  <2>2. n # "grader" /\ RoundsLeft(d) = RoundsLeft(c)
    BY <1>3, <1>4, <1>7
  <2>3. QED
    BY <1>1, <1>4, <2>1, <2>2, AheadOf
<1>8. QED
  BY <1>5, <1>6, <1>7

\* The distance of a request at each of its awaits.
LEMMA DistanceIs ==
  ASSUME ServiceInv, NEW r \in Requests
  PROVE  /\ LongestRun \in Nat
         /\ StepsAhead(run[r].cp) \in 0..LongestRun /\ Len(run[r].unstored) \in Nat
         /\ Distance(r) \in Nat
         /\ pc[r] = "idle" => Distance(r) = 2 * LongestRun + 6
         /\ pc[r] = "prompt" => Distance(r) = 2 * LongestRun + 5
         /\ pc[r] = "begin" => Distance(r) = 2 * LongestRun + 4
         /\ pc[r] = "running" =>
              Distance(r) = 2 * StepsAhead(run[r].cp) + Len(run[r].unstored) + 2
         /\ pc[r] \in {"getState", "record"} => Distance(r) = 1
         /\ pc[r] = "done" => Distance(r) = 0
         /\ Active(r) => Distance(r) > 0
<1>1. /\ run[r].cp \in Checkpoint /\ pc[r] \in {"idle", "running", "done"} \cup Awaits
      /\ run[r].unstored \in Seq(Checkpoint)
  BY DEF ServiceInv, TypeOK, Run
<1>2. StepsAhead(run[r].cp) \in 0..LongestRun
  BY <1>1, AheadIsBounded
<1>3. LongestRun \in Nat /\ Len(run[r].unstored) \in Nat
  BY <1>1, ChannelAssumption DEF LongestRun
<1>4. /\ pc[r] = "idle" => Distance(r) = 2 * LongestRun + 6
      /\ pc[r] = "prompt" => Distance(r) = 2 * LongestRun + 5
      /\ pc[r] = "begin" => Distance(r) = 2 * LongestRun + 4
      /\ pc[r] = "running" =>
           Distance(r) = 2 * StepsAhead(run[r].cp) + Len(run[r].unstored) + 2
      /\ pc[r] \in {"getState", "record"} => Distance(r) = 1
      /\ pc[r] = "done" => Distance(r) = 0
  BY DEF Distance
<1>5. pc[r] \in {"idle", "prompt", "begin", "running", "getState", "record", "done"}
  BY <1>1 DEF Awaits
<1>6. Active(r) <=> pc[r] \notin {"idle", "done"}
  BY DEF Active
<1> DEFINE ahead == StepsAhead(run[r].cp)
           len   == Len(run[r].unstored)
<1>7. ahead \in Nat /\ len \in Nat
  BY <1>2, <1>3
<1>8. 2 * ahead + len + 2 \in Nat \ {0}
  <2> HIDE DEF ahead, len
  <2>1. QED
    BY <1>7
<1>9. /\ 2 * LongestRun + 6 \in Nat \ {0} /\ 2 * LongestRun + 5 \in Nat \ {0}
      /\ 2 * LongestRun + 4 \in Nat \ {0}
  BY <1>3
<1>10. QED
  BY <1>2, <1>3, <1>4, <1>5, <1>6, <1>8, <1>9

\* The checkpoints of a run that are not put make up for the supersteps it has taken.
Pays(r) ==
  pc[r] = "running" =>
    2 * StepsAhead(run[r].cp) + Len(run[r].unstored) <= 2 * LongestRun + 1

\* What EveryStepCounts says of one request.
ComesCloser(q) ==
  /\ Distance(q)' <= Distance(q)
  /\ <<pc[q], run[q], reply[q]>>' # <<pc[q], run[q], reply[q]>> =>
       Distance(q)' < Distance(q)

\* A request that has not moved has come closer to nothing.
LEMMA OthersStayWhereTheyAre ==
  ASSUME ServiceInv, NEW q \in Requests,
         pc'[q] = pc[q], run'[q] = run[q], reply'[q] = reply[q]
  PROVE  ComesCloser(q)
<1>1. Distance(q)' = Distance(q)
  BY DEF Distance, StepsAhead
<1>2. Distance(q) \in Nat
  BY DistanceIs
<1>3. QED
  BY <1>1, <1>2 DEF ComesCloser

\* A request that ends is there.
LEMMA EndComesCloser ==
  ASSUME ServiceInv, NEW q \in Requests, Active(q), pc'[q] = "done"
  PROVE  ComesCloser(q)
<1>1. Distance(q) \in Nat /\ Distance(q) > 0
  BY DistanceIs
<1>2. Distance(q)' = 0
  BY DEF Distance
<1>3. QED
  BY <1>1, <1>2 DEF ComesCloser

\* The distance of a running request after a step.
LEMMA DistanceOfRun ==
  ASSUME NEW r \in Requests, pc'[r] = "running"
  PROVE  Distance(r)' = 2 * StepsAhead(run'[r].cp) + Len(run'[r].unstored) + 2
BY DEF Distance, StepsAhead, RoundsLeft

\* A node takes two steps off and puts one more checkpoint on.
LEMMA RunComesCloser ==
  ASSUME ServiceInv, NEW r \in Requests, NEW c, Runs(r, c)
  PROVE  ComesCloser(r) /\ (Pays(r) => Pays(r)')
<1> DEFINE old == run[r].cp
           new == Advanced(old, old.next, c)
           len == Len(run[r].unstored)
<1>1. HasRun(r, c)
  BY RunsFacts
<1>2. /\ pc[r] = "running" /\ pc'[r] = "running" /\ run'[r].cp = new /\ len \in Nat
      /\ Len(run'[r].unstored) = len + 1
  BY <1>1 DEF HasRun
<1>3. /\ old \in Checkpoint /\ CheckpointInv(old) /\ old.next \in Nodes
      /\ c \in NodeResults(old.next, old.chan)
  BY <1>1 DEF ServiceInv, TypeOK, Run, RunInv, GoodRun, Copies, HasRun, Runs
<1>4. StepsAhead(new) < StepsAhead(old) /\ new \in Checkpoint
  BY <1>3, SuperstepComesCloser, SuperstepKeepsInv
<1>5. StepsAhead(new) \in Nat /\ StepsAhead(old) \in Nat /\ LongestRun \in Nat
  BY <1>3, <1>4, AheadIsBounded, DistanceIs
<1>6. /\ Distance(r) = 2 * StepsAhead(old) + len + 2
      /\ Distance(r)' = 2 * StepsAhead(run'[r].cp) + Len(run'[r].unstored) + 2
  BY <1>2, DistanceIs, DistanceOfRun
<1> HIDE DEF new, old, len
<1>7. /\ Distance(r)' = 2 * StepsAhead(new) + (len + 1) + 2
      /\ 2 * StepsAhead(new) + (len + 1) < 2 * StepsAhead(old) + len
  BY <1>2, <1>4, <1>5, <1>6
<1>8. Distance(r)' < Distance(r) /\ Distance(r)' <= Distance(r)
  BY <1>2, <1>5, <1>6, <1>7
<1>9. Pays(r) => 2 * StepsAhead(old) + len <= 2 * LongestRun + 1
  BY <1>2 DEF Pays, old, len
<1>10. Pays(r) => 2 * StepsAhead(new) + (len + 1) <= 2 * LongestRun + 1
  BY <1>2, <1>5, <1>7, <1>9
<1>11. Pays(r)' <=> 2 * StepsAhead(new) + (len + 1) <= 2 * LongestRun + 1
  <2>1. Pays(r)' <=>
          2 * StepsAhead(run'[r].cp) + Len(run'[r].unstored) <= 2 * LongestRun + 1
    BY <1>2 DEF Pays, StepsAhead, RoundsLeft, LongestRun
  <2>2. QED
    BY <1>2, <2>1
<1>12. QED
  BY <1>8, <1>10, <1>11 DEF ComesCloser

\* A put takes one checkpoint off.
LEMMA PutComesCloser ==
  ASSUME ServiceInv, NEW r \in Requests, pc[r] = "running", run[r].unstored # <<>>,
         HasPut(r)
  PROVE  ComesCloser(r) /\ (Pays(r) => Pays(r)')
<1> DEFINE cp  == run[r].cp
           len == Len(run[r].unstored)
<1>1. /\ pc'[r] = "running" /\ run'[r].cp = cp /\ Len(run'[r].unstored) = len - 1
  BY DEF HasPut
<1>2. StepsAhead(cp) \in Nat /\ len \in Nat /\ LongestRun \in Nat
  BY DistanceIs
<1>3. /\ Distance(r) = 2 * StepsAhead(cp) + len + 2
      /\ Distance(r)' = 2 * StepsAhead(cp) + (len - 1) + 2
  BY <1>1, DistanceIs, DistanceOfRun
<1>4. Pays(r)' <=> 2 * StepsAhead(cp) + (len - 1) <= 2 * LongestRun + 1
  <2>1. Pays(r)' <=>
          2 * StepsAhead(run'[r].cp) + Len(run'[r].unstored) <= 2 * LongestRun + 1
    BY <1>1 DEF Pays, StepsAhead, RoundsLeft, LongestRun
  <2>2. QED
    BY <1>1, <2>1
<1>5. Pays(r) => 2 * StepsAhead(cp) + len <= 2 * LongestRun + 1
  BY DEF Pays
<1> HIDE DEF cp, len
<1>6. QED
  BY <1>2, <1>3, <1>4, <1>5 DEF ComesCloser

\* A run that starts is at most the longest run from its end.
LEMMA BeginComesCloser ==
  ASSUME ServiceInv, ServiceInv', NEW r \in Requests, NEW cp, Begins(r, cp)
  PROVE  ComesCloser(r) /\ Pays(r)'
<1>1. HasBegun(r, cp)
  BY BeginsFacts
<1>2. /\ pc[r] = "begin" /\ pc'[r] = "running"
      /\ run'[r].unstored \in {<<>>, <<cp>>}
  BY <1>1 DEF HasBegun
<1>3. Len(run'[r].unstored) \in 0..1
  BY <1>2
<1>4. run'[r].cp \in Checkpoint
  BY DEF ServiceInv, TypeOK, Run
<1>5. StepsAhead(run'[r].cp) \in 0..LongestRun /\ LongestRun \in Nat
  BY <1>4, AheadIsBounded, DistanceIs
<1>6. /\ Distance(r) = 2 * LongestRun + 4
      /\ Distance(r)' = 2 * StepsAhead(run'[r].cp) + Len(run'[r].unstored) + 2
  BY <1>2, DistanceIs, DistanceOfRun
<1>7. Pays(r)' <=>
        2 * StepsAhead(run'[r].cp) + Len(run'[r].unstored) <= 2 * LongestRun + 1
  BY <1>2 DEF Pays, StepsAhead, RoundsLeft, LongestRun
<1> DEFINE ahead == StepsAhead(run'[r].cp)
           len   == Len(run'[r].unstored)
<1> HIDE DEF ahead, len
<1>8. 2 * ahead + len <= 2 * LongestRun + 1
  <2>1. ahead \in 0..LongestRun /\ len \in 0..1 /\ LongestRun \in Nat
    BY <1>3, <1>5 DEF ahead, len
  <2>2. QED
    BY <2>1
<1>9. Distance(r)' < Distance(r) /\ Distance(r)' <= Distance(r)
  <2>1. ahead \in Nat /\ len \in Nat /\ LongestRun \in Nat
    BY <1>3, <1>5 DEF ahead, len
  <2>2. Distance(r)' = 2 * ahead + len + 2
    BY <1>6 DEF ahead, len
  <2>3. QED
    BY <1>6, <1>8, <2>1, <2>2
<1>10. QED
  BY <1>7, <1>8, <1>9 DEF ComesCloser, ahead, len

\* A request that comes, or goes on to another await.
LEMMA WaitComesCloser ==
  ASSUME ServiceInv, NEW r \in Requests, Arrive(r) \/ Waits(r)
  PROVE  ComesCloser(r) /\ pc'[r] # "running"
<1>1. DOMAIN pc = Requests
  BY DEF ServiceInv, TypeOK
<1>2. \/ pc[r] = "idle" /\ pc'[r] \in {"prompt", "begin"}
      \/ pc[r] = "prompt" /\ pc'[r] = "begin"
      \/ pc[r] = "running" /\ pc'[r] \in {"getState", "record"}
  BY <1>1 DEF Arrive, Waits
<1>3. /\ pc'[r] = "prompt" => Distance(r)' = 2 * LongestRun + 5
      /\ pc'[r] = "begin" => Distance(r)' = 2 * LongestRun + 4
      /\ pc'[r] \in {"getState", "record"} => Distance(r)' = 1
  BY DEF Distance
<1>4. /\ pc[r] = "idle" => Distance(r) = 2 * LongestRun + 6
      /\ pc[r] = "prompt" => Distance(r) = 2 * LongestRun + 5
      /\ pc[r] = "running" => Distance(r) \in Nat /\ Distance(r) > 1
      /\ LongestRun \in Nat
  BY DistanceIs
<1>5. Distance(r)' < Distance(r) /\ Distance(r)' <= Distance(r)
  BY <1>2, <1>3, <1>4
<1>6. QED
  BY <1>2, <1>5 DEF ComesCloser

\* Whatever a request does brings it closer and leaves the others where they are.
LEMMA ActComesCloser ==
  ASSUME ServiceInv, ServiceInv', NEW r \in Requests, Acts(r), NEW q \in Requests
  PROVE  ComesCloser(q) /\ (Pays(q) => Pays(q)')
<1>1. CASE q # r
  <2>1. pc'[q] = pc[q] /\ run'[q] = run[q] /\ reply'[q] = reply[q]
    BY <1>1, OthersStay
  <2>2. Pays(q) => Pays(q)'
    BY <2>1 DEF Pays, StepsAhead, RoundsLeft, LongestRun
  <2>3. QED
    BY <2>1, <2>2, OthersStayWhereTheyAre
<1>2. CASE Arrive(r) \/ Waits(r)
  <2>1. ComesCloser(r) /\ Pays(r)'
    BY <1>2, WaitComesCloser DEF Pays
  <2>2. QED
    BY <1>1, <2>1
<1>3. ASSUME NEW rep, Active(r), End(r, rep) PROVE ComesCloser(r) /\ Pays(r)'
  <2>1. pc'[r] = "done"
    BY <1>3, EndFacts
  <2>2. QED
    BY <1>3, <2>1, EndComesCloser DEF Pays
<1>4. ASSUME NEW rep, Leaves(r, rep) PROVE ComesCloser(r) /\ Pays(r)'
  BY <1>3, <1>4 DEF Leaves
<1>5. ASSUME NEW cp, Begins(r, cp) PROVE ComesCloser(r) /\ Pays(r)'
  BY <1>5, BeginComesCloser
<1>6. ASSUME NEW c, Runs(r, c) PROVE ComesCloser(r) /\ (Pays(r) => Pays(r)')
  BY <1>6, RunComesCloser
<1>7. CASE Puts(r)
  <2>1. pc[r] = "running" /\ run[r].unstored # <<>> /\ Active(r)
    BY <1>7 DEF Puts, Active
  <2>2. HasPut(r) \/ End(r, ErrorOf(r))
    BY <1>7, <2>1, TailFacts DEF Puts
  <2>3. ComesCloser(r) /\ (Pays(r) => Pays(r)')
    BY <1>3, <2>1, <2>2, PutComesCloser
  <2>4. QED
    BY <1>1, <2>3
<1>8. ASSUME NEW p, Shows(r, p) PROVE ComesCloser(r) /\ Pays(r)'
  BY <1>3, <1>8 DEF Shows, Active
<1>9. QED
  BY <1>1, <1>2, <1>4, <1>5, <1>6, <1>7, <1>8 DEF Acts

\* Who is not in progress has no run, and who is has paid for what it did.
AtRest == \A r \in Requests : (~Active(r) => run[r] = NullRun) /\ Pays(r)

\* A request gets a run when it begins and loses it when it ends.
LEMMA RestInvariant == Spec => []AtRest
<1>1. Init => AtRest
  BY DEF Init, AtRest, Pays
<1>2. ServiceInv /\ ServiceInv' /\ AtRest /\ [Next]_vars => AtRest'
  <2> SUFFICES ASSUME ServiceInv, ServiceInv', AtRest, [Next]_vars, NEW q \in Requests
               PROVE  (~Active(q)' => run'[q] = NullRun) /\ Pays(q)'
    BY DEF AtRest
  <2>1. CASE UNCHANGED vars
    BY <2>1 DEF vars, AtRest, Active, Pays, StepsAhead, RoundsLeft, LongestRun
  <2>2. CASE Crash
    <3>1. run'[q] = NullRun /\ pc'[q] # "running"
      BY <2>2 DEF Crash, Active
    <3>2. QED
      BY <3>1 DEF Pays
  <2>3. ASSUME NEW r \in Requests, Acts(r)
        PROVE  (~Active(q)' => run'[q] = NullRun) /\ Pays(q)'
    <3>1. Pays(q)'
      BY <2>3, ActComesCloser DEF AtRest
    <3>2. DOMAIN pc = Requests /\ DOMAIN run = Requests
      BY DEF ServiceInv, TypeOK
    <3>3. CASE q # r
      BY <2>3, <3>1, <3>3, OthersStay DEF AtRest, Active
    <3>4. CASE Arrive(r) \/ Waits(r)
      BY <3>1, <3>2, <3>3, <3>4 DEF Arrive, Waits, Active
    <3>5. ASSUME NEW rep, End(r, rep) PROVE run'[r] = NullRun
      BY <3>2, <3>5 DEF End
    <3>6. ASSUME NEW cp, Begins(r, cp) PROVE Active(r)'
      BY <3>6, BeginsFacts DEF HasBegun, Active
    <3>7. ASSUME NEW c, Runs(r, c) PROVE Active(r)'
      BY <3>7, RunsFacts DEF HasRun, Active
    <3>8. Puts(r) => Active(r)' \/ run'[r] = NullRun
      BY <3>5 DEF Puts, Active
    <3>9. QED
      BY <2>3, <3>1, <3>3, <3>4, <3>5, <3>6, <3>7, <3>8 DEF Acts, Leaves, Shows
  <2>4. QED
    BY <2>1, <2>2, <2>3, StepsAre
<1>3. QED
  BY <1>1, <1>2, ServiceInvariant, PTL DEF Spec

\* No request is ever more than 2 * LongestRun + 6 steps from its answer, and
\* LongestRun supersteps from the end of its run, whatever checkpoint it started from.
THEOREM RunsAreShort ==
  Spec => [](\A r \in Requests :
               /\ Distance(r) \in 0..(2 * LongestRun + 6)
               /\ StepsAhead(run[r].cp) \in 0..LongestRun
               /\ Active(r) => Distance(r) > 0)
<1>1. ServiceInv /\ AtRest => \A r \in Requests :
                                /\ Distance(r) \in 0..(2 * LongestRun + 6)
                                /\ StepsAhead(run[r].cp) \in 0..LongestRun
                                /\ Active(r) => Distance(r) > 0
  <2> SUFFICES ASSUME ServiceInv, AtRest, NEW r \in Requests
               PROVE  /\ Distance(r) \in 0..(2 * LongestRun + 6)
                      /\ StepsAhead(run[r].cp) \in 0..LongestRun
                      /\ Active(r) => Distance(r) > 0
    OBVIOUS
  <2>1. Distance(r) <= 2 * LongestRun + 6
    <3>1. CASE pc[r] = "running"
      <4>1. /\ LongestRun \in Nat /\ StepsAhead(run[r].cp) \in Nat
            /\ Len(run[r].unstored) \in Nat
            /\ Distance(r) = 2 * StepsAhead(run[r].cp) + Len(run[r].unstored) + 2
        BY <3>1, DistanceIs
      <4>2. 2 * StepsAhead(run[r].cp) + Len(run[r].unstored) <= 2 * LongestRun + 1
        BY <3>1 DEF AtRest, Pays
      <4>3. ASSUME NEW a \in Nat, NEW b \in Nat, NEW c \in Nat, 2 * a + b <= 2 * c + 1
            PROVE  2 * a + b + 2 <= 2 * c + 6
        BY <4>3
      <4>4. QED
        BY <4>1, <4>2, <4>3
    <3>2. CASE pc[r] # "running"
      <4>1. pc[r] \in {"idle", "prompt", "begin", "getState", "record", "done"}
        BY <3>2 DEF ServiceInv, TypeOK, Awaits
      <4>2. QED
        BY <4>1, DistanceIs
    <3>3. QED
      BY <3>1, <3>2
  <2>2. QED
    BY <2>1, DistanceIs
<1>2. QED
  BY <1>1, ServiceInvariant, RestInvariant, PTL

\* Every step a request takes brings it nearer to its answer, and no other step
\* takes it further away, however requests interleave, fail and crash: together
\* with RunsAreShort, a request is answered after at most 2 * LongestRun + 6 steps
\* of its own, 2 * MaxRetries + 4 of them supersteps, however far its puts lag.
THEOREM StepsAreCounted == Spec => EveryStepCounts
<1> DEFINE Closer == \A r \in Requests :
                       /\ Distance(r)' <= Distance(r)
                       /\ <<pc[r], run[r], reply[r]>>' # <<pc[r], run[r], reply[r]>> =>
                            Distance(r)' < Distance(r)
<1>1. ServiceInv /\ ServiceInv' /\ AtRest /\ [Next]_vars => [Closer]_vars
  <2> SUFFICES ASSUME ServiceInv, ServiceInv', AtRest, [Next]_vars, ~UNCHANGED vars,
                      NEW q \in Requests
               PROVE  ComesCloser(q)
    BY DEF ComesCloser
  <2>1. CASE Crash
    <3>1. CASE Active(q)
      <4>1. pc'[q] = "done"
        BY <2>1, <3>1 DEF Crash
      <4>2. QED
        BY <3>1, <4>1, EndComesCloser
    <3>2. CASE ~Active(q)
      <4>1. pc'[q] = pc[q] /\ reply'[q] = reply[q] /\ run'[q] = run[q]
        BY <2>1, <3>2 DEF Crash, AtRest
      <4>2. QED
        BY <4>1, OthersStayWhereTheyAre
    <3>3. QED
      BY <3>1, <3>2
  <2>2. ASSUME NEW r \in Requests, Acts(r) PROVE ComesCloser(q)
    BY <2>2, ActComesCloser
  <2>3. QED
    BY <2>1, <2>2, StepsAre
<1>2. QED
  BY <1>1, ServiceInvariant, RestInvariant, PTL DEF Spec, EveryStepCounts

-----------------------------------------------------------------------------
(* One request after the other.                                             *)

\* Nobody has begun.
LEMMA InitOrders == Init => OrderInv
<1> SUFFICES ASSUME Init PROVE OrderInv
  OBVIOUS
<1>1. EmptyThread.next = END /\ EmptyThread.chan.question \notin Requests
  BY EmptyThreadInv, ChannelAssumption DEF EmptyThread
<1>2. \A t \in Threads : thread[t] = EmptyThread
  BY DEF Init
<1>3. \A r \in Requests : pc[r] = "idle" /\ asked[r] = {}
  BY DEF Init
<1>4. Asked = {}
  BY <1>3 DEF Asked
<1>5. \A t \in Threads : Ordered(thread[t], Asked)
  BY <1>1, <1>2 DEF Ordered, END
<1>6. QED
  BY <1>1, <1>2, <1>3, <1>4, <1>5 DEF OrderInv, NoTrace, Unasked, Active, Loaded

\* A request comes only when no other is in progress on its thread.
LEMMA ActsAlone ==
  ASSUME ServiceInv, OrderInv, Serial, NEW r \in Requests, Acts(r)
  PROVE  Alone(r)
<1>1. CASE Active(r)
  BY <1>1 DEF OrderInv
<1>2. CASE Arrive(r)
  <2> DEFINE there == {q \in Requests : Active(q) /\ on[q] = on[r]}
  <2>1. IsFiniteSet(there)
    BY FS_Subset DEF Serial
  <2>2. Cardinality(there) \in Nat /\ Cardinality(there) < 1
    BY <1>2, <2>1, FS_CardinalityType DEF Arrive, Serial
  <2>3. Cardinality(there) = 0
    BY <2>2
  <2>4. there = {}
    BY <2>1, <2>3, FS_EmptySet
  <2>5. QED
    BY <2>4 DEF Alone
<1>3. QED
  BY <1>1, <1>2 DEF Acts, Waits, Leaves, Begins, Runs, Puts, Shows, Active

\* A request stores nothing, and keeps its run or has none.
Quiet(r) ==
  /\ UNCHANGED <<thread, asked, ran>>
  /\ pc'[r] \in Loaded => pc[r] \in Loaded /\ run'[r] = run[r]
  /\ pc'[r] \in NotBegun => pc[r] \in NotBegun

\* The requests that are quiet.
LEMMA QuietSteps ==
  ASSUME ServiceInv, NEW r \in Requests, Acts(r),
         \A cp : ~Begins(r, cp), \A c : ~Runs(r, c), ~Puts(r)
  PROVE  Quiet(r)
<1>1. DOMAIN pc = Requests
  BY DEF ServiceInv, TypeOK
<1>2. CASE Arrive(r)
  BY <1>1, <1>2 DEF Arrive, Quiet, Loaded, NotBegun
<1>3. CASE Waits(r)
  BY <1>1, <1>3 DEF Waits, Quiet, Loaded, NotBegun
<1>4. ASSUME NEW rep, End(r, rep), UNCHANGED <<thread, asked, ran>> PROVE Quiet(r)
  <2>1. pc'[r] = "done"
    BY <1>4, EndFacts
  <2>2. QED
    BY <1>4, <2>1 DEF Quiet, Loaded, NotBegun
<1>5. QED
  BY <1>2, <1>3, <1>4 DEF Acts, Leaves, Shows

\* The turns a request knows of: its own, that of its thread and that of its run.
Own(r) ==
  {r, thread[on[r]].chan.question}
    \cup (IF pc[r] \in Loaded THEN {run[r].cp.chan.question} ELSE {})

\* What a step of r leaves on its thread.
Local(r) ==
  LET old == thread[on[r]]
      new == thread'[on[r]]
  IN /\ new.chan.question \in Own(r)
     /\ pc'[r] \in Loaded => run'[r].cp.chan.question \in Own(r)
     /\ Asked \subseteq Asked'
     /\ \A x \in Asked' : \/ x \in Asked
                          \/ x.turn \in Own(r) \cap Requests /\ on[x.turn] = on[r]
     /\ new.next = "tools_executor" =>
          \/ /\ old.next = "tools_executor"
             /\ new.chan.question = old.chan.question
             /\ new.chan.messages = old.chan.messages
          \/ Unasked(new.chan.question, Asked)
     /\ pc'[r] \in NotBegun => pc[r] \in NotBegun /\ UNCHANGED <<thread, asked>>
     /\ Ordered(new, Asked')
     /\ pc'[r] \in Loaded => Lined(r)'

\* Asked changes only with asked.
LEMMA AskedStays ==
  ASSUME UNCHANGED asked
  PROVE  Asked' = Asked
BY DEF Asked

\* A quiet request.
LEMMA QuietIsLocal ==
  ASSUME ServiceInv, OrderInv, NEW r \in Requests, Quiet(r), UNCHANGED on
  PROVE  Local(r)
<1>1. /\ on[r] \in Threads /\ Asked' = Asked
      /\ UNCHANGED <<thread, asked>>
  BY AskedStays DEF ServiceInv, TypeOK, Quiet
<1>2. Ordered(thread'[on[r]], Asked')
  BY <1>1 DEF OrderInv
<1>3. pc'[r] \in Loaded => pc[r] \in Loaded /\ run'[r] = run[r] /\ Lined(r)
  BY DEF OrderInv, Quiet
<1>4. ASSUME pc'[r] \in Loaded PROVE Lined(r)'
  <2>1. run'[r] = run[r] /\ Lined(r) /\ Asked' = Asked /\ thread'[on'[r]] = thread[on[r]]
    BY <1>1, <1>3, <1>4
  <2>2. \A i : Behind(r, i)' = Behind(r, i)
    BY <2>1 DEF Behind
  <2>3. \A cp : Ordered(cp, Asked') <=> Ordered(cp, Asked)
    BY <2>1
  <2>4. QED
    BY <2>1, <2>2, <2>3 DEF Lined
<1>5. QED
  BY <1>1, <1>2, <1>3, <1>4 DEF Local, Own, Quiet

\* A new turn begins without a trace, a resumed one goes on as it was.
LEMMA BeginIsLocal ==
  ASSUME ServiceInv, OrderInv, NEW r \in Requests, NEW cp, Begins(r, cp)
  PROVE  Local(r)
<1> DEFINE old == thread[on[r]]
<1>1. HasBegun(r, cp)
  BY BeginsFacts
<1>2. /\ on[r] \in Threads /\ Asked' = Asked /\ pc'[r] = "running" /\ pc[r] = "begin"
      /\ run'[r].cp = cp /\ ~run'[r].stepped /\ UNCHANGED <<on, asked>>
  BY <1>1, AskedStays DEF HasBegun
<1>3. NoTrace(r) /\ Ordered(old, Asked)
  BY <1>2 DEF OrderInv, NotBegun
<1>4. CASE kind[r] \in ChatKinds
  <2>1. /\ cp.chan.question = r /\ cp.next = "planner" /\ thread' = thread
        /\ run'[r].unstored = <<cp>>
    BY <1>1, <1>4 DEF HasBegun
  <2>2. Ordered(cp, Asked)
    BY <1>3, <2>1 DEF Ordered, NoTrace
  <2>3. Len(run'[r].unstored) = 1 /\ run'[r].unstored[1] = cp
    BY <2>1
  <2>4. Lined(r)'
    BY <1>2, <2>1, <2>2, <2>3 DEF Lined
  <2>5. QED
    BY <1>2, <1>3, <2>1, <2>4 DEF Local, Own, NotBegun, Loaded
<1>5. CASE kind[r] \notin ChatKinds
  <2>1. /\ cp.chan.question = old.chan.question /\ cp.next = old.next
        /\ cp.chan.messages = old.chan.messages
        /\ run'[r].unstored = <<>> /\ thread'[on[r]] = cp
    BY <1>1, <1>5 DEF HasBegun
  <2>2. Ordered(cp, Asked')
    BY <1>2, <1>3, <2>1 DEF Ordered, LastMessage
  <2>3. Lined(r)'
    BY <1>2, <2>1 DEF Lined
  <2>4. QED
    BY <1>2, <2>1, <2>2, <2>3 DEF Local, Own, NotBegun, Loaded
<1>6. QED
  BY <1>4, <1>5

\* The copy of a run is in order.
LEMMA CopyIsOrdered ==
  ASSUME ServiceInv, OrderInv, NEW r \in Requests, pc[r] \in Loaded
  PROVE  Ordered(run[r].cp, Asked)
<1>1. /\ on[r] \in Threads /\ Len(run[r].unstored) \in Nat
      /\ Lined(r) /\ \A t \in Threads : Ordered(thread[t], Asked)
  BY DEF ServiceInv, TypeOK, Run, OrderInv
<1>2. CASE Len(run[r].unstored) = 0
  BY <1>1, <1>2 DEF Lined
<1>3. CASE Len(run[r].unstored) # 0
  <2>1. Len(run[r].unstored) \in 1..Len(run[r].unstored)
    BY <1>1, <1>3
  <2>2. QED
    BY <1>1, <1>3, <2>1 DEF Lined
<1>4. QED
  BY <1>2, <1>3

\* A node asks for calls in a turn that had asked for none.
LEMMA RunIsLocal ==
  ASSUME ServiceInv, OrderInv, NEW r \in Requests, NEW c, Runs(r, c)
  PROVE  Local(r)
<1> DEFINE old == run[r].cp
           n   == old.next
           new == run'[r].cp
           len == Len(run[r].unstored)
<1>1. HasRun(r, c)
  BY RunsFacts
<1>2. /\ pc[r] = "running" /\ n \in Nodes /\ ~(n = "tools_executor" /\ run[r].stepped)
      /\ new.next = Successor(n, c) /\ new.chan.question = old.chan.question
      /\ run'[r].stepped /\ len \in Nat /\ Len(run'[r].unstored) = len + 1
      /\ run'[r].unstored[len + 1] = new
      /\ UNCHANGED <<thread, on, pc, asked>>
      /\ n = "tools_caller" => LastMessage(new.chan).calls \in ToolCalls
  BY <1>1 DEF HasRun
<1>3. \A i \in 1..len : run'[r].unstored[i] = run[r].unstored[i]
  BY <1>1 DEF HasRun
<1>4. /\ on[r] \in Threads /\ Asked' = Asked /\ pc[r] \in Loaded /\ Lined(r)
      /\ Ordered(thread[on[r]], Asked) /\ Ordered(old, Asked)
  BY <1>2, AskedStays, CopyIsOrdered DEF ServiceInv, TypeOK, OrderInv, Loaded
<1>5. /\ new.next # "planner" /\ (new.next = "tools_caller" => n = "planner")
      /\ new.next = "tools_executor" <=> n = "tools_caller"
  BY <1>2, EdgesToTools
<1>6. Ordered(new, Asked)
  BY <1>2, <1>4, <1>5 DEF Ordered, Nodes, END
<1>7. new.next = "tools_executor" => Unasked(new.chan.question, Asked)
  BY <1>2, <1>4, <1>5 DEF Ordered
<1>8. old = IF len = 0 THEN thread[on[r]] ELSE run[r].unstored[len]
  BY <1>4 DEF Lined
<1>9. ASSUME NEW i \in 1..len
      PROVE  /\ Ordered(run[r].unstored[i], Asked)
             /\ run[r].unstored[i].chan.question = old.chan.question
             /\ run[r].unstored[i].next # "tools_executor"
  <2>1. /\ Ordered(run[r].unstored[i], Asked)
        /\ run[r].unstored[i].chan.question = old.chan.question
        /\ run[r].unstored[i].next = "tools_executor" => i = len
        /\ ~run[r].stepped /\ n = "tools_executor" => len = 0
    BY <1>4 DEF Lined
  <2>2. len # 0
    BY <1>2
  <2>3. QED
    BY <1>2, <1>8, <2>1, <2>2
<1>10. ASSUME NEW k, k = len + 1 PROVE Behind(r, k)' = old
  <2>1. ASSUME len = 0 PROVE k = 1 /\ old = thread[on[r]]
    BY <1>8, <1>10, <2>1
  <2>2. ASSUME len # 0 PROVE k # 1 /\ k - 1 = len /\ len \in 1..len
    <3> HIDE DEF len
    <3>1. QED
      BY <1>2, <1>10, <2>2
  <2>3. CASE len = 0
    BY <1>2, <2>1, <2>3 DEF Behind
  <2>4. CASE len # 0
    <3>1. Behind(r, k)' = run'[r].unstored[len]
      BY <2>2, <2>4 DEF Behind
    <3>2. QED
      BY <1>3, <1>8, <2>2, <2>4, <3>1
  <2>5. QED
    BY <2>3, <2>4
<1> HIDE DEF old, n, new, len
<1>11. ASSUME NEW i \in 1..(len + 1)
       PROVE  /\ Ordered(run'[r].unstored[i], Asked')
              /\ run'[r].unstored[i].chan.question = new.chan.question
              /\ run'[r].unstored[i].next = "tools_executor" =>
                   /\ i = len + 1 /\ Behind(r, i)'.next = "tools_caller"
                   /\ Unasked(run'[r].unstored[i].chan.question, Asked')
  <2>1. CASE i \in 1..len
    BY <1>2, <1>3, <1>4, <1>9, <2>1
  <2>2. CASE i = len + 1
    <3>1. Behind(r, i)' = old
      BY <1>10, <2>2
    <3>2. run'[r].unstored[i] = new
      BY <1>2, <2>2
    <3>3. QED
      BY <1>4, <1>5, <1>6, <1>7, <2>2, <3>1, <3>2 DEF n
  <2>3. QED
    BY <1>2, <2>1, <2>2
<1>12. len + 1 # 0
  BY <1>2
<1>13. Lined(r)'
  BY <1>2, <1>11, <1>12 DEF Lined, Behind, new
<1>14. QED
  BY <1>2, <1>4, <1>13 DEF Local, Own, Loaded, NotBegun, old, new

\* The oldest checkpoint that a run has not put.
LEMMA HeadIsOrdered ==
  ASSUME ServiceInv, OrderInv, NEW r \in Requests, pc[r] = "running", HasStored(r)
  PROVE  LET cp == thread'[on[r]]
         IN /\ Ordered(cp, Asked) /\ cp = run[r].unstored[1]
            /\ cp.chan.question = run[r].cp.chan.question
            /\ cp.next = "tools_executor" =>
                 /\ Len(run[r].unstored) = 1
                 /\ thread[on[r]].next = "tools_caller"
                 /\ Unasked(cp.chan.question, Asked) /\ cp.chan.question \in Requests
<1>1. /\ thread'[on[r]] = run[r].unstored[1] /\ 1 \in 1..Len(run[r].unstored)
      /\ Lined(r)
  BY DEF HasStored, OrderInv, Loaded
<1> DEFINE cp == run[r].unstored[1]
<1>2. /\ Ordered(cp, Asked) /\ cp.chan.question = run[r].cp.chan.question
      /\ cp.next = "tools_executor" =>
           /\ 1 = Len(run[r].unstored) /\ Behind(r, 1).next = "tools_caller"
           /\ Unasked(cp.chan.question, Asked)
  BY <1>1 DEF Lined
<1>3. Behind(r, 1) = thread[on[r]]
  BY DEF Behind
<1>4. cp.next = "tools_executor" => cp.chan.question \in Requests
  <2>1. "tools_executor" # END
    BY DEF END
  <2>2. QED
    BY <1>2, <2>1 DEF Ordered
<1> HIDE DEF cp
<1>5. thread'[on[r]] = cp
  BY <1>1 DEF cp
<1>6. QED
  BY <1>2, <1>3, <1>4, <1>5 DEF cp

\* What a put asks for.
LEMMA PutAsks ==
  ASSUME ServiceInv, OrderInv, NEW r \in Requests, pc[r] = "running", HasStored(r)
  PROVE  LET cp == thread'[on[r]]
         IN /\ Asked \subseteq Asked'
            /\ \A x \in Asked' : \/ x \in Asked
                                 \/ /\ cp.next = "tools_executor"
                                    /\ x.turn = cp.chan.question
                                    /\ x.turn \in Own(r) \cap Requests
                                    /\ on[x.turn] = on[r]
            /\ cp.next # "tools_executor" => Asked' = Asked /\ asked'[r] = asked[r]
<1> DEFINE cp == thread'[on[r]]
<1>1. /\ cp.chan.question = run[r].cp.chan.question
      /\ cp.next = "tools_executor" => cp.chan.question \in Requests
  BY HeadIsOrdered
<1>2. /\ cp = Head(run[r].unstored)
      /\ \A q \in Requests \ {r} : asked'[q] = asked[q]
      /\ cp.next # "tools_executor" => asked'[r] = asked[r]
      /\ cp.next = "tools_executor" =>
          /\ asked'[r] = asked[r] \cup Calls(cp.chan)
          /\ \A x \in Calls(cp.chan) : x.turn = cp.chan.question
      /\ TurnAt(cp.chan.question, on[r])
  BY DEF HasStored
<1> HIDE DEF cp
<1>3. cp.chan.question \in Own(r)
  BY <1>1 DEF Own, Loaded
<1>4. \A q \in Requests : asked[q] \subseteq asked'[q]
  BY <1>2
<1>5. \A q \in Requests : \A x \in asked'[q] :
        \/ x \in asked[q]
        \/ /\ cp.next = "tools_executor" /\ x.turn = cp.chan.question
           /\ x.turn \in Own(r) \cap Requests /\ on[x.turn] = on[r]
  BY <1>1, <1>2, <1>3 DEF TurnAt
<1>6. cp.next # "tools_executor" => \A q \in Requests : asked'[q] = asked[q]
  BY <1>2
<1>7. QED
  BY <1>2, <1>4, <1>5, <1>6 DEF Asked, cp

\* The line moves up by one.
LEMMA PutStaysLined ==
  ASSUME ServiceInv, OrderInv, NEW r \in Requests, pc[r] = "running", HasStored(r),
         HasPut(r), UNCHANGED on
  PROVE  Lined(r)'
<1> DEFINE loc == run[r]
           new == run'[r]
           n   == Len(loc.unstored)
<1>1. /\ new.cp = loc.cp /\ new.stepped = loc.stepped /\ Len(new.unstored) = n - 1
      /\ n \in Nat \ {0} /\ thread'[on[r]] = loc.unstored[1]
  BY DEF HasPut, HasStored
<1>2. \A i \in 1..n - 1 : new.unstored[i] = loc.unstored[i + 1]
  BY DEF HasPut
<1>3. /\ loc.cp = loc.unstored[n]
      /\ ~(~loc.stepped /\ loc.cp.next = "tools_executor")
  BY <1>1 DEF OrderInv, Loaded, Lined
<1>4. \A i \in 1..n :
        /\ Ordered(loc.unstored[i], Asked)
        /\ loc.unstored[i].chan.question = loc.cp.chan.question
        /\ loc.unstored[i].next = "tools_executor" =>
             /\ i = n /\ Behind(r, i).next = "tools_caller"
             /\ Unasked(loc.unstored[i].chan.question, Asked)
  BY DEF OrderInv, Loaded, Lined
<1>5. n # 1 => Asked' = Asked
  <2>1. thread'[on[r]].next = "tools_executor" => n = 1
    BY HeadIsOrdered
  <2>2. QED
    BY <2>1, PutAsks
<1> HIDE DEF n
<1>6. new.cp = IF n - 1 = 0 THEN thread'[on[r]] ELSE new.unstored[n - 1]
  <2>1. CASE n = 1
    BY <1>1, <1>3, <2>1
  <2>2. CASE n # 1
    <3>1. n - 1 \in 1..n - 1 /\ (n - 1) + 1 = n /\ n - 1 # 0
      <4>1. n \in Nat \ {0}
        BY <1>1
      <4>2. QED
        BY <2>2, <4>1
    <3>2. QED
      BY <1>1, <1>2, <1>3, <3>1
  <2>3. QED
    BY <2>1, <2>2
<1>7. ASSUME NEW i \in 1..n - 1
      PROVE  /\ Asked' = Asked /\ i + 1 \in 1..n
             /\ new.unstored[i] = loc.unstored[i + 1]
             /\ Behind(r, i)' = Behind(r, i + 1)
             /\ i + 1 = n => i = n - 1
  <2>1. /\ n # 1 /\ i + 1 \in 1..n /\ i + 1 # 1 /\ (i + 1) - 1 = i
        /\ i + 1 = n => i = n - 1
    <3>1. n \in Nat \ {0}
      BY <1>1
    <3>2. QED
      BY <3>1
  <2>2. Behind(r, i + 1) = loc.unstored[i]
    BY <2>1 DEF Behind
  <2>3. CASE i = 1
    BY <1>1, <1>2, <1>5, <2>1, <2>2, <2>3 DEF Behind
  <2>4. CASE i # 1
    <3>1. i - 1 \in 1..n - 1 /\ (i - 1) + 1 = i
      BY <1>1, <2>4
    <3>2. Behind(r, i)' = new.unstored[i - 1]
      BY <2>4 DEF Behind
    <3>3. QED
      BY <1>2, <1>5, <2>1, <2>2, <3>1, <3>2
  <2>5. QED
    BY <2>3, <2>4
<1> HIDE DEF loc, new
<1>8. ASSUME NEW i \in 1..n - 1
      PROVE  /\ Ordered(new.unstored[i], Asked')
             /\ new.unstored[i].chan.question = new.cp.chan.question
             /\ new.unstored[i].next = "tools_executor" =>
                  /\ i = n - 1 /\ Behind(r, i)'.next = "tools_caller"
                  /\ Unasked(new.unstored[i].chan.question, Asked')
  BY <1>1, <1>4, <1>7
<1>9. ~(~new.stepped /\ new.cp.next = "tools_executor")
  BY <1>1, <1>3
<1>10. QED
  BY <1>1, <1>6, <1>8, <1>9 DEF Lined, Behind, new

\* A put that ends, or throws after it took effect.
LEMMA PutIsLocal ==
  ASSUME ServiceInv, OrderInv, NEW r \in Requests, Puts(r)
  PROVE  Local(r)
<1> DEFINE cp == thread'[on[r]]
<1>1. /\ HasStored(r) /\ pc[r] = "running" /\ UNCHANGED on
      /\ HasPut(r) \/ End(r, ErrorOf(r))
  BY StoreFacts, TailFacts DEF Puts
<1>2. HasPut(r) \/ pc'[r] = "done"
  BY <1>1, EndFacts
<1>3. HasPut(r) => pc'[r] = "running" /\ run'[r].cp = run[r].cp /\ Lined(r)'
  BY <1>1, PutStaysLined DEF HasPut
<1>4. /\ Ordered(cp, Asked) /\ cp.chan.question = run[r].cp.chan.question
      /\ cp.next = "tools_executor" => Unasked(cp.chan.question, Asked)
  BY <1>1, HeadIsOrdered
<1>5. /\ Asked \subseteq Asked'
      /\ \A x \in Asked' : \/ x \in Asked
                           \/ x.turn \in Own(r) \cap Requests /\ on[x.turn] = on[r]
      /\ cp.next # "tools_executor" => Asked' = Asked
  BY <1>1, PutAsks
<1> HIDE DEF cp
<1>6. Ordered(cp, Asked')
  BY <1>4, <1>5 DEF Ordered, END
<1>7. run[r].cp.chan.question \in Own(r)
  BY <1>1 DEF Own, Loaded
<1>8. pc'[r] \notin NotBegun
  BY <1>2, <1>3 DEF NotBegun
<1>9. pc'[r] \in Loaded => Lined(r)' /\ run'[r].cp = run[r].cp
  BY <1>2, <1>3 DEF Loaded
<1>10. QED
  BY <1>4, <1>5, <1>6, <1>7, <1>8, <1>9 DEF Local, cp

\* Whatever a request does.
LEMMA ActIsLocal ==
  ASSUME ServiceInv, OrderInv, NEW r \in Requests, Acts(r)
  PROVE  Local(r)
BY QuietSteps, QuietIsLocal, BeginIsLocal, RunIsLocal, PutIsLocal, OthersStay

\* The line of a request on another thread stays.
LEMMA LinedElsewhere ==
  ASSUME ServiceInv, OrderInv, NEW r \in Requests, Acts(r), Local(r), Alone(r),
         NEW q \in Requests \ {r}, pc[q] \in Loaded
  PROVE  Lined(q)'
<1>1. /\ run'[q] = run[q] /\ UNCHANGED on /\ on[q] \in Threads \ {on[r]}
      /\ thread'[on[q]] = thread[on[q]]
  BY OthersStay DEF Alone, Active, Loaded, ServiceInv, TypeOK
<1>2. Lined(q) /\ GoodRun(run[q], on[q]) /\ run[q].unstored \in Seq(Checkpoint)
  BY DEF OrderInv, ServiceInv, RunInv, TypeOK, Run
<1>3. ASSUME NEW i \in 1..Len(run[q].unstored)
      PROVE  LET cp == run[q].unstored[i]
             IN /\ Ordered(cp, Asked) => Ordered(cp, Asked')
                /\ Unasked(cp.chan.question, Asked) =>
                     Unasked(cp.chan.question, Asked')
  <2> DEFINE cp == run[q].unstored[i]
  <2>1. cp \in Copies(run[q])
    BY <1>2 DEF Copies
  <2>2. TurnAt(cp.chan.question, on[q])
    BY <1>2, <2>1 DEF GoodRun
  <2>3. \A x \in Asked' : x \in Asked \/ x.turn # cp.chan.question
    BY <1>1, <2>2 DEF Local, TurnAt
  <2> HIDE DEF cp
  <2>4. QED
    BY <2>3 DEF Ordered, Unasked, cp
<1>4. \A i : Behind(q, i)' = Behind(q, i)
  BY <1>1 DEF Behind
<1>5. QED
  BY <1>1, <1>2, <1>3, <1>4 DEF Lined


\* Every other turn is as far as it was.
LEMMA TracesElsewhere ==
  ASSUME ServiceInv, OrderInv, NEW r \in Requests, Acts(r), Local(r),
         NEW q \in Requests, pc'[q] \in NotBegun
  PROVE  NoTrace(q)'
<1>1. /\ UNCHANGED on /\ on[r] \in Threads
      /\ \A p \in Requests \ {r} : pc'[p] = pc[p] /\ run'[p] = run[p]
      /\ \A t \in Threads \ {on[r]} : thread'[t] = thread[t]
  BY OthersStay DEF ServiceInv, TypeOK
<1>2. CASE q = r
  <2>1. pc[r] \in NotBegun /\ UNCHANGED <<thread, asked>> /\ Asked' = Asked
    BY <1>2, AskedStays DEF Local
  <2>2. NoTrace(r) /\ pc'[r] \notin Loaded
    BY <1>2, <2>1 DEF OrderInv, NotBegun, Loaded
  <2>3. QED
    BY <1>1, <1>2, <2>1, <2>2 DEF NoTrace, Unasked
<1>3. CASE q # r
  <2>1. NoTrace(q)
    BY <1>1, <1>3 DEF OrderInv
  <2>2. q \notin Own(r)
    BY <1>1, <1>3, <2>1 DEF NoTrace, Own
  <2>3. /\ thread'[on[r]].chan.question # q
        /\ pc'[r] \in Loaded => run'[r].cp.chan.question # q
        /\ Unasked(q, Asked')
    BY <2>1, <2>2 DEF Local, NoTrace, Unasked
  <2>4. QED
    BY <1>1, <2>1, <2>3 DEF NoTrace
<1>4. QED
  BY <1>2, <1>3

\* A step of one request keeps the order of all.
LEMMA ActOrders ==
  ASSUME ServiceInv, OrderInv, Serial, NEW r \in Requests, Acts(r)
  PROVE  OrderInv'
<1>1. Alone(r) /\ Local(r)
  BY ActsAlone, ActIsLocal
<1>2. /\ UNCHANGED on /\ on[r] \in Threads
      /\ \A p \in Requests \ {r} : pc'[p] = pc[p]
      /\ \A t \in Threads \ {on[r]} : thread'[t] = thread[t]
  BY OthersStay DEF ServiceInv, TypeOK
<1>3. ASSUME NEW t \in Threads PROVE Ordered(thread[t], Asked)'
  <2>1. CASE t = on[r]
    BY <1>1, <1>2, <2>1 DEF Local
  <2>2. CASE t # on[r]
    <3>1. /\ thread'[t] = thread[t] /\ Ordered(thread[t], Asked)
          /\ TurnAt(thread[t].chan.question, t)
      BY <1>2, <2>2 DEF OrderInv, ServiceInv, StoredInv
    <3>2. \A x \in Asked' : x \in Asked \/ x.turn # thread[t].chan.question
      BY <1>1, <2>2, <3>1 DEF Local, TurnAt
    <3>3. QED
      BY <3>1, <3>2 DEF Ordered, Unasked
  <2>3. QED
    BY <2>1, <2>2
<1>4. ASSUME NEW q \in Requests, Active(q)' PROVE Alone(q)'
  <2>1. CASE q = r
    BY <1>1, <1>2, <2>1 DEF Alone, Active
  <2>2. CASE q # r
    <3>1. Active(q) /\ Alone(q) /\ on[q] # on[r]
      BY <1>1, <1>2, <1>4, <2>2 DEF Active, Alone, OrderInv
    <3>2. QED
      BY <1>2, <3>1 DEF Alone, Active
  <2>3. QED
    BY <2>1, <2>2
<1>5. ASSUME NEW q \in Requests, pc'[q] \in Loaded PROVE Lined(q)'
  <2>1. CASE q = r
    BY <1>1, <1>5, <2>1 DEF Local
  <2>2. CASE q # r
    BY <1>1, <1>2, <1>5, <2>2, LinedElsewhere
  <2>3. QED
    BY <2>1, <2>2
<1>6. ASSUME NEW q \in Requests, pc'[q] \in NotBegun PROVE NoTrace(q)'
  BY <1>1, <1>6, TracesElsewhere
<1>7. QED
  BY <1>3, <1>4, <1>5, <1>6 DEF OrderInv

\* A crash ends everybody's run.
LEMMA CrashOrders ==
  ASSUME OrderInv, Crash
  PROVE  OrderInv'
<1>1. /\ UNCHANGED <<thread, asked>> /\ Asked' = Asked
      /\ \A r \in Requests : /\ pc'[r] \in {"idle", "done"}
                             /\ pc'[r] = "idle" => pc[r] = "idle"
  BY AskedStays DEF Crash, Active
<1>2. \A t \in Threads : Ordered(thread[t], Asked)'
  BY <1>1 DEF OrderInv, Ordered
<1>3. \A r \in Requests : ~Active(r)' /\ pc'[r] \notin Loaded
  BY <1>1 DEF Active, Loaded
<1>4. ASSUME NEW r \in Requests, pc'[r] \in NotBegun PROVE NoTrace(r)'
  <2>1. NoTrace(r)
    BY <1>1, <1>4 DEF OrderInv, NotBegun
  <2>2. QED
    BY <1>1, <1>3, <2>1 DEF NoTrace, Unasked
<1>5. QED
  BY <1>2, <1>3, <1>4 DEF OrderInv

\* Every step keeps the requests of a thread one after the other.
LEMMA NextOrders == Serial /\ ServiceInv /\ OrderInv /\ [Next]_vars => OrderInv'
<1> SUFFICES ASSUME Serial, ServiceInv, OrderInv, [Next]_vars
             PROVE  OrderInv'
  OBVIOUS
<1>1. CASE UNCHANGED vars
  BY <1>1, AskedStays
     DEF vars, OrderInv, Ordered, Unasked, Active, Alone, Lined, Behind, NoTrace
<1>2. QED
  BY <1>1, StepsAre, ActOrders, CrashOrders

\* The requests of a thread always come one after the other.
LEMMA OrderInvariant ==
  ASSUME Serial
  PROVE  Spec => []OrderInv
<1>1. Init => OrderInv
  BY InitOrders
<1>2. ServiceInv /\ OrderInv /\ [Next]_vars => OrderInv'
  BY NextOrders
<1>3. QED
  BY <1>1, <1>2, ServiceInvariant, PTL DEF Spec

-----------------------------------------------------------------------------
(* Who asked for a call, who ran it and who was told of it.                 *)

\* A turn that a thread waits with is one of that thread.
LEMMA WaitsHere ==
  ASSUME ServiceInv, OrderInv, NEW t \in Threads, NEW turn, WaitsAt(t, turn)
  PROVE  turn \in Requests /\ on[turn] = t
BY DEF ServiceInv, StoredInv, TurnAt, OrderInv, Ordered, WaitsAt, END

\* A turn waits with its calls since it asked for them.
LEMMA WaitedBefore ==
  ASSUME ServiceInv, OrderInv, NEW r \in Requests, Acts(r), Local(r),
         NEW t \in Threads, NEW turn, WaitsAt(t, turn)', ~Unasked(turn, Asked)
  PROVE  /\ WaitsAt(t, turn)
         /\ thread'[t].chan.messages = thread[t].chan.messages
<1>1. CASE t # on[r]
  <2>1. thread'[t] = thread[t]
    BY <1>1, OthersStay
  <2>2. QED
    BY <2>1 DEF WaitsAt
<1>2. CASE t = on[r]
  BY <1>2 DEF WaitsAt, Local
<1>3. QED
  BY <1>1, <1>2

\* The copy of a run that has not begun its first superstep, or waits for it before
\* the tools, is what its thread holds.
LEMMA BeforeTools ==
  ASSUME ServiceInv, OrderInv, NEW r \in Requests, pc[r] \in Loaded,
         run[r].cp.next = "tools_executor",
         ~run[r].stepped \/ run[r].unstored = <<>>
  PROVE  /\ run[r].unstored = <<>> /\ thread[on[r]] = run[r].cp /\ on[r] \in Threads
         /\ WaitsAt(on[r], run[r].cp.chan.question)
<1>1. Lined(r) /\ on[r] \in Threads /\ run[r].unstored \in Seq(Checkpoint)
  BY DEF OrderInv, ServiceInv, TypeOK, Run
<1>2. Len(run[r].unstored) = 0
  BY <1>1 DEF Lined
<1>3. run[r].unstored = <<>>
  BY <1>1, <1>2, EmptySeq
<1>4. thread[on[r]] = run[r].cp
  BY <1>1, <1>2 DEF Lined
<1>5. QED
  BY <1>1, <1>3, <1>4 DEF WaitsAt

\* A run that goes on, or has a checkpoint to put, has not asked for anything yet.
LEMMA NotAskedYet ==
  ASSUME ServiceInv, OrderInv, NEW r \in Requests, Begun(r), InProgress(r),
         pc[r] = "running", run[r].unstored # <<>> \/ ~Paused(r)
  PROVE  asked[r] = {}
<1>1. SUFFICES ASSUME NEW x \in asked[r] PROVE FALSE
  OBVIOUS
<1>2. run[r].unstored = <<>> /\ WaitsAt(on[r], x.turn) /\ run[r].stepped
  BY <1>1 DEF InProgress, Begun, Active
<1>3. Lined(r) /\ Len(run[r].unstored) = 0
  BY <1>2 DEF OrderInv, Loaded
<1>4. run[r].cp.next = "tools_executor"
  BY <1>2, <1>3 DEF Lined, WaitsAt
<1>5. QED
  BY <1>2, <1>4 DEF Paused, InterruptBefore

\* What a put asks for nobody has asked for or run, and it waits from now on.
LEMMA PutCalls ==
  ASSUME ServiceInv, OrderInv, NEW r \in Requests, pc[r] = "running", HasStored(r),
         UNCHANGED on, asked[r] = {}, NEW x \in asked'[r]
  PROVE  /\ thread'[on[r]].next = "tools_executor" /\ Len(run[r].unstored) = 1
         /\ run[r].stepped /\ x.turn = run[r].cp.chan.question
         /\ thread[on[r]].next = "tools_caller"
         /\ x.turn \in Requests /\ on[x.turn] = on[r]
         /\ WaitsAt(on[r], x.turn)' /\ Unasked(x.turn, Asked)
<1> DEFINE cp == thread'[on[r]]
<1>1. /\ cp.next = "tools_executor" /\ x \in Calls(cp.chan)
      /\ x.turn = cp.chan.question /\ TurnAt(cp.chan.question, on[r])
      /\ cp = Head(run[r].unstored) /\ cp = run[r].unstored[1]
  BY DEF HasStored
<1>2. /\ Len(run[r].unstored) = 1 /\ cp.chan.question = run[r].cp.chan.question
      /\ thread[on[r]].next = "tools_caller"
      /\ Unasked(cp.chan.question, Asked) /\ cp.chan.question \in Requests
  BY <1>1, HeadIsOrdered
<1>3. Lined(r)
  BY DEF OrderInv, Loaded
<1>4. run[r].stepped
  BY <1>1, <1>2, <1>3 DEF Lined
<1>5. QED
  BY <1>1, <1>2, <1>4 DEF TurnAt, WaitsAt

\* Of another request than the one that acts.
LEMMA BegunElsewhere ==
  ASSUME ServiceInv, NEW r \in Requests, Acts(r), Alone(r),
         NEW q \in Requests \ {r}, Begun(q), InProgress(q), AsksHere(q)
  PROVE  Begun(q)' /\ InProgress(q)' /\ AsksHere(q)'
<1>1. /\ UNCHANGED on /\ on[q] \in Threads
      /\ pc'[q] = pc[q] /\ run'[q] = run[q] /\ reply'[q] = reply[q]
      /\ approved'[q] = approved[q] /\ asked'[q] = asked[q] /\ ran'[q] = ran[q]
  BY OthersStay DEF ServiceInv, TypeOK
<1>2. Begun(q)' /\ AsksHere(q)'
  BY <1>1 DEF Begun, AsksHere
<1>3. ASSUME Active(q)
      PROVE  thread'[on[q]] = thread[on[q]] /\ shown'[on[q]] = shown[on[q]]
  <2>1. on[q] # on[r]
    BY <1>3 DEF Alone
  <2>2. QED
    BY <1>1, <2>1, OthersStay
<1>4. Active(q)' <=> Active(q)
  BY <1>1 DEF Active
<1>5. InProgress(q)'
  BY <1>1, <1>3, <1>4 DEF InProgress, WaitsAt
<1>6. QED
  BY <1>2, <1>5

\* Of the request that acts: it ends.
LEMMA BegunAtEnd ==
  ASSUME ServiceInv, NEW r \in Requests, NEW rep, End(r, rep), rep.status # "none"
  PROVE  Begun(r)' /\ InProgress(r)'
<1>1. pc'[r] = "done" /\ reply'[r] = rep
  BY EndFacts
<1>2. QED
  BY <1>1 DEF Begun, InProgress, Active, NotBegun

\* Of the request that acts.
LEMMA BegunHere ==
  ASSUME ServiceInv, OrderInv, NEW r \in Requests, Acts(r),
         Begun(r), InProgress(r), AsksHere(r)
  PROVE  Begun(r)' /\ InProgress(r)' /\ AsksHere(r)'
<1>1. /\ UNCHANGED on /\ on[r] \in Threads /\ DOMAIN pc = Requests
      /\ DOMAIN approved = Requests
  BY OthersStay DEF ServiceInv, TypeOK
<1>2. UNCHANGED asked => AsksHere(r)'
  BY <1>1 DEF AsksHere
<1>3. CASE Arrive(r)
  <2>1. /\ pc[r] = "idle" /\ pc'[r] \in {"prompt", "begin"}
        /\ approved'[r] = shown[on[r]]
        /\ UNCHANGED <<thread, run, reply, shown, asked, ran>>
    BY <1>1, <1>3 DEF Arrive
  <2>2. asked[r] = {} /\ ran[r] = {} /\ reply[r].status = "none"
    BY <2>1 DEF Begun, NotBegun
  <2>3. QED
    BY <1>1, <1>2, <2>1, <2>2 DEF Begun, InProgress
<1>4. CASE Waits(r)
  <2>1. /\ Active(r) /\ pc'[r] \in {"begin", "getState", "record"}
        /\ pc'[r] = "begin" => pc[r] = "prompt"
        /\ UNCHANGED <<thread, run, reply, shown, approved, asked, ran>>
    BY <1>1, <1>4 DEF Waits, Active
  <2>2. Begun(r)'
    BY <2>1 DEF Begun, NotBegun, Active
  <2>3. InProgress(r)'
    BY <1>1, <2>1 DEF InProgress, WaitsAt
  <2>4. QED
    BY <1>2, <2>1, <2>2, <2>3
<1>5. ASSUME NEW rep, Leaves(r, rep) PROVE Begun(r)' /\ InProgress(r)' /\ AsksHere(r)'
  BY <1>2, <1>5, BegunAtEnd DEF Leaves
<1>6. ASSUME NEW cp, Begins(r, cp) PROVE Begun(r)' /\ InProgress(r)' /\ AsksHere(r)'
  <2>1. HasBegun(r, cp)
    BY <1>6, BeginsFacts
  <2>2. /\ pc[r] = "begin" /\ pc'[r] = "running" /\ ~run'[r].stepped
        /\ UNCHANGED <<reply, shown, approved, asked, ran>>
    BY <2>1 DEF HasBegun
  <2>3. asked[r] = {} /\ ran[r] = {} /\ reply[r].status = "none"
    BY <2>2 DEF Begun, NotBegun
  <2>4. approved[r] = shown[on[r]]
    BY <2>2 DEF InProgress, Active
  <2>5. QED
    BY <1>1, <1>2, <2>2, <2>3, <2>4 DEF Begun, InProgress
<1>7. ASSUME NEW c, Runs(r, c) PROVE Begun(r)' /\ InProgress(r)' /\ AsksHere(r)'
  <2>1. HasRun(r, c) /\ ~Paused(r)
    BY <1>7, RunsFacts DEF Runs
  <2>2. /\ pc[r] = "running" /\ run'[r].stepped
        /\ run'[r].cp.chan.question = run[r].cp.chan.question
        /\ UNCHANGED <<thread, pc, reply, shown, approved, asked>>
        /\ \A x \in ran'[r] : x \in ran[r] \/ x.turn = run[r].cp.chan.question
    BY <2>1 DEF HasRun
  <2>3. asked[r] = {}
    BY <2>1, <2>2, NotAskedYet
  <2>4. /\ approved[r] = shown[on[r]] /\ reply[r].status = "none"
        /\ \A x \in ran[r] : x.turn = run[r].cp.chan.question
    BY <2>2 DEF InProgress, Begun, Active
  <2>5. QED
    BY <1>1, <1>2, <2>2, <2>3, <2>4 DEF Begun, InProgress, NotBegun
<1>8. CASE Puts(r)
  <2>1. /\ HasStored(r) /\ pc[r] = "running" /\ asked[r] = {}
        /\ UNCHANGED <<shown, approved, ran>>
    BY <1>8, StoreFacts, NotAskedYet DEF Puts
  <2>2. AsksHere(r)'
    BY <1>1, <2>1, PutCalls DEF AsksHere
  <2>3. CASE HasPut(r)
    <3>1. /\ pc'[r] = "running" /\ reply' = reply /\ run'[r].cp = run[r].cp
          /\ run'[r].stepped = run[r].stepped
          /\ Len(run[r].unstored) = 1 => run'[r].unstored = <<>>
      BY <2>1, <2>3 DEF HasPut
    <3>2. /\ approved[r] = shown[on[r]] /\ reply[r].status = "none"
          /\ \A x \in ran[r] : x.turn = run[r].cp.chan.question
          /\ ~run[r].stepped => ran[r] = {}
      BY <2>1 DEF InProgress, Begun, Active
    <3>3. \A x \in asked'[r] : /\ run[r].stepped /\ Len(run[r].unstored) = 1
                               /\ WaitsAt(on[r], x.turn)'
      BY <1>1, <2>1, PutCalls
    <3>4. Begun(r)'
      BY <2>1, <3>1, <3>2, <3>3 DEF Begun, NotBegun
    <3>5. InProgress(r)'
      BY <1>1, <2>1, <3>1, <3>2, <3>3 DEF InProgress, WaitsAt
    <3>6. QED
      BY <2>2, <3>4, <3>5
  <2>4. CASE ~HasPut(r)
    <3>1. End(r, ErrorOf(r)) /\ ErrorOf(r).status = "error"
      BY <1>8, <2>4, TailFacts DEF Puts, ErrorOf, NoReply
    <3>2. QED
      BY <2>2, <3>1, BegunAtEnd
  <2>5. QED
    BY <2>3, <2>4
<1>9. ASSUME NEW p, Shows(r, p) PROVE Begun(r)' /\ InProgress(r)' /\ AsksHere(r)'
  <2>1. pc'[r] = "done" /\ reply'[r].status = "pending" /\ UNCHANGED asked
    BY <1>9, ShowsFacts
  <2>2. QED
    BY <1>2, <2>1 DEF Begun, InProgress, Active, NotBegun
<1>10. QED
  BY <1>3, <1>4, <1>5, <1>6, <1>7, <1>8, <1>9 DEF Acts

\* Calls that ran were asked for.
LEMMA RanWasAsked ==
  ASSUME ServiceInv, NEW r \in Requests, NEW x \in ran[r]
  PROVE  x \in Asked /\ ~Unasked(x.turn, Asked)
<1>1. ran[r] \subseteq Asked
  BY DEF ServiceInv, GatedExecution
<1>2. QED
  BY <1>1 DEF Unasked

\* What a request runs is what its thread waits with.
LEMMA RunsWaiting ==
  ASSUME ServiceInv, OrderInv, NEW r \in Requests, NEW c, Runs(r, c),
         run[r].cp.next = "tools_executor"
  PROVE  /\ ran'[r] = Calls(thread[on[r]].chan) /\ thread[on[r]] = run[r].cp
         /\ on[r] \in Threads
         /\ \A x \in ran'[r] :
              /\ WaitsAt(on[r], x.turn) /\ x.turn \in Requests /\ on[x.turn] = on[r]
<1>1. /\ pc[r] = "running" /\ ~run[r].stepped /\ ran'[r] = Calls(run[r].cp.chan)
      /\ \A x \in Calls(run[r].cp.chan) : x.turn = run[r].cp.chan.question
  BY RunsFacts DEF HasRun
<1>2. /\ thread[on[r]] = run[r].cp /\ on[r] \in Threads
      /\ WaitsAt(on[r], run[r].cp.chan.question)
  BY <1>1, BeforeTools DEF Loaded
<1>3. \A x \in ran'[r] : WaitsAt(on[r], x.turn)
  BY <1>1, <1>2
<1>4. QED
  BY <1>1, <1>2, <1>3, WaitsHere

\* A request runs calls only at the executor, and asks for calls only with a put.
LEMMA RunsOrPuts ==
  ASSUME ServiceInv, NEW r \in Requests, Acts(r)
  PROVE  /\ ran'[r] = ran[r] \/ \E c : Runs(r, c) /\ run[r].cp.next = "tools_executor"
         /\ asked'[r] = asked[r] \/ Puts(r)
<1>1. CASE Arrive(r) \/ Waits(r) \/ Puts(r)
  BY <1>1 DEF Arrive, Waits, Puts
<1>2. ASSUME NEW c, Runs(r, c)
      PROVE  /\ asked'[r] = asked[r]
             /\ run[r].cp.next # "tools_executor" => ran'[r] = ran[r]
  BY <1>2, RunsFacts DEF HasRun
<1>3. QED
  BY <1>1, <1>2 DEF Acts, Leaves, Begins, Shows

\* Settles survives what r does, for r itself: nothing it put waits with calls it ran.
LEMMA SettlesHere ==
  ASSUME ServiceInv, OrderInv, NEW r \in Requests, Acts(r), Local(r),
         Begun(r), Settles(r)
  PROVE  Settles(r)'
<1> SUFFICES ASSUME NEW t \in Threads, NEW x \in ran'[r], WaitsAt(t, x.turn)'
             PROVE  \/ reply'[r].status \in {"error", "lost"}
                    \/ pc'[r] = "running" /\ on'[r] = t /\ run'[r].unstored # <<>>
  BY DEF Settles
<1>1. UNCHANGED on /\ DOMAIN pc = Requests
  BY OthersStay DEF ServiceInv, TypeOK
<1>2. CASE x \notin ran[r]
  <2>1. PICK c : Runs(r, c) /\ run[r].cp.next = "tools_executor"
    BY <1>2, RunsOrPuts
  <2>2. /\ HasRun(r, c) /\ on[x.turn] = on[r] /\ x.turn \in Requests
    BY <2>1, RunsFacts, RunsWaiting
  <2>3. /\ pc'[r] = "running" /\ thread' = thread
        /\ Len(run'[r].unstored) = Len(run[r].unstored) + 1
        /\ Len(run[r].unstored) \in Nat
    BY <2>2 DEF HasRun
  <2>4. WaitsAt(t, x.turn)
    BY <2>3 DEF WaitsAt
  <2>5. on[r] = t
    BY <2>2, <2>4, WaitsHere
  <2>6. Len(run'[r].unstored) # 0
    BY <2>3
  <2>7. run'[r].unstored # <<>>
    BY <2>6
  <2>8. QED
    BY <1>1, <2>3, <2>5, <2>7
<1>3. CASE x \in ran[r]
  <2>1. WaitsAt(t, x.turn) /\ ~Unasked(x.turn, Asked)
    BY <1>3, RanWasAsked, WaitedBefore
  <2>2. \/ reply[r].status \in {"error", "lost"}
        \/ pc[r] = "running" /\ on[r] = t /\ run[r].unstored # <<>>
    BY <1>3, <2>1 DEF Settles
  <2>3. pc[r] # "done"
    BY DEF Acts, Arrive, Waits, Leaves, Begins, Runs, Puts, Shows, Active
  <2>4. pc[r] = "running" /\ on[r] = t /\ run[r].unstored # <<>>
    BY <2>2, <2>3 DEF Begun
  <2>5. CASE Arrive(r) \/ Waits(r)
    BY <2>4, <2>5 DEF Arrive, Waits
  <2>6. ASSUME NEW rep, Leaves(r, rep) PROVE reply'[r].status = "error"
    <3>1. rep.status = "error" /\ End(r, rep)
      BY <2>4, <2>6 DEF Leaves
    <3>2. QED
      BY <3>1, EndFacts
  <2>7. ASSUME NEW cp, Begins(r, cp) PROVE FALSE
    BY <2>4, <2>7 DEF Begins
  <2>8. ASSUME NEW c, Runs(r, c) PROVE pc'[r] = "running" /\ run'[r].unstored # <<>>
    <3>1. /\ pc' = pc /\ Len(run'[r].unstored) = Len(run[r].unstored) + 1
          /\ Len(run[r].unstored) \in Nat
      BY <2>8, RunsFacts DEF HasRun
    <3>2. Len(run'[r].unstored) # 0
      BY <3>1
    <3>3. QED
      BY <2>4, <3>1, <3>2
  <2>9. CASE Puts(r)
    <3>1. HasStored(r) /\ (HasPut(r) \/ End(r, ErrorOf(r)))
      BY <2>9, StoreFacts, TailFacts DEF Puts
    <3>2. ErrorOf(r).status = "error"
      BY DEF ErrorOf, NoReply
    <3>3. CASE End(r, ErrorOf(r))
      BY <3>2, <3>3, EndFacts
    <3>4. CASE HasPut(r)
      <4>1. thread'[t].next # "tools_executor" \/ thread'[t].chan.question # x.turn
        BY <2>1, <2>4, <3>1, HeadIsOrdered
      <4>2. QED
        BY <4>1 DEF WaitsAt
    <3>5. QED
      BY <3>1, <3>3, <3>4
  <2>10. ASSUME NEW p, Shows(r, p) PROVE FALSE
    BY <2>4, <2>10 DEF Shows
  <2>11. QED
    BY <1>1, <2>4, <2>5, <2>6, <2>7, <2>8, <2>9, <2>10 DEF Acts
<1>4. QED
  BY <1>2, <1>3

\* For the others: nothing that r put waits with calls they ran.
LEMMA SettlesElsewhere ==
  ASSUME ServiceInv, OrderInv, NEW r \in Requests, Acts(r), Local(r),
         NEW q \in Requests \ {r}, Settles(q)
  PROVE  Settles(q)'
<1> SUFFICES ASSUME NEW t \in Threads, NEW x \in ran'[q], WaitsAt(t, x.turn)'
             PROVE  \/ reply'[q].status \in {"error", "lost"}
                    \/ pc'[q] = "running" /\ on'[q] = t /\ run'[q].unstored # <<>>
  BY DEF Settles
<1>1. /\ on' = on /\ ran'[q] = ran[q] /\ reply'[q] = reply[q]
      /\ pc'[q] = pc[q] /\ run'[q] = run[q]
  BY OthersStay
<1>2. WaitsAt(t, x.turn)
  BY <1>1, RanWasAsked, WaitedBefore
<1>3. QED
  BY <1>1, <1>2 DEF Settles

\* Nobody runs the calls of a request in progress, whatever r does.
LEMMA AsksFirstStays ==
  ASSUME ServiceInv, OrderInv, NEW r \in Requests, Acts(r), Alone(r),
         NEW q \in Requests, AsksFirst(q), Begun(q), InProgress(q), AsksHere(q)
  PROVE  AsksFirst(q)'
<1> SUFFICES ASSUME NEW p \in Requests, NEW x \in ran'[p] \cap asked'[q]
             PROVE  pc'[q] = "done"
  BY DEF AsksFirst
<1>1. /\ p # r => ran'[p] = ran[p]
      /\ q # r => asked'[q] = asked[q] /\ pc'[q] = pc[q]
  BY OthersStay
<1>2. pc[r] # "done"
  BY DEF Acts, Arrive, Waits, Leaves, Begins, Runs, Puts, Shows, Active
<1>3. CASE x \in ran[p] /\ x \in asked[q]
  BY <1>1, <1>2, <1>3 DEF AsksFirst
<1>4. CASE x \notin ran[p]
  <2>1. p = r
    BY <1>1, <1>4
  <2>2. PICK c : Runs(r, c) /\ run[r].cp.next = "tools_executor"
    BY <1>4, <2>1, RunsOrPuts
  <2>3. /\ on[x.turn] = on[r] /\ asked'[r] = asked[r]
        /\ pc[r] = "running" /\ ~Paused(r)
    <3>1. on[x.turn] = on[r]
      BY <2>1, <2>2, RunsWaiting
    <3>2. asked'[r] = asked[r] /\ pc[r] = "running" /\ ~Paused(r)
      BY <2>2 DEF Runs
    <3>3. QED
      BY <3>1, <3>2
  <2>4. x \in asked[q] /\ q # r
    BY <1>1, <2>3, NotAskedYet
  <2>5. ~Active(q)
    BY <2>3, <2>4 DEF AsksHere, Alone
  <2>6. QED
    BY <1>1, <2>4, <2>5 DEF Active, Begun, NotBegun
<1>5. CASE x \in ran[p] /\ x \notin asked[q]
  <2>1. q = r /\ Puts(r)
    BY <1>1, <1>5, RunsOrPuts
  <2>2. HasStored(r) /\ pc[r] = "running" /\ asked[r] = {} /\ UNCHANGED on
    BY <2>1, StoreFacts, NotAskedYet, OthersStay DEF Puts
  <2>3. Unasked(x.turn, Asked)
    BY <2>1, <2>2, PutCalls
  <2>4. QED
    BY <1>5, <2>3, RanWasAsked
<1>6. QED
  BY <1>3, <1>4, <1>5

\* What is shown of a thread depends on its messages.
LEMMA PendingOfMessages ==
  ASSUME NEW c, NEW d, c.messages = d.messages
  PROVE  PendingAction(c) = PendingAction(d)
BY DEF PendingAction

\* The calls that were told of stay shown, whatever r does.
LEMMA TellsStays ==
  ASSUME ServiceInv, OrderInv, NEW r \in Requests, Acts(r), Local(r),
         NEW q \in Requests, Tells(q), Begun(q), InProgress(q), AsksHere(q)
  PROVE  Tells(q)'
<1> SUFFICES ASSUME NEW t \in Threads, NEW x \in asked'[q], WaitsAt(t, x.turn)',
                    reply'[q].status = "pending"
             PROVE  shown'[t] = PendingAction(thread'[t].chan)
  BY DEF Tells
<1>1. /\ q # r => asked'[q] = asked[q] /\ reply'[q] = reply[q]
      /\ t # on[r] => shown'[t] = shown[t]
  BY OthersStay
<1>2. CASE x \notin asked[q]
  <2>1. q = r /\ Puts(r)
    BY <1>1, <1>2, RunsOrPuts
  <2>2. HasPut(r) \/ End(r, ErrorOf(r))
    BY <2>1, TailFacts DEF Puts
  <2>3. ErrorOf(r).status = "error" /\ pc[r] = "running"
    BY <2>1 DEF ErrorOf, NoReply, Puts
  <2>4. reply'[r].status \in {"none", "error"}
    BY <2>1, <2>2, <2>3, EndFacts DEF HasPut, Begun
  <2>5. QED
    BY <2>1, <2>4
<1>3. CASE x \in asked[q]
  <2>1. ~Unasked(x.turn, Asked)
    BY <1>3 DEF Unasked, Asked
  <2>2. /\ WaitsAt(t, x.turn)
        /\ PendingAction(thread'[t].chan) = PendingAction(thread[t].chan)
    BY <2>1, WaitedBefore, PendingOfMessages
  <2>3. CASE \E p : Shows(r, p)
    <3>1. PICK p : Shows(r, p)
      BY <2>3
    <3>2. /\ shown'[on[r]] = PendingAction(thread[on[r]].chan)
          /\ \A u \in Threads \ {on[r]} : shown'[u] = shown[u]
      BY <3>1, ShowsFacts
    <3>3. CASE t = on[r]
      BY <2>2, <3>2, <3>3
    <3>4. CASE t # on[r]
      <4>1. on[q] = t
        BY <1>3, <2>2, WaitsHere DEF AsksHere
      <4>2. reply[q].status = "pending"
        BY <1>1, <3>4, <4>1
      <4>3. QED
        BY <1>3, <2>2, <3>2, <3>4, <4>2 DEF Tells
    <3>5. QED
      BY <3>3, <3>4
  <2>4. CASE ~\E p : Shows(r, p)
    <3>1. shown' = shown
      BY <2>4 DEF Acts, Arrive, Waits, Leaves, Begins, Runs, Puts
    <3>2. reply[q].status = "pending"
      <4>1. CASE q # r
        BY <1>1, <4>1
      <4>2. ASSUME NEW rep, Leaves(r, rep) PROVE reply'[r].status # "pending"
        <5>1. End(r, rep) /\ rep.status # "pending"
          BY <4>2 DEF Leaves
        <5>2. QED
          BY <5>1, EndFacts
      <4>3. ASSUME End(r, ErrorOf(r)) PROVE reply'[r].status # "pending"
        <5>1. ErrorOf(r).status = "error"
          BY DEF ErrorOf, NoReply
        <5>2. QED
          BY <4>3, <5>1, EndFacts
      <4>4. CASE q = r
        BY <2>4, <4>2, <4>3, <4>4 DEF Acts, Arrive, Waits, Begins, Runs, Puts
      <4>5. QED
        BY <4>1, <4>4
    <3>3. QED
      BY <1>3, <2>2, <3>1, <3>2 DEF Tells
  <2>5. QED
    BY <2>3, <2>4
<1>4. QED
  BY <1>2, <1>3

\* Nobody has asked for anything.
LEMMA InitCalls == Init => CallInv
<1> SUFFICES ASSUME Init, NEW r \in Requests
             PROVE  Begun(r) /\ InProgress(r) /\ AsksHere(r) /\ Settles(r)
                      /\ AsksFirst(r) /\ Tells(r)
  BY DEF CallInv
<1>1. /\ pc[r] = "idle" /\ asked[r] = {} /\ \A q \in Requests : ran[q] = {}
      /\ reply[r].status = "none"
  BY DEF Init, NoReply
<1>2. QED
  BY <1>1 DEF Begun, InProgress, AsksHere, Settles, AsksFirst, Tells, Active

\* A crash settles nothing and tells nobody.
LEMMA CrashCalls ==
  ASSUME ServiceInv, CallInv, Crash
  PROVE  CallInv'
<1> SUFFICES ASSUME NEW r \in Requests
             PROVE  (Begun(r) /\ InProgress(r) /\ AsksHere(r) /\ Settles(r)
                       /\ AsksFirst(r) /\ Tells(r))'
  BY DEF CallInv
<1>1. Begun(r) /\ AsksHere(r) /\ Settles(r) /\ AsksFirst(r) /\ Tells(r)
  BY DEF CallInv
<1>2. /\ UNCHANGED <<thread, kind, on, shown, approved, asked, ran>>
      /\ Active(r) => pc'[r] = "done" /\ reply'[r].status = "lost"
      /\ ~Active(r) => pc'[r] = pc[r] /\ reply'[r] = reply[r]
  BY DEF Crash, NoReply
<1>3. Begun(r)' /\ InProgress(r)' /\ AsksHere(r)' /\ AsksFirst(r)'
  BY <1>1, <1>2
  DEF Begun, InProgress, AsksHere, AsksFirst, Active, NotBegun
<1>4. Settles(r)'
  BY <1>1, <1>2 DEF Settles, WaitsAt, Active
<1>5. Tells(r)'
  BY <1>1, <1>2 DEF Tells, WaitsAt
<1>6. QED
  BY <1>3, <1>4, <1>5

\* One request acts.
LEMMA ActCalls ==
  ASSUME ServiceInv, OrderInv, Serial, CallInv, NEW r \in Requests, Acts(r)
  PROVE  CallInv'
<1> SUFFICES ASSUME NEW q \in Requests
             PROVE  (Begun(q) /\ InProgress(q) /\ AsksHere(q) /\ Settles(q)
                       /\ AsksFirst(q) /\ Tells(q))'
  BY DEF CallInv
<1>1. Alone(r) /\ Local(r)
  BY ActsAlone, ActIsLocal
<1>2. /\ Begun(q) /\ InProgress(q) /\ AsksHere(q)
      /\ Settles(q) /\ AsksFirst(q) /\ Tells(q)
  BY DEF CallInv
<1>3. CASE q = r
  BY <1>1, <1>2, <1>3, BegunHere, SettlesHere, AsksFirstStays, TellsStays
<1>4. CASE q # r
  BY <1>1, <1>2, <1>4, BegunElsewhere, SettlesElsewhere, AsksFirstStays, TellsStays
<1>5. QED
  BY <1>3, <1>4

\* Every step keeps the calls in order.
LEMMA NextCalls == Serial /\ ServiceInv /\ OrderInv /\ CallInv /\ [Next]_vars => CallInv'
<1> SUFFICES ASSUME Serial, ServiceInv, OrderInv, CallInv, [Next]_vars
             PROVE  CallInv'
  OBVIOUS
<1>1. CASE UNCHANGED vars
  BY <1>1 DEF vars, CallInv, Begun, InProgress, AsksHere, Settles, AsksFirst, Tells,
              Active, WaitsAt
<1>2. QED
  BY <1>1, StepsAre, ActCalls, CrashCalls

\* Calls are always in order.
LEMMA CallInvariant ==
  ASSUME Serial
  PROVE  Spec => []CallInv
<1>1. Init => CallInv
  BY InitCalls
<1>2. ServiceInv /\ OrderInv /\ CallInv /\ [Next]_vars => CallInv'
  BY NextCalls
<1>3. QED
  BY <1>1, <1>2, ServiceInvariant, OrderInvariant, PTL DEF Spec

\* With one request at a time on a thread, a call runs again only after the request
\* that ran it told its client of an error or was lost with the process: whatever
\* nodes and puts fail, before or after they took effect, and however far the puts
\* lag behind the nodes.
THEOREM RepeatsAreAnnounced ==
  ASSUME Serial
  PROVE  Spec => RepeatsFollowFailures
<1>1. ServiceInv /\ OrderInv /\ CallInv /\ [Next]_vars =>
        [\A r, q \in Requests :
           (ran'[r] \ ran[r]) \cap ran[q] # {} =>
             reply[q].status \in {"error", "lost"}]_vars
  <2> SUFFICES ASSUME ServiceInv, OrderInv, CallInv, [Next]_vars, ~UNCHANGED vars,
                      NEW r \in Requests, NEW q \in Requests,
                      NEW x \in (ran'[r] \ ran[r]) \cap ran[q]
               PROVE  reply[q].status \in {"error", "lost"}
    OBVIOUS
  <2>1. CASE Crash
    BY <2>1 DEF Crash
  <2>2. ASSUME NEW p \in Requests, Acts(p)
        PROVE  reply[q].status \in {"error", "lost"}
    <3>1. p = r /\ q # r
      BY <2>2, OthersStay
    <3>2. PICK c : Runs(r, c) /\ run[r].cp.next = "tools_executor"
      BY <2>2, <3>1, RunsOrPuts
    <3>3. WaitsAt(on[r], x.turn) /\ on[r] \in Threads
      BY <3>2, RunsWaiting
    <3>4. pc[r] = "running" /\ Alone(r)
      BY <3>2 DEF Runs, OrderInv, Active
    <3>5. ~(pc[q] = "running" /\ on[q] = on[r])
      BY <3>1, <3>4 DEF Alone, Active
    <3>6. QED
      BY <3>3, <3>5 DEF CallInv, Settles
  <2>3. QED
    BY <2>1, <2>2, StepsAre
<1>2. QED
  BY <1>1, ServiceInvariant, OrderInvariant, CallInvariant, PTL
  DEF Spec, RepeatsFollowFailures

\* With one request at a time on a thread, a call that was asked for and waits no
\* longer never waits again, and is not executed later: whatever resumptions fail,
\* are repeated or come too late.  Of the calls that still wait, executed or not, it
\* says nothing.
THEOREM SettledStaysSettled ==
  ASSUME Serial
  PROVE  Spec => SettledIsFinal
<1>1. ServiceInv /\ OrderInv /\ [Next]_vars =>
        [\A x \in Asked \ Waiting :
           x \notin Waiting' /\ (x \in Executed' => x \in Executed)]_vars
  <2> SUFFICES ASSUME ServiceInv, OrderInv, [Next]_vars, ~UNCHANGED vars,
                      NEW x \in Asked, x \notin Waiting
               PROVE  x \notin Waiting' /\ (x \in Executed' => x \in Executed)
    OBVIOUS
  <2>1. CASE Crash
    <3>1. UNCHANGED <<thread, ran>>
      BY <2>1 DEF Crash
    <3>2. QED
      BY <3>1 DEF Waiting, Executed
  <2>2. ASSUME NEW r \in Requests, Acts(r), NEW t \in Threads,
               thread'[t].next = "tools_executor", x \in Calls(thread'[t].chan)
        PROVE  x \in Waiting
    <3>1. Local(r)
      BY <2>2, ActIsLocal
    <3>2. WaitsAt(t, x.turn)'
      <4>1. x.turn = thread'[t].chan.question
        BY <2>2, StepKeepsInv, CallsAreOfTurn
           DEF ServiceInv, StoredInv, CheckpointInv, ToolTurn, Calls
      <4>2. QED
        BY <2>2, <4>1 DEF WaitsAt
    <3>3. ~Unasked(x.turn, Asked)
      BY DEF Unasked
    <3>4. /\ WaitsAt(t, x.turn)
          /\ thread'[t].chan.messages = thread[t].chan.messages
      BY <2>2, <3>1, <3>2, <3>3, WaitedBefore
    <3>5. x \in Calls(thread[t].chan)
      BY <2>2, <3>4 DEF Calls, LastMessage
    <3>6. QED
      BY <3>4, <3>5 DEF Waiting, WaitsAt, InterruptBefore
  <2>3. ASSUME NEW r \in Requests, Acts(r), NEW q \in Requests,
               x \in ran'[q], x \notin ran[q]
        PROVE  x \in Waiting
    <3>1. q = r
      BY <2>3, OthersStay
    <3>2. PICK c : Runs(r, c) /\ run[r].cp.next = "tools_executor"
      BY <2>3, <3>1, RunsOrPuts
    <3>3. /\ x \in Calls(thread[on[r]].chan) /\ on[r] \in Threads
          /\ WaitsAt(on[r], x.turn)
      BY <2>3, <3>1, <3>2, RunsWaiting
    <3>4. QED
      BY <3>3 DEF Waiting, WaitsAt, InterruptBefore
  <2>4. CASE \E r \in Requests : Acts(r)
    BY <2>2, <2>3, <2>4 DEF Waiting, Executed, InterruptBefore
  <2>5. QED
    BY <2>1, <2>4, StepsAre
<1>2. QED
  BY <1>1, ServiceInvariant, OrderInvariant, PTL DEF Spec, SettledIsFinal

-----------------------------------------------------------------------------
(* What is shown.                                                           *)

LEMMA LastIsPending ==
  ASSUME NEW c \in Channels, Len(c.messages) > 0, LastMessage(c).calls # <<>>
  PROVE  PendingAction(c) = [turn |-> LastMessage(c).turn,
                             tool |-> Head(LastMessage(c).calls)]
<1> DEFINE calling == {i \in DOMAIN c.messages : c.messages[i].calls # <<>>}
           pos == CHOOSE i \in calling : \A j \in calling : j <= i
<1>1. c.messages \in Seq(Message) /\ Len(c.messages) \in Nat
  BY DEF Channels
<1>2. Len(c.messages) \in calling /\ calling \in SUBSET (1..Len(c.messages))
  BY <1>1 DEF LastMessage
<1>3. pos \in calling /\ \A j \in calling : j <= pos
  BY <1>1, <1>2, LastPosition
<1>4. pos = Len(c.messages)
  <2> HIDE DEF pos, calling
  <2>1. pos \in 1..Len(c.messages) /\ Len(c.messages) <= pos
    BY <1>2, <1>3
  <2>2. QED
    BY <1>1, <2>1
<1>5. calling # {}
  BY <1>2
<1>6. PendingAction(c) = [turn |-> c.messages[pos].turn,
                          tool |-> Head(c.messages[pos].calls)]
  BY <1>5, Zenon DEF PendingAction
<1>7. QED
  BY <1>4, <1>6 DEF LastMessage


\* A checkpoint before the tools that a thread holds: its calls are of its turn and
\* were asked for, and the pending action is one of them, if it has any.
LEMMA WhatWaits ==
  ASSUME ServiceInv, OrderInv, NEW t \in Threads, thread[t].next = "tools_executor"
  PROVE  LET c == thread[t].chan
         IN /\ LastMessage(c).turn = c.question /\ c.question \in Requests
            /\ Calls(c) \subseteq Asked
            /\ \A x \in Calls(c) : x.turn = c.question
            /\ Calling => Calls(c) # {}
            /\ Calls(c) # {} => PendingAction(c) \in Calls(c)
<1> DEFINE c     == thread[t].chan
           calls == LastMessage(c).calls
<1>1. /\ c \in Channels /\ Len(c.messages) > 0 /\ LastMessage(c).turn = c.question
      /\ calls \in ToolCalls /\ c.question \in Requests /\ Calls(c) \subseteq Asked
  BY DEF ServiceInv, TypeOK, Checkpoint, StoredInv, CheckpointInv, ToolTurn,
         CallsAsked, OrderInv, Ordered, END
<1> HIDE DEF c
<1>2. calls \in Seq(Tools)
  BY <1>1, ChannelAssumption
<1>3. ASSUME calls # <<>>
      PROVE  /\ PendingAction(c) = [turn |-> LastMessage(c).turn, tool |-> calls[1]]
             /\ 1 \in DOMAIN calls
  <2>1. PendingAction(c) = [turn |-> LastMessage(c).turn, tool |-> Head(calls)]
    BY <1>1, <1>3, LastIsPending
  <2>2. Head(calls) = calls[1] /\ 1 \in DOMAIN calls
    <3> HIDE DEF calls
    <3>1. Len(calls) # 0 /\ Len(calls) \in Nat
      BY <1>2, <1>3, EmptySeq
    <3>2. QED
      BY <1>2, <3>1
  <2>3. QED
    BY <2>1, <2>2
<1>4. calls # <<>> => PendingAction(c) \in Calls(c)
  BY <1>3 DEF Calls
<1>5. calls = <<>> => Calls(c) = {}
  BY DEF Calls
<1>6. Calling => calls # <<>>
  BY <1>1 DEF Calling
<1>7. \A x \in Calls(c) : x.turn = c.question
  BY <1>1 DEF Calls
<1>8. QED
  BY <1>1, <1>4, <1>5, <1>6, <1>7 DEF c

\* Where a request looks a pending action up, its thread waits with its own.
LEMMA LooksItUp ==
  ASSUME Calling, ServiceInv, PlaceInv, OrderInv, NEW r \in Requests, NEW p,
         Shows(r, p)
  PROVE  /\ on[r] \in Threads /\ WaitsAt(on[r], p.turn)
         /\ p.turn = run[r].cp.chan.question
         /\ p \in Asked
<1>1. /\ pc[r] = "getState" /\ p = PendingAction(thread[on[r]].chan)
  BY ShowsFacts
<1>2. run[r].cp.next = "tools_executor" /\ run[r].unstored = <<>>
  BY <1>1 DEF PlaceInv, Placed
<1>3. /\ thread[on[r]] = run[r].cp /\ on[r] \in Threads
      /\ WaitsAt(on[r], run[r].cp.chan.question)
  BY <1>1, <1>2, BeforeTools DEF Loaded
<1>4. /\ p \in Calls(thread[on[r]].chan) /\ p.turn = thread[on[r]].chan.question
      /\ p \in Asked
  BY <1>1, <1>2, <1>3, WhatWaits
<1>5. QED
  BY <1>3, <1>4

\* A chat that pauses shows a call of its own turn.
LEMMA ActShowsOwnTurn ==
  ASSUME Calling, ServiceInv, PlaceInv, OrderInv, PendingIsOwnTurn,
         NEW r \in Requests, Acts(r)
  PROVE  PendingIsOwnTurn'
<1>0. kind' = kind /\ \A q \in Requests \ {r} : reply'[q] = reply[q]
  BY OthersStay
<1>1. CASE reply'[r] = reply[r]
  BY <1>0, <1>1 DEF PendingIsOwnTurn
<1>2. CASE reply'[r].status # "pending"
  BY <1>0, <1>2 DEF PendingIsOwnTurn
<1>3. ASSUME NEW rep, Leaves(r, rep) PROVE reply'[r].status # "pending"
  <2>1. End(r, rep) /\ rep.status # "pending"
    BY <1>3 DEF Leaves
  <2>2. QED
    BY <2>1, EndFacts
<1>4. CASE End(r, ErrorOf(r))
  <2>1. ErrorOf(r).status = "error"
    BY DEF ErrorOf, NoReply
  <2>2. QED
    BY <1>2, <1>4, <2>1, EndFacts
<1>5. ASSUME NEW p, Shows(r, p) PROVE PendingIsOwnTurn'
  <2>1. reply'[r].shown = p /\ pc[r] = "getState"
    BY <1>5, ShowsFacts
  <2>2. p.turn = run[r].cp.chan.question
    BY <1>5, LooksItUp
  <2>3. kind[r] \in ChatKinds => p.turn = r
    BY <2>1, <2>2 DEF ServiceInv, ChatInv
  <2>4. QED
    BY <1>0, <2>1, <2>3 DEF PendingIsOwnTurn
<1>6. QED
  BY <1>1, <1>2, <1>3, <1>4, <1>5 DEF Acts, Arrive, Waits, Begins, Runs, Puts

\* A chat that is told to wait is shown a call of its own turn, when the models
\* that are to ask for a call do.
THEOREM PendingIsOfTurn ==
  ASSUME Serial, Calling
  PROVE  Spec => []PendingIsOwnTurn
<1>1. Init => PendingIsOwnTurn
  BY DEF Init, PendingIsOwnTurn, NoReply
<1>2. ServiceInv /\ PlaceInv /\ OrderInv /\ PendingIsOwnTurn /\ [Next]_vars
        => PendingIsOwnTurn'
  <2> SUFFICES ASSUME ServiceInv, PlaceInv, OrderInv, PendingIsOwnTurn, [Next]_vars
               PROVE  PendingIsOwnTurn'
    OBVIOUS
  <2>1. CASE UNCHANGED vars
    BY <2>1 DEF vars, PendingIsOwnTurn
  <2>2. CASE Crash
    <3>1. /\ kind' = kind
          /\ \A r \in Requests : reply'[r] = reply[r] \/ reply'[r].status = "lost"
      BY <2>2 DEF Crash, NoReply
    <3>2. QED
      BY <3>1 DEF PendingIsOwnTurn
  <2>3. QED
    BY <2>1, <2>2, StepsAre, ActShowsOwnTurn
<1>3. QED
  BY <1>1, <1>2, ServiceInvariant, PlaceInvariant, OrderInvariant, PTL DEF Spec

\* A request that runs calls its client was told of came when they were shown.
LEMMA RunIsShown ==
  ASSUME ServiceInv, OrderInv, CallInv, NEW r \in Requests, NEW c, Runs(r, c),
         run[r].cp.next = "tools_executor", NEW q \in Requests,
         ran'[r] \cap asked[q] # {}, reply[q].status = "pending"
  PROVE  approved[r] \in ran'[r] /\ \A x \in ran'[r] : x.turn = approved[r].turn
<1> DEFINE c1 == thread[on[r]].chan
<1>1. /\ ran'[r] = Calls(c1) /\ on[r] \in Threads
      /\ \A x \in ran'[r] : WaitsAt(on[r], x.turn)
  BY RunsWaiting
<1>2. PICK x \in ran'[r] : x \in asked[q]
  OBVIOUS
<1>3. shown[on[r]] = PendingAction(c1)
  BY <1>1, <1>2 DEF CallInv, Tells
<1>4. approved[r] = shown[on[r]]
  BY DEF CallInv, InProgress, Active, Runs
<1>5. /\ PendingAction(c1) \in Calls(c1)
      /\ \A y \in Calls(c1) : y.turn = c1.question
  BY <1>1, <1>2, WhatWaits DEF WaitsAt
<1>6. QED
  BY <1>1, <1>3, <1>4, <1>5

\* A step executes what was shown, what was not told of, or nothing.
LEMMA ActRunsShown ==
  ASSUME ServiceInv, OrderInv, CallInv, ShownIsExecuted, NEW p \in Requests, Acts(p)
  PROVE  ShownIsExecuted'
<1> SUFFICES ASSUME NEW r \in Requests, NEW q \in Requests,
                    ran'[r] \cap asked'[q] # {}, reply'[q].status = "pending"
             PROVE  /\ approved'[r] \in ran'[r]
                    /\ \A x \in ran'[r] : x.turn = approved'[r].turn
  BY DEF ShownIsExecuted
<1>0. PICK x \in ran'[r] : x \in asked'[q]
  OBVIOUS
<1>1. /\ r # p => approved'[r] = approved[r] /\ ran'[r] = ran[r]
      /\ q # p => asked'[q] = asked[q] /\ reply'[q] = reply[q]
  BY OthersStay
<1>2. pc[p] # "done"
  BY DEF Acts, Arrive, Waits, Leaves, Begins, Runs, Puts, Shows, Active
<1>3. Begun(p) /\ Begun(q) /\ AsksFirst(q)
  BY DEF CallInv
<1>4. CASE Puts(p) /\ q = p
  <2>1. HasPut(p) \/ End(p, ErrorOf(p))
    BY <1>4, TailFacts DEF Puts
  <2>2. ErrorOf(p).status = "error" /\ reply[p].status = "none"
    BY <1>2, <1>3 DEF ErrorOf, NoReply, Begun
  <2>3. QED
    BY <1>4, <2>1, <2>2, EndFacts DEF HasPut
<1>5. CASE ~(Puts(p) /\ q = p)
  <2>1. asked'[q] = asked[q]
    BY <1>1, <1>5, RunsOrPuts
  <2>2. CASE ran'[r] # ran[r]
    <3>1. r = p
      BY <1>1, <2>2
    <3>2. PICK c : Runs(p, c) /\ run[p].cp.next = "tools_executor"
      BY <2>2, <3>1, RunsOrPuts
    <3>3. reply' = reply /\ approved' = approved
      BY <3>2 DEF Runs
    <3>4. QED
      BY <1>0, <2>1, <3>1, <3>2, <3>3, RunIsShown
  <2>3. CASE ran'[r] = ran[r]
    <3>1. pc[q] = "done" /\ q # p
      BY <1>0, <1>2, <1>3, <2>1, <2>3 DEF AsksFirst
    <3>2. /\ approved[r] \in ran[r]
          /\ \A y \in ran[r] : y.turn = approved[r].turn
      BY <1>0, <1>1, <2>1, <2>3, <3>1 DEF ShownIsExecuted
    <3>3. approved'[r] = approved[r]
      <4>1. CASE Arrive(p) /\ r = p
        <5>1. ran[r] = {}
          BY <1>3, <4>1 DEF Arrive, Begun, NotBegun
        <5>2. QED
          BY <1>0, <2>3, <5>1
      <4>2. CASE ~Arrive(p) /\ r = p
        BY <4>2 DEF Acts, Waits, Leaves, Begins, Runs, Puts, Shows
      <4>3. QED
        BY <1>1, <4>1, <4>2
    <3>4. QED
      BY <2>3, <3>2, <3>3
  <2>4. QED
    BY <2>2, <2>3
<1>6. QED
  BY <1>4, <1>5

\* With one request at a time on a thread, the calls of a request that told its
\* client that they wait run only in a request that came when one of them was shown.
THEOREM ShownCallsRun ==
  ASSUME Serial
  PROVE  Spec => []ShownIsExecuted
<1>1. Init => ShownIsExecuted
  BY DEF Init, ShownIsExecuted
<1>2. ServiceInv /\ OrderInv /\ CallInv /\ ShownIsExecuted /\ [Next]_vars
        => ShownIsExecuted'
  <2> SUFFICES ASSUME ServiceInv, OrderInv, CallInv, ShownIsExecuted, [Next]_vars
               PROVE  ShownIsExecuted'
    OBVIOUS
  <2>1. CASE UNCHANGED vars
    BY <2>1 DEF vars, ShownIsExecuted
  <2>2. CASE Crash
    <3>1. /\ UNCHANGED <<ran, asked, approved>>
          /\ \A r \in Requests : reply'[r] = reply[r] \/ reply'[r].status = "lost"
      BY <2>2 DEF Crash, NoReply
    <3>2. QED
      BY <3>1 DEF ShownIsExecuted
  <2>3. QED
    BY <2>1, <2>2, StepsAre, ActRunsShown
<1>3. QED
  BY <1>1, <1>2, ServiceInvariant, OrderInvariant, CallInvariant, PTL DEF Spec

-----------------------------------------------------------------------------
(* What was shown was asked for.                                            *)

\* Nothing is shown at first.
LEMMA InitShows == Init => ShownInv
<1> SUFFICES ASSUME Init PROVE ShownInv
  OBVIOUS
<1>1. NoPending.turn = NoTurn /\ NoTurn \notin Requests
  BY ChannelAssumption DEF NoPending
<1>2. /\ \A t \in Threads : shown[t] = NoPending
      /\ \A r \in Requests : asked[r] = {}
  BY DEF Init
<1>3. QED
  BY <1>1, <1>2 DEF ShownInv

\* What r shows was asked for, and by nobody who is still in progress.
LEMMA ActShows ==
  ASSUME Calling, Serial, ServiceInv, PlaceInv, OrderInv, CallInv, ShownInv,
         NEW r \in Requests, Acts(r)
  PROVE  ShownInv'
<1>1. /\ UNCHANGED on /\ on[r] \in Threads /\ Alone(r) /\ Asked \subseteq Asked'
      /\ \A q \in Requests \ {r} : asked'[q] = asked[q] /\ pc'[q] = pc[q]
      /\ \A t \in Threads \ {on[r]} : shown'[t] = shown[t]
      /\ \A q \in Requests : on[q] \in Threads
      /\ Begun(r) /\ DOMAIN pc = Requests
  BY OthersStay, ActsAlone, ActIsLocal DEF Local, ServiceInv, TypeOK, CallInv
<1>2. \A turn : ~Unasked(turn, Asked) => ~Unasked(turn, Asked')
  BY <1>1 DEF Unasked
<1>3. CASE \E p : Shows(r, p)
  <2>1. PICK p : Shows(r, p)
    BY <1>3
  <2>2. shown'[on[r]] = p /\ asked' = asked /\ pc'[r] = "done"
    BY <2>1, ShowsFacts
  <2>3. ~Unasked(p.turn, Asked)
    BY <2>1, LooksItUp DEF Unasked
  <2>4. \A t \in Threads : shown'[t].turn \in Requests => ~Unasked(shown'[t].turn, Asked')
    BY <1>1, <1>2, <2>2, <2>3 DEF ShownInv
  <2>5. ASSUME NEW q \in Requests, NEW x \in asked'[q], Active(q)'
        PROVE  shown'[on[q]].turn # x.turn
    <3>1. q # r /\ Active(q)
      BY <1>1, <2>2, <2>5 DEF Active
    <3>2. on[q] # on[r]
      BY <1>1, <3>1 DEF Alone
    <3>3. QED
      BY <1>1, <2>2, <2>5, <3>1, <3>2 DEF ShownInv
  <2>6. QED
    BY <1>1, <2>4, <2>5 DEF ShownInv
<1>4. CASE ~\E p : Shows(r, p)
  <2>1. shown' = shown
    BY <1>4 DEF Acts, Arrive, Waits, Leaves, Begins, Runs, Puts
  <2>2. \A t \in Threads : shown'[t].turn \in Requests => ~Unasked(shown'[t].turn, Asked')
    BY <1>2, <2>1 DEF ShownInv
  <2>3. ASSUME NEW q \in Requests, NEW x \in asked'[q], Active(q)'
        PROVE  shown[on[q]].turn # x.turn
    <3>1. CASE x \in asked[q] /\ Active(q)
      BY <3>1 DEF ShownInv
    <3>2. CASE x \in asked[q] /\ ~Active(q)
      <4>1. q = r
        BY <1>1, <2>3, <3>2 DEF Active
      <4>2. pc[r] = "idle"
        BY <3>2, <4>1
        DEF Acts, Arrive, Waits, Leaves, Begins, Runs, Puts, Shows, Active
      <4>3. QED
        BY <1>1, <3>2, <4>1, <4>2 DEF Begun, NotBegun
    <3>3. CASE x \notin asked[q]
      <4>1. q = r /\ Puts(r)
        BY <1>1, <2>3, <3>3, RunsOrPuts
      <4>2. HasStored(r) /\ pc[r] = "running" /\ asked[r] = {}
        BY <4>1, StoreFacts, NotAskedYet DEF Puts, CallInv
      <4>3. Unasked(x.turn, Asked) /\ x.turn \in Requests
        BY <1>1, <2>3, <4>1, <4>2, PutCalls
      <4>4. QED
        BY <1>1, <4>1, <4>3 DEF ShownInv
    <3>4. QED
      BY <3>1, <3>2, <3>3
  <2>4. QED
    BY <1>1, <2>1, <2>2, <2>3 DEF ShownInv
<1>5. QED
  BY <1>3, <1>4

\* All that is known of a service that keeps the promise of the gate.
ApprovalInv == ServiceInv /\ PlaceInv /\ OrderInv /\ CallInv /\ ShownInv

\* What was shown stays as it should.
LEMMA ApprovalInvariant ==
  ASSUME Serial, Calling
  PROVE  Spec => []ApprovalInv
<1>1. Init => ShownInv
  BY InitShows
<1>2. ServiceInv /\ PlaceInv /\ OrderInv /\ CallInv /\ ShownInv /\ [Next]_vars
        => ShownInv'
  <2> SUFFICES ASSUME ServiceInv, PlaceInv, OrderInv, CallInv, ShownInv, [Next]_vars
               PROVE  ShownInv'
    OBVIOUS
  <2>1. CASE UNCHANGED vars
    BY <2>1, AskedStays DEF vars, ShownInv, Unasked, Active
  <2>2. CASE Crash
    <3>1. /\ UNCHANGED <<on, shown, asked>> /\ Asked' = Asked
          /\ \A r \in Requests : ~Active(r)'
      BY <2>2, AskedStays DEF Crash, Active
    <3>2. QED
      BY <3>1 DEF ShownInv, Unasked
  <2>3. QED
    BY <2>1, <2>2, StepsAre, ActShows
<1>3. QED
  BY <1>1, <1>2, ServiceInvariant, PlaceInvariant, OrderInvariant, CallInvariant, PTL
  DEF Spec, ApprovalInv

-----------------------------------------------------------------------------
(* The refinement.                                                          *)

\* What the state is for the gate.
AskedTurns == TurnsOf(Asked)
WaitsWith  == [t \in Threads |-> PendingTurn(thread[t])]
ShownTurns == [t \in Threads |-> shown[t].turn]
NotTold    == TurnsOf(UNION {asked[r] : r \in {q \in Requests : Silent(q)}})
Executing  == {t \in Threads :
                 /\ thread[t].next \in InterruptBefore
                 /\ \E r \in Requests : on[r] = t /\ Active(r) /\ ran[r] # {}}
RanTurns   == TurnsOf(Executed)

\* A step is one of HumanApproval, or none for it.
IsPromised == [Gate!Next]_(Gate!vars)

\* Nothing waits, is shown or was executed at first.
LEMMA InitIsPromised == Init => Gate!Init
<1> SUFFICES ASSUME Init PROVE Gate!Init
  OBVIOUS
<1>1. /\ \A t \in Threads : PendingTurn(thread[t]) = NoTurn
      /\ \A t \in Threads : thread[t].next \notin InterruptBefore
  BY DEF Init, EmptyThread, PendingTurn, InterruptBefore, END
<1>2. \A t \in Threads : shown[t].turn = NoTurn
  BY DEF Init, NoPending
<1>3. \A r \in Requests : ran[r] = {} /\ asked[r] = {}
  BY DEF Init
<1>4. Asked = {} /\ Executed = {}
  BY <1>3 DEF Asked, Executed
<1>5. UNION {asked[r] : r \in {q \in Requests : Silent(q)}} = {}
  BY <1>3
<1>6. QED
  BY <1>1, <1>2, <1>4, <1>5 DEF Gate!Init, TurnsOf

\* The calls a step asks for and runs make the turns that the gate sees.
LEMMA SameTurns ==
  /\ UNCHANGED asked => AskedTurns' = AskedTurns
  /\ UNCHANGED ran => RanTurns' = RanTurns
  /\ UNCHANGED shown => ShownTurns' = ShownTurns
  /\ UNCHANGED thread => WaitsWith' = WaitsWith
BY DEF AskedTurns, RanTurns, ShownTurns, WaitsWith, TurnsOf, Asked, Executed, PendingTurn

\* A step that changes nothing the human sees.
LEMMA NothingPromised ==
  ASSUME UNCHANGED <<AskedTurns, WaitsWith, ShownTurns, NotTold, Executing, RanTurns>>
  PROVE  IsPromised
BY DEF IsPromised, Gate!vars, AskedTurns, WaitsWith, ShownTurns, NotTold, Executing,
       RanTurns

\* The agent stops at a turn that has not asked for anything.
LEMMA AsksForIt ==
  ASSUME NEW t \in Threads, WaitsWith[t] = NoTurn,
         NEW c \in Requests, c \notin AskedTurns,
         AskedTurns' = AskedTurns \cup {c}, WaitsWith' = [WaitsWith EXCEPT ![t] = c],
         NotTold' \in {NotTold, NotTold \cup {c}},
         UNCHANGED <<ShownTurns, Executing, RanTurns>>
  PROVE  IsPromised
<1>1. Gate!Ask(t)
  BY DEF Gate!Ask, AskedTurns, WaitsWith, ShownTurns, NotTold, Executing, RanTurns
<1>2. QED
  BY <1>1 DEF IsPromised, Gate!Next

\* The turn that waits is shown.
LEMMA ShowsIt ==
  ASSUME NEW t \in Threads, WaitsWith[t] # NoTurn,
         ShownTurns' = [ShownTurns EXCEPT ![t] = WaitsWith[t]],
         UNCHANGED <<AskedTurns, WaitsWith, NotTold, Executing, RanTurns>>
  PROVE  IsPromised
<1>1. Gate!Show(t)
  BY DEF Gate!Show, AskedTurns, WaitsWith, ShownTurns, NotTold, Executing, RanTurns
<1>2. QED
  BY <1>1 DEF IsPromised, Gate!Next

\* The turn that waits is settled, or given up, or none waits.
LEMMA GoesOn ==
  ASSUME NEW t \in Threads, WaitsWith' = [WaitsWith EXCEPT ![t] = NoTurn],
         Executing' = Executing \ {t}, t \in Executing => WaitsWith[t] # NoTurn,
         UNCHANGED <<AskedTurns, ShownTurns, NotTold, RanTurns>>
  PROVE  IsPromised
<1>1. CASE t \in Executing
  <2>1. Gate!Settle(t)
    BY <1>1
    DEF Gate!Settle, AskedTurns, WaitsWith, ShownTurns, NotTold, Executing, RanTurns
  <2>2. QED
    BY <2>1 DEF IsPromised, Gate!Next
<1>2. CASE t \notin Executing /\ WaitsWith[t] # NoTurn
  <2>0. Executing' = Executing
    BY <1>2
  <2>1. Gate!GiveUp(t)
    BY <1>2, <2>0
    DEF Gate!GiveUp, AskedTurns, WaitsWith, ShownTurns, NotTold, Executing, RanTurns
  <2>2. QED
    BY <2>1 DEF IsPromised, Gate!Next
<1>3. CASE t \notin Executing /\ WaitsWith[t] = NoTurn
  <2>1. WaitsWith' = WaitsWith /\ Executing' = Executing
    BY <1>3 DEF WaitsWith
  <2>2. QED
    BY <2>1, NothingPromised
<1>4. QED
  BY <1>1, <1>2, <1>3

\* The turn that waits is executed, which was shown or not told of.
LEMMA ExecutesIt ==
  ASSUME NEW t \in Threads, WaitsWith[t] # NoTurn, t \notin Executing,
         ShownTurns[t] = WaitsWith[t] \/ WaitsWith[t] \in NotTold,
         RanTurns' = RanTurns \cup {WaitsWith[t]}, Executing' = Executing \cup {t},
         UNCHANGED <<AskedTurns, WaitsWith, ShownTurns, NotTold>>
  PROVE  IsPromised
<1>1. Gate!Execute(t)
  BY DEF Gate!Execute, AskedTurns, WaitsWith, ShownTurns, NotTold, Executing, RanTurns
<1>2. QED
  BY <1>1 DEF IsPromised, Gate!Next

\* The agent fails on the threads of S.
LEMMA LosesThem ==
  ASSUME NEW S \in SUBSET Threads, Executing' = Executing \ S,
         NEW M, NotTold' = NotTold \cup M,
         \A c \in M : \E t \in S :
           c = WaitsWith[t] /\ c # NoTurn /\ ShownTurns[t] # c,
         UNCHANGED <<AskedTurns, WaitsWith, ShownTurns, RanTurns>>
  PROVE  IsPromised
<1> DEFINE hidden == {WaitsWith[t] : t \in {u \in S :
                        WaitsWith[u] # NoTurn /\ ShownTurns[u] # WaitsWith[u]}}
<1>1. M \in SUBSET hidden
  OBVIOUS
<1>2. NotTold' \in {NotTold \cup N : N \in SUBSET hidden}
  BY <1>1
<1>3. Gate!Lose
  BY <1>2
  DEF Gate!Lose, AskedTurns, WaitsWith, ShownTurns, NotTold, Executing, RanTurns
<1>4. QED
  BY <1>3 DEF IsPromised, Gate!Next

\* The turn that a thread waits with.
LEMMA WaitsWithIs ==
  ASSUME ServiceInv, OrderInv, NEW t \in Threads
  PROVE  /\ thread[t].next = "tools_executor" =>
              /\ WaitsWith[t] = thread[t].chan.question
              /\ WaitsWith[t] \in Requests /\ WaitsWith[t] # NoTurn
         /\ thread[t].next # "tools_executor" => WaitsWith[t] = NoTurn
<1>1. CASE thread[t].next = "tools_executor"
  BY <1>1, WhatWaits, ChannelAssumption DEF WaitsWith, PendingTurn, InterruptBefore
<1>2. CASE thread[t].next # "tools_executor"
  BY <1>2 DEF WaitsWith, PendingTurn, InterruptBefore
<1>3. QED
  BY <1>1, <1>2

\* An act of r leaves the other threads as they are for the gate, and decides alone
\* whether its own is executing.
LEMMA ExecutingIs ==
  ASSUME ServiceInv, NEW r \in Requests, Acts(r), Alone(r)
  PROVE  /\ \A u \in Threads \ {on[r]} :
              (u \in Executing' <=> u \in Executing) /\ WaitsWith'[u] = WaitsWith[u]
         /\ on[r] \in Executing <=>
              thread[on[r]].next = "tools_executor" /\ Active(r) /\ ran[r] # {}
         /\ on[r] \in Executing' <=>
              thread'[on[r]].next = "tools_executor" /\ Active(r)' /\ ran'[r] # {}
         /\ Executing \subseteq Threads /\ Executing' \subseteq Threads
<1>1. /\ UNCHANGED on /\ on[r] \in Threads
      /\ \A q \in Requests \ {r} : pc'[q] = pc[q] /\ ran'[q] = ran[q]
      /\ \A t \in Threads \ {on[r]} : thread'[t] = thread[t]
  BY OthersStay DEF ServiceInv, TypeOK
<1>2. \A q \in Requests \ {r} : /\ Active(q)' <=> Active(q)
                                /\ on[q] = on[r] => ~Active(q)
  BY <1>1 DEF Alone, Active
<1>3. \A u \in Threads \ {on[r]} : u \in Executing' <=> u \in Executing
  BY <1>1, <1>2 DEF Executing
<1>4. \A u \in Threads \ {on[r]} : WaitsWith'[u] = WaitsWith[u]
  BY <1>1 DEF WaitsWith, PendingTurn
<1>5. on[r] \in Executing <=>
        thread[on[r]].next = "tools_executor" /\ Active(r) /\ ran[r] # {}
  BY <1>1, <1>2 DEF Executing, InterruptBefore
<1>6. on[r] \in Executing' <=>
        thread'[on[r]].next = "tools_executor" /\ Active(r)' /\ ran'[r] # {}
  BY <1>1, <1>2 DEF Executing, InterruptBefore
<1>7. QED
  BY <1>3, <1>4, <1>5, <1>6 DEF Executing

\* An act of r may leave only its own calls untold.
LEMMA NotToldIs ==
  ASSUME ServiceInv, NEW r \in Requests, Acts(r), Begun(r)
  PROVE  /\ ~Silent(r)' => NotTold' = NotTold
         /\ Silent(r)' => NotTold' = NotTold \cup TurnsOf(asked'[r])
<1>1. pc[r] # "done"
  BY DEF Acts, Arrive, Waits, Leaves, Begins, Runs, Puts, Shows, Active
<1>2. ~Silent(r)
  BY <1>1 DEF Silent, Begun
<1>3. \A q \in Requests \ {r} : asked'[q] = asked[q] /\ (Silent(q)' <=> Silent(q))
  BY OthersStay DEF Silent
<1> DEFINE untold == UNION {asked[q] : q \in {p \in Requests : Silent(p)}}
           later  == UNION {asked'[q] : q \in {p \in Requests : Silent(p)'}}
<1>4. \A x : x \in untold <=> \E q \in Requests : Silent(q) /\ x \in asked[q]
  OBVIOUS
<1>5. \A x : x \in later <=> \E q \in Requests : Silent(q)' /\ x \in asked'[q]
  OBVIOUS
<1> HIDE DEF untold, later
<1>6. \A x : x \in later <=> x \in untold \/ (Silent(r)' /\ x \in asked'[r])
  BY <1>2, <1>3, <1>4, <1>5
<1>7. NotTold = TurnsOf(untold) /\ NotTold' = TurnsOf(later)
  BY DEF NotTold, TurnsOf, untold, later
<1>8. CASE ~Silent(r)'
  <2>1. later = untold
    BY <1>6, <1>8
  <2>2. QED
    BY <1>7, <1>8, <2>1
<1>9. CASE Silent(r)'
  <2>1. later = untold \cup asked'[r]
    BY <1>6, <1>9
  <2>2. QED
    BY <1>7, <1>9, <2>1 DEF TurnsOf
<1>10. QED
  BY <1>8, <1>9

\* When nothing that concerns the gate changes on the thread of r.
LEMMA StaysAsItWas ==
  ASSUME ServiceInv, NEW r \in Requests, Acts(r), Alone(r), Begun(r), ~Silent(r)',
         UNCHANGED <<asked, shown, ran>>,
         thread'[on[r]].next = thread[on[r]].next,
         thread'[on[r]].chan.messages = thread[on[r]].chan.messages,
         ran[r] = {} \/ (Active(r) /\ Active(r)')
  PROVE  IsPromised
<1>1. UNCHANGED <<AskedTurns, ShownTurns, RanTurns>> /\ NotTold' = NotTold
  BY SameTurns, NotToldIs
<1>2. Executing' = Executing
  BY ExecutingIs
<1>3. \A u \in Threads : PendingTurn(thread[u])' = PendingTurn(thread[u])
  <2>1. \A u \in Threads \ {on[r]} : thread'[u] = thread[u]
    BY OthersStay
  <2>2. QED
    BY <2>1 DEF PendingTurn, LastMessage
<1>4. WaitsWith' = WaitsWith
  BY <1>3 DEF WaitsWith
<1>5. QED
  BY <1>1, <1>2, <1>4, NothingPromised

\* Before the tools no call of the turn has run; what has run is settled.
LEMMA NotRunYet ==
  ASSUME ServiceInv, OrderInv, NEW r \in Requests, pc[r] = "running",
         Begun(r), InProgress(r), Unasked(run[r].cp.chan.question, Asked)
  PROVE  ran[r] = {}
<1>1. \A x \in ran[r] : x.turn = run[r].cp.chan.question /\ ~Unasked(x.turn, Asked)
  BY RanWasAsked DEF InProgress, Active
<1>2. QED
  BY <1>1

\* A request that ends may lose its calls.
LEMMA LeavesPromised ==
  ASSUME ApprovalInv, NEW r \in Requests, NEW rep, Leaves(r, rep), Alone(r)
  PROVE  IsPromised
<1>1. Acts(r) /\ Active(r) /\ End(r, rep) /\ rep.status \in {"error", "completed"}
      /\ UNCHANGED <<thread, on, shown, asked, ran>>
  BY DEF Leaves, Acts
<1>2. pc'[r] = "done" /\ reply'[r] = rep /\ Begun(r) /\ on[r] \in Threads
  BY <1>1, EndFacts DEF ApprovalInv, ServiceInv, TypeOK, CallInv
<1>3. Silent(r)' /\ ~Active(r)'
  BY <1>1, <1>2 DEF Silent, Active
<1>4. NotTold' = NotTold \cup TurnsOf(asked[r])
  BY <1>1, <1>2, <1>3, NotToldIs DEF ApprovalInv
<1>5. Executing' = Executing \ {on[r]}
  BY <1>1, <1>3, ExecutingIs DEF ApprovalInv
<1>6. ASSUME NEW c \in TurnsOf(asked[r])
      PROVE  c = WaitsWith[on[r]] /\ c # NoTurn /\ ShownTurns[on[r]] # c
  <2>1. PICK x \in asked[r] : c = x.turn
    BY DEF TurnsOf
  <2>2. WaitsAt(on[r], c) /\ shown[on[r]].turn # c
    BY <1>1, <2>1 DEF ApprovalInv, CallInv, InProgress, ShownInv
  <2>3. QED
    BY <1>2, <2>2, WaitsWithIs DEF ApprovalInv, WaitsAt, ShownTurns
<1>7. UNCHANGED <<AskedTurns, WaitsWith, ShownTurns, RanTurns>>
  BY <1>1, SameTurns
<1> DEFINE S == {on[r]}
           M == TurnsOf(asked[r])
<1>8. /\ S \in SUBSET Threads /\ Executing' = Executing \ S
      /\ NotTold' = NotTold \cup M
      /\ \A c \in M : \E t \in S : c = WaitsWith[t] /\ c # NoTurn /\ ShownTurns[t] # c
  BY <1>2, <1>4, <1>5, <1>6
<1> HIDE DEF S, M
<1>9. QED
  BY <1>7, <1>8, LosesThem

\* A crash may lose everything.
LEMMA CrashPromised ==
  ASSUME ApprovalInv, Crash
  PROVE  IsPromised
<1>1. /\ UNCHANGED <<thread, on, shown, asked, ran>>
      /\ \A r \in Requests : ~Active(r)'
      /\ \A r \in Requests : Active(r) => reply'[r].status = "lost"
      /\ \A r \in Requests : ~Active(r) => reply'[r] = reply[r]
  BY DEF Crash, NoReply, Active
<1> DEFINE M == TurnsOf(UNION {asked[r] : r \in {q \in Requests : Active(q)}})
<1>2. \A r \in Requests : Silent(r)' <=> Silent(r) \/ Active(r)
  <2>1. \A r \in Requests : Active(r) => ~Silent(r)
    BY DEF ApprovalInv, CallInv, Begun, Silent, Active
  <2>2. QED
    BY <1>1, <2>1 DEF Silent
<1>3. NotTold' = NotTold \cup M
  <2> DEFINE untold == UNION {asked[q] : q \in {p \in Requests : Silent(p)}}
             more   == UNION {asked[q] : q \in {p \in Requests : Active(p)}}
             later  == UNION {asked'[q] : q \in {p \in Requests : Silent(p)'}}
  <2>1. \A x : x \in untold <=> \E q \in Requests : Silent(q) /\ x \in asked[q]
    OBVIOUS
  <2>2. \A x : x \in more <=> \E q \in Requests : Active(q) /\ x \in asked[q]
    OBVIOUS
  <2>3. \A x : x \in later <=> \E q \in Requests : Silent(q)' /\ x \in asked'[q]
    OBVIOUS
  <2>4. NotTold = TurnsOf(untold) /\ NotTold' = TurnsOf(later) /\ M = TurnsOf(more)
    BY DEF NotTold, TurnsOf
  <2> HIDE DEF untold, more, later
  <2>5. later = untold \cup more
    BY <1>1, <1>2, <2>1, <2>2, <2>3
  <2> HIDE DEF M
  <2>6. QED
    BY <2>4, <2>5 DEF TurnsOf
<1>4. Executing' = Executing \ Threads
  BY <1>1 DEF Executing
<1>5. ASSUME NEW c \in M
      PROVE  \E t \in Threads : c = WaitsWith[t] /\ c # NoTurn /\ ShownTurns[t] # c
  <2>1. PICK r \in Requests : Active(r) /\ \E x \in asked[r] : c = x.turn
    BY DEF TurnsOf
  <2>2. PICK x \in asked[r] : c = x.turn
    BY <2>1
  <2>3. on[r] \in Threads /\ WaitsAt(on[r], c) /\ shown[on[r]].turn # c
    BY <2>1, <2>2
    DEF ApprovalInv, CallInv, InProgress, ShownInv, ServiceInv, TypeOK
  <2>4. QED
    BY <2>3, WaitsWithIs DEF ApprovalInv, WaitsAt, ShownTurns
<1>6. UNCHANGED <<AskedTurns, WaitsWith, ShownTurns, RanTurns>>
  BY <1>1, SameTurns
<1> HIDE DEF M
<1>7. QED
  BY <1>3, <1>4, <1>5, <1>6, LosesThem

\* A node executes the turn that waits, or does nothing for the gate.
LEMMA RunsPromised ==
  ASSUME Calling, ApprovalInv, NEW r \in Requests, NEW c, Runs(r, c), Alone(r)
  PROVE  IsPromised
<1> DEFINE t == on[r]
<1>1. /\ Acts(r) /\ HasRun(r, c) /\ ~Paused(r) /\ pc[r] = "running"
      /\ UNCHANGED <<thread, on, pc, reply, shown, asked>>
  BY RunsFacts DEF Runs, Acts, ApprovalInv
<1>2. /\ Begun(r) /\ t \in Threads /\ Active(r) /\ Active(r)' /\ ~Silent(r)'
      /\ reply[r].status = "none"
  BY <1>1 DEF ApprovalInv, ServiceInv, TypeOK, CallInv, Active, Begun, Silent
<1>3. CASE run[r].cp.next # "tools_executor"
  <2>1. \A q \in Requests : ran'[q] = ran[q]
    BY <1>1, <1>3 DEF HasRun
  <2>2. ran' = ran
    BY <1>3 DEF Runs
  <2>3. QED
    BY <1>1, <1>2, <2>2, StaysAsItWas DEF ApprovalInv
<1>4. CASE run[r].cp.next = "tools_executor"
  <2>1. ~run[r].stepped
    BY <1>1, <1>4 DEF HasRun
  <2>2. ran[r] = {} /\ asked[r] = {}
    BY <1>1, <1>2, <2>1 DEF Begun
  <2>3. /\ ran'[r] = Calls(thread[t].chan) /\ thread[t].next = "tools_executor"
    BY <1>4, RunsWaiting DEF ApprovalInv
  <2>4. /\ Calls(thread[t].chan) # {} /\ Calls(thread[t].chan) \subseteq Asked
        /\ \A x \in Calls(thread[t].chan) : x.turn = thread[t].chan.question
        /\ PendingAction(thread[t].chan) \in Calls(thread[t].chan)
    BY <1>2, <2>3, WhatWaits DEF ApprovalInv
  <2>5. WaitsWith[t] = thread[t].chan.question /\ WaitsWith[t] # NoTurn
    BY <1>2, <2>3, WaitsWithIs DEF ApprovalInv
  <2>6. t \notin Executing /\ Executing' = Executing \cup {t}
    BY <1>1, <1>2, <2>2, <2>3, <2>4, ExecutingIs DEF ApprovalInv
  <2>7. RanTurns' = RanTurns \cup {WaitsWith[t]}
    <3>1. \A q \in Requests \ {r} : ran'[q] = ran[q]
      BY <1>1 DEF HasRun
    <3>2. Executed' = Executed \cup ran'[r]
      BY <2>2, <3>1 DEF Executed
    <3>3. TurnsOf(ran'[r]) = {WaitsWith[t]}
      BY <2>3, <2>4, <2>5 DEF TurnsOf
    <3>4. TurnsOf(Executed') = TurnsOf(Executed) \cup TurnsOf(ran'[r])
      BY <3>2 DEF TurnsOf
    <3>5. RanTurns' = TurnsOf(Executed') /\ RanTurns = TurnsOf(Executed)
      BY DEF RanTurns, TurnsOf
    <3>6. QED
      BY <3>3, <3>4, <3>5
  <2>8. ShownTurns[t] = WaitsWith[t] \/ WaitsWith[t] \in NotTold
    <3>1. PICK x \in Calls(thread[t].chan) : TRUE
      BY <2>4
    <3>2. PICK q \in Requests : x \in asked[q]
      BY <2>4, <3>1 DEF Asked
    <3>3. x.turn = WaitsWith[t] /\ WaitsAt(t, x.turn) /\ on[x.turn] = t
      BY <1>2, <2>3, <2>4, <2>5, <3>1, WaitsHere DEF WaitsAt, ApprovalInv
    <3>4. on[q] = t /\ q # r
      BY <2>2, <3>2, <3>3 DEF ApprovalInv, CallInv, AsksHere
    <3>5. pc[q] = "done"
      <4>1. pc[q] # "idle"
        BY <3>2 DEF ApprovalInv, CallInv, Begun, NotBegun
      <4>2. QED
        BY <3>4, <4>1 DEF Alone, Active
    <3>6. CASE reply[q].status = "pending"
      <4>1. shown[t] = PendingAction(thread[t].chan)
        BY <1>2, <3>2, <3>3, <3>6 DEF ApprovalInv, CallInv, Tells
      <4>2. QED
        BY <1>2, <2>4, <2>5, <4>1 DEF ShownTurns
    <3>7. CASE reply[q].status # "pending"
      <4>1. Silent(q)
        BY <3>5, <3>7 DEF ApprovalInv, CallInv, Begun, Silent
      <4>2. QED
        BY <3>2, <3>3, <4>1 DEF NotTold, TurnsOf
    <3>8. QED
      BY <3>6, <3>7
  <2>9. UNCHANGED <<AskedTurns, WaitsWith, ShownTurns, NotTold>>
    BY <1>1, <1>2, SameTurns, NotToldIs DEF ApprovalInv
  <2> HIDE DEF t
  <2>10. QED
    BY <1>2, <2>5, <2>6, <2>7, <2>8, <2>9, ExecutesIt
<1>5. QED
  BY <1>3, <1>4

\* A checkpoint before the tools has calls of its turn, if the models call.
LEMMA CallsOfOrdered ==
  ASSUME Calling, NEW cp, NEW calls, ToolTurn(cp), Ordered(cp, calls),
         cp.next = "tools_executor"
  PROVE  Calls(cp.chan) # {} /\ LastMessage(cp.chan).turn = cp.chan.question
<1> DEFINE last == LastMessage(cp.chan).calls
<1>1. LastMessage(cp.chan).turn = cp.chan.question /\ last \in ToolCalls
  BY DEF ToolTurn, Ordered
<1>2. last \in Seq(Tools) /\ last # <<>>
  BY <1>1, ChannelAssumption DEF Calling
<1>3. 1 \in DOMAIN last
  <2> HIDE DEF last
  <2>1. Len(last) # 0 /\ Len(last) \in Nat
    BY <1>2, EmptySeq
  <2>2. QED
    BY <1>2, <2>1
<1>4. QED
  BY <1>1, <1>3 DEF Calls

\* A put lets the turn wait, settles the one that waits, or gives it up.
LEMMA PutsPromised ==
  ASSUME Calling, ApprovalInv, NEW r \in Requests, Puts(r), Alone(r)
  PROVE  IsPromised
<1> DEFINE t  == on[r]
           cp == thread'[t]
           turn == cp.chan.question
<1>1. /\ Acts(r) /\ HasStored(r) /\ pc[r] = "running" /\ asked[r] = {}
      /\ HasPut(r) \/ End(r, ErrorOf(r))
      /\ UNCHANGED <<on, shown, ran>>
  BY StoreFacts, TailFacts, NotAskedYet DEF Puts, Acts, ApprovalInv, CallInv
<1>2. /\ Begun(r) /\ InProgress(r) /\ t \in Threads /\ Active(r)
      /\ reply[r].status = "none"
  BY <1>1 DEF ApprovalInv, ServiceInv, TypeOK, CallInv, Active, Begun
<1>3. UNCHANGED <<ShownTurns, RanTurns>>
  BY <1>1, SameTurns
<1>4. /\ cp.chan.question = run[r].cp.chan.question /\ Ordered(cp, Asked)
      /\ cp.next = "tools_executor" =>
           /\ thread[t].next = "tools_caller"
           /\ Unasked(turn, Asked) /\ turn \in Requests
  BY <1>1, HeadIsOrdered DEF ApprovalInv
<1>5. CASE cp.next # "tools_executor"
  <2>1. asked' = asked
    <3>1. \A q \in Requests : asked'[q] = asked[q]
      BY <1>1, <1>5 DEF HasStored
    <3>2. Head(run[r].unstored).next \notin InterruptBefore
      BY <1>1, <1>5 DEF HasStored, InterruptBefore
    <3>3. QED
      BY <3>2 DEF Puts, Store
  <2>2. NotTold' = NotTold /\ AskedTurns' = AskedTurns
    <3>1. TurnsOf(asked'[r]) = {}
      BY <1>1, <2>1 DEF TurnsOf
    <3>2. QED
      BY <1>1, <1>2, <2>1, <3>1, NotToldIs, SameTurns DEF ApprovalInv
  <2>3. Executing' = Executing \ {t}
    BY <1>1, <1>5, ExecutingIs DEF ApprovalInv
  <2>4. WaitsWith' = [WaitsWith EXCEPT ![t] = NoTurn]
    <3>1. WaitsWith'[t] = NoTurn
      BY <1>1, <1>2, <1>5 DEF WaitsWith, PendingTurn, InterruptBefore
    <3>2. \A u \in Threads \ {t} : WaitsWith'[u] = WaitsWith[u]
      BY <1>1, ExecutingIs DEF ApprovalInv
    <3>3. QED
      BY <1>2, <3>1, <3>2 DEF WaitsWith
  <2>5. t \in Executing => WaitsWith[t] # NoTurn
    BY <1>1, <1>2, ExecutingIs, WaitsWithIs DEF ApprovalInv
  <2> HIDE DEF t
  <2>6. QED
    BY <1>2, <1>3, <2>2, <2>3, <2>4, <2>5, GoesOn
<1>6. CASE cp.next = "tools_executor"
  <2>1. /\ cp = Head(run[r].unstored) /\ \A x \in Calls(cp.chan) : x.turn = turn
        /\ asked'[r] = Calls(cp.chan)
        /\ \A q \in Requests \ {r} : asked'[q] = asked[q]
    BY <1>1, <1>6 DEF HasStored
  <2>2. Calls(cp.chan) # {} /\ LastMessage(cp.chan).turn = turn
    <3>1. cp \in Copies(run[r])
      <4>1. run[r].unstored \in Seq(Checkpoint) /\ cp = run[r].unstored[1]
        BY <1>1 DEF ApprovalInv, ServiceInv, TypeOK, Run, HasStored
      <4>2. 1 \in DOMAIN run[r].unstored
        BY <1>1, <4>1 DEF HasStored
      <4>3. QED
        BY <4>1, <4>2 DEF Copies
    <3>2. ToolTurn(cp)
      BY <3>1 DEF ApprovalInv, ServiceInv, RunInv, GoodRun, CheckpointInv
    <3> HIDE DEF cp
    <3>3. QED
      BY <1>4, <1>6, <3>2, CallsOfOrdered
  <2>3. TurnsOf(asked'[r]) = {turn}
    BY <2>1, <2>2 DEF TurnsOf
  <2>4. AskedTurns' = AskedTurns \cup {turn}
    <3>1. Asked' = Asked \cup asked'[r]
      BY <1>1, <2>1 DEF Asked
    <3>2. TurnsOf(Asked') = TurnsOf(Asked) \cup TurnsOf(asked'[r])
      BY <3>1 DEF TurnsOf
    <3>3. AskedTurns' = TurnsOf(Asked') /\ AskedTurns = TurnsOf(Asked)
      BY DEF AskedTurns, TurnsOf
    <3>4. QED
      BY <2>3, <3>2, <3>3
  <2>5. turn \in Requests /\ turn \notin AskedTurns
    BY <1>4, <1>6 DEF AskedTurns, TurnsOf, Unasked
  <2>6. NotTold' \in {NotTold, NotTold \cup {turn}}
    BY <1>1, <1>2, <2>3, NotToldIs DEF ApprovalInv
  <2>7. WaitsWith[t] = NoTurn
    BY <1>2, <1>4, <1>6, WaitsWithIs DEF ApprovalInv
  <2>8. WaitsWith' = [WaitsWith EXCEPT ![t] = turn]
    <3>1. WaitsWith'[t] = turn
      BY <1>1, <1>2, <1>6, <2>2 DEF WaitsWith, PendingTurn, InterruptBefore
    <3>2. \A u \in Threads \ {t} : WaitsWith'[u] = WaitsWith[u]
      BY <1>1, ExecutingIs DEF ApprovalInv
    <3>3. QED
      BY <1>2, <3>1, <3>2 DEF WaitsWith
  <2>9. Executing' = Executing
    <3>1. ran'[r] = {}
      BY <1>1, <1>2, <1>4, <1>6, NotRunYet DEF ApprovalInv
    <3>2. thread[t].next # "tools_executor"
      BY <1>4, <1>6
    <3>3. QED
      BY <1>1, <3>1, <3>2, ExecutingIs DEF ApprovalInv
  <2> HIDE DEF t, turn
  <2>10. QED
    BY <1>2, <1>3, <2>4, <2>5, <2>6, <2>7, <2>8, <2>9, AsksForIt
<1>7. QED
  BY <1>5, <1>6

\* Whatever r does is a step of the gate, or none for it.
LEMMA ActPromised ==
  ASSUME Serial, Calling, ApprovalInv, NEW r \in Requests, Acts(r)
  PROVE  IsPromised
<1>0. /\ Alone(r) /\ on[r] \in Threads /\ Begun(r) /\ InProgress(r) /\ AsksHere(r)
      /\ DOMAIN pc = Requests
  BY ActsAlone DEF ApprovalInv, ServiceInv, TypeOK, CallInv
<1>1. CASE Arrive(r)
  <2>1. pc[r] = "idle" /\ UNCHANGED <<thread, on, reply, shown, asked, ran>>
    BY <1>1 DEF Arrive
  <2>2. ran[r] = {} /\ reply[r].status = "none"
    BY <1>0, <2>1 DEF Begun, NotBegun
  <2>3. ~Silent(r)'
    BY <2>1, <2>2 DEF Silent
  <2>4. QED
    BY <1>0, <2>1, <2>2, <2>3, StaysAsItWas DEF ApprovalInv
<1>2. CASE Waits(r)
  <2>1. /\ Active(r) /\ Active(r)'
        /\ UNCHANGED <<thread, on, reply, shown, asked, ran>>
    BY <1>0, <1>2 DEF Waits, Active
  <2>2. ~Silent(r)'
    BY <1>0, <2>1 DEF Silent, Begun, Active
  <2>3. QED
    BY <1>0, <2>1, <2>2, StaysAsItWas DEF ApprovalInv
<1>3. ASSUME NEW rep, Leaves(r, rep) PROVE IsPromised
  BY <1>0, <1>3, LeavesPromised
<1>4. ASSUME NEW cp, Begins(r, cp) PROVE IsPromised
  <2>1. HasBegun(r, cp)
    BY <1>4, BeginsFacts DEF ApprovalInv
  <2>2. /\ pc[r] = "begin" /\ pc'[r] = "running"
        /\ UNCHANGED <<on, reply, shown, asked, ran>>
    BY <2>1 DEF HasBegun
  <2>3. /\ thread'[on[r]].next = thread[on[r]].next
        /\ thread'[on[r]].chan.messages = thread[on[r]].chan.messages
    BY <2>1 DEF HasBegun
  <2>4. ran[r] = {} /\ ~Silent(r)'
    BY <1>0, <2>2 DEF Begun, NotBegun, Silent
  <2>5. QED
    BY <1>0, <2>2, <2>3, <2>4, StaysAsItWas DEF ApprovalInv
<1>5. ASSUME NEW c, Runs(r, c) PROVE IsPromised
  BY <1>0, <1>5, RunsPromised
<1>6. CASE Puts(r)
  BY <1>0, <1>6, PutsPromised
<1>7. ASSUME NEW p, Shows(r, p) PROVE IsPromised
  <2>1. /\ pc[r] = "getState" /\ pc'[r] = "done" /\ reply'[r].status = "pending"
        /\ shown' = [shown EXCEPT ![on[r]] = p] /\ UNCHANGED <<thread, on, asked, ran>>
    BY <1>7, ShowsFacts DEF Shows, ApprovalInv
  <2>2. WaitsAt(on[r], p.turn) /\ p.turn = run[r].cp.chan.question
    BY <1>7, LooksItUp DEF ApprovalInv
  <2>3. WaitsWith[on[r]] = p.turn /\ WaitsWith[on[r]] # NoTurn
    BY <1>0, <2>2, WaitsWithIs DEF ApprovalInv, WaitsAt
  <2>4. ran[r] = {}
    <3>1. SUFFICES ASSUME NEW x \in ran[r] PROVE FALSE
      OBVIOUS
    <3>2. WaitsAt(on[r], x.turn)
      BY <1>0, <2>1, <2>2 DEF InProgress, Active
    <3>3. reply[r].status = "none"
      BY <1>0, <2>1 DEF Begun
    <3>4. QED
      BY <1>0, <2>1, <3>2, <3>3 DEF ApprovalInv, CallInv, Settles
  <2>5. Executing' = Executing
    <3>1. ServiceInv /\ ran'[r] = {} /\ on' = on
      BY <2>1, <2>4 DEF ApprovalInv
    <3>2. on[r] \notin Executing /\ on[r] \notin Executing'
      BY <1>0, <2>4, <3>1, ExecutingIs
    <3>3. /\ \A u \in Threads \ {on[r]} : u \in Executing' <=> u \in Executing
          /\ Executing \subseteq Threads /\ Executing' \subseteq Threads
      BY <1>0, <3>1, ExecutingIs
    <3>4. QED
      BY <3>2, <3>3
  <2>6. NotTold' = NotTold
    BY <1>0, <2>1, NotToldIs DEF ApprovalInv, Silent
  <2>7. ShownTurns' = [ShownTurns EXCEPT ![on[r]] = WaitsWith[on[r]]]
    <3>1. DOMAIN shown = Threads
      BY DEF ApprovalInv, ServiceInv, TypeOK
    <3>2. QED
      BY <1>0, <2>1, <2>3, <3>1 DEF ShownTurns
  <2>8. UNCHANGED <<AskedTurns, WaitsWith, RanTurns>>
    BY <2>1, SameTurns
  <2>9. QED
    BY <1>0, <2>3, <2>5, <2>6, <2>7, <2>8, ShowsIt
<1>8. QED
  BY <1>1, <1>2, <1>3, <1>4, <1>5, <1>6, <1>7 DEF Acts

\* With one request at a time on a thread, and models that ask for a call when they
\* are asked to, the agent service implements the gate its clients are promised,
\* whatever nodes, puts and look-ups fail and wherever the process crashes: also
\* between a tool and the checkpoint that tells of it.
THEOREM ApprovalIsKept ==
  ASSUME Serial, Calling
  PROVE  Spec => KeepsApproval
<1>1. ApprovalInv /\ [Next]_vars => [Gate!Next]_(Gate!vars)
  <2> SUFFICES ASSUME ApprovalInv, [Next]_vars
               PROVE  IsPromised
    BY DEF IsPromised
  <2>1. CASE UNCHANGED vars
    <3>1. UNCHANGED <<AskedTurns, WaitsWith, ShownTurns, RanTurns>>
      BY <2>1, SameTurns DEF vars
    <3>2. UNCHANGED <<NotTold, Executing>>
      BY <2>1 DEF vars, NotTold, Executing, TurnsOf, Silent, Active
    <3>3. QED
      BY <3>1, <3>2, NothingPromised
  <2>2. QED
    BY <2>1, StepsAre, ActPromised, CrashPromised
<1>2. QED
  BY <1>1, InitIsPromised, ApprovalInvariant, PTL DEF Spec, KeepsApproval, Gate!Spec

=============================================================================
