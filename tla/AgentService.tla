----------------------------- MODULE AgentService -----------------------------
(***************************************************************************)
(* AgentService (agent.service.ts) driving the agent graph for many         *)
(* clients: the REST calls run, resume and reject, and the WebSocket calls  *)
(* stream and streamResume that chat.gateway.ts makes.                      *)
(*                                                                         *)
(* A request is an async function.  Between two awaits other requests may   *)
(* run, on the same thread as well: nothing locks a thread.  A graph run    *)
(* loads the latest checkpoint of its thread and works on a copy of its     *)
(* own.  After every node it hands a checkpoint to the saver and goes on:   *)
(* the checkpoints are put one after another behind the running nodes, and  *)
(* only the end of the run waits for them, so that a tool may have run of   *)
(* which no checkpoint tells.  Of two runs on a thread the last to put      *)
(* wins.  The process may crash between two actions; what was put is in     *)
(* Redis and survives.                                                      *)
(***************************************************************************)
EXTENDS AgentChannels, FiniteSets

CONSTANTS
  Threads,        \* thread ids
  Kinds,          \* the calls clients make, a subset of AllKinds
  FailurePoints,  \* the nodes and awaits that may throw
  MaxInFlight,    \* bound: requests a thread has in progress at once
  MaxUnstored,    \* bound: checkpoints a run has handed over and not yet put
  MaxCrashes      \* bound: crashes of the process

VARIABLES
  thread,    \* thread id -> the latest checkpoint
  kind,      \* request -> the call it makes, fixed from the start
  on,        \* request -> its thread, fixed from the start
  pc,        \* request -> where it is suspended
  run,       \* request -> the locals of its graph run
  reply,     \* request -> what its client was answered
  memory,    \* what addMessage was given: pairs of a role and a turn
  shown,     \* history: thread -> the pending action last reported
  approved,  \* history: request -> what was shown when the request came
  asked,     \* history: request -> the calls it left waiting for approval
  ran,       \* history: request -> the calls it executed
  crashes    \* history: crashes so far

vars == <<thread, kind, on, pc, run, reply, memory, shown, approved, asked,
          ran, crashes>>

ChatKinds   == {"run", "stream"}
RejectKinds == {"reject", "wsReject"}
WsKinds     == {"stream", "wsApprove", "wsReject"}
AllKinds    == {"run", "resume", "reject"} \cup WsKinds

Awaits == {"prompt", "begin", "getState", "record"}

ASSUME ServiceAssumption ==
  /\ Kinds \subseteq AllKinds
  /\ FailurePoints \subseteq Nodes \cup Awaits \cup {"put"}
  /\ MaxUnstored \in Nat \ {0}

\* A stored state of a thread: the channels, the node to run next, and, for
\* the properties only, how often the generator has run in this turn.
Checkpoint == [chan : Channels, next : Nodes \cup {END}, gens : Nat]

EmptyThread == [chan |-> EmptyChannels, next |-> END, gens |-> 0]

\* The copy a run works on, the checkpoints it has not put yet, and the locals of
\* stream: the merged node outputs, and whether a step was sent.
Run == [cp : Checkpoint, unstored : Seq(Checkpoint),
        answer : Answer, sources : Turn, stepped : BOOLEAN]

NullRun == [cp |-> EmptyThread, unstored |-> <<>>,
            answer |-> NoAnswer, sources |-> NoTurn, stepped |-> FALSE]

Reply == [status : {"none", "completed", "pending", "error", "lost"},
          answer : Answer, sources : Turn, steps : SUBSET Turn,
          shown : Pending, stepped : BOOLEAN]

NoReply == [status |-> "none", answer |-> NoAnswer, sources |-> NoTurn,
            steps |-> {}, shown |-> NoPending, stepped |-> FALSE]

Active(r) == pc[r] \notin {"idle", "done"}

\* The calls of the last message, each named by its turn and its tool.
Calls(c) == {[turn |-> LastMessage(c).turn, tool |-> LastMessage(c).calls[i]] :
               i \in DOMAIN LastMessage(c).calls}

TypeOK ==
  /\ thread \in [Threads -> Checkpoint]
  /\ kind \in [Requests -> Kinds]
  /\ on \in [Requests -> Threads]
  /\ pc \in [Requests -> {"idle", "running", "done"} \cup Awaits]
  /\ run \in [Requests -> Run]
  /\ reply \in [Requests -> Reply]
  /\ memory \subseteq {"user", "assistant"} \X Requests
  /\ shown \in [Threads -> Pending]
  /\ approved \in [Requests -> Pending]
  /\ asked \in [Requests -> SUBSET Pending]
  /\ ran \in [Requests -> SUBSET Pending]
  /\ crashes \in Nat

Init ==
  /\ thread = [t \in Threads |-> EmptyThread]
  /\ kind \in [Requests -> Kinds]
  /\ on \in [Requests -> Threads]
  /\ pc = [r \in Requests |-> "idle"]
  /\ run = [r \in Requests |-> NullRun]
  /\ reply = [r \in Requests |-> NoReply]
  /\ memory = {}
  /\ shown = [t \in Threads |-> NoPending]
  /\ approved = [r \in Requests |-> NoPending]
  /\ asked = [r \in Requests |-> {}]
  /\ ran = [r \in Requests |-> {}]
  /\ crashes = 0

-----------------------------------------------------------------------------

\* A client calls an endpoint or sends a chat event.
Arrive(r) ==
  /\ pc[r] = "idle"
  /\ Cardinality({q \in Requests : Active(q) /\ on[q] = on[r]}) < MaxInFlight
  /\ pc' = [pc EXCEPT ![r] = IF kind[r] \in ChatKinds THEN "prompt" ELSE "begin"]
  /\ approved' = [approved EXCEPT ![r] = shown[on[r]]]
  /\ UNCHANGED <<thread, kind, on, run, reply, memory, shown, asked, ran, crashes>>

\* The request ends with an answer for its client; its locals are gone.
End(r, answer) ==
  /\ pc' = [pc EXCEPT ![r] = "done"]
  /\ run' = [run EXCEPT ![r] = NullRun]
  /\ reply' = [reply EXCEPT ![r] = answer]

\* An await throws: a REST call answers with an HTTP error, the gateway emits
\* agent:error.
Fail(r, point) ==
  /\ point \in FailurePoints
  /\ End(r, [NoReply EXCEPT !.status = "error", !.stepped = run[r].stepped])
  /\ UNCHANGED <<thread, kind, on, shown, approved, asked, ran, crashes>>

\* constructFinalPrompt: the question enters the memory of the user, also when
\* something after that throws.
BuildPrompt(r) ==
  /\ pc[r] = "prompt"
  /\ \/ /\ memory' = memory \cup {<<"user", r>>}
        /\ pc' = [pc EXCEPT ![r] = "begin"]
        /\ UNCHANGED <<thread, kind, on, run, reply, shown, approved, asked,
                       ran, crashes>>
     \/ /\ memory' \in {memory, memory \cup {<<"user", r>>}}
        /\ Fail(r, "prompt")

\* The checkpoint a graph run starts from: new input restarts the thread at the
\* planner whatever it was waiting for, a Command continues where it stopped.
Started(k, cp, r) ==
  IF k \in ChatKinds
    THEN [chan |-> FreshInput(cp.chan, r), next |-> "planner", gens |-> 0]
    ELSE [cp EXCEPT !.chan = CommandInput(@, k \in RejectKinds)]

\* graph.invoke or graph.stream loads the thread.  New input is the first
\* checkpoint to put; a Command makes none, its update is a write that the saver
\* keeps with the checkpoint it was loaded from.
Begin(r) ==
  /\ pc[r] = "begin"
  /\ \/ LET cp   == Started(kind[r], thread[on[r]], r)
            chat == kind[r] \in ChatKinds
        IN /\ run' = [run EXCEPT ![r] =
                        [NullRun EXCEPT !.cp = cp,
                                        !.unstored = IF chat THEN <<cp>> ELSE <<>>]]
           /\ thread' = IF chat THEN thread ELSE [thread EXCEPT ![on[r]] = cp]
           /\ pc' = [pc EXCEPT ![r] = "running"]
           /\ UNCHANGED <<kind, on, reply, memory, shown, approved, asked, ran,
                          crashes>>
     \/ Fail(r, "begin") /\ UNCHANGED memory

\* Mutated: the graph stops after the tools ran.
InterruptBeforeResult == {"tools_result"}

\* interruptBefore of the compiled graph.
InterruptBefore == {"tools_executor"}

\* The checkpoint after node n has left the channels at c.  The generations are
\* counted up to MaxRetries + 1, one more than BoundedSelfCorrection allows.
Advanced(cp, n, c) ==
  [chan |-> c, next |-> Successor(n, c),
   gens |-> IF n = "generator" /\ cp.gens <= MaxRetries THEN cp.gens + 1
                                                        ELSE cp.gens]

\* The copy advances and its new checkpoint waits to be put;
\* lastState = { ...lastState, ...nodeOutput }, and agent:step to the room.
Streamed(loc, n, cp) ==
  [cp |-> cp,
   unstored |-> Append(loc.unstored, cp),
   answer |-> IF n \in {"generator", "tools_result"} THEN cp.chan.answer
                                                     ELSE loc.answer,
   sources |-> IF n = "search" THEN cp.chan.sources ELSE loc.sources,
   stepped |-> TRUE]

\* A run that the graph stopped before the tools has no node to run.
Paused(r) == run[r].cp.next \in InterruptBefore /\ run[r].stepped

\* One node runs, a tool with its effects, whatever becomes of the checkpoint.
\* The run stops before tools_executor unless it is the first superstep of a
\* resumed run, the one a Command lets through.  When a node throws, the run
\* first waits for its puts.
RunNode(r) ==
  LET n == run[r].cp.next
  IN /\ pc[r] = "running"
     /\ n # END
     /\ ~Paused(r)
     /\ \/ /\ Len(run[r].unstored) < MaxUnstored
           /\ \E c \in NodeResults(n, run[r].cp.chan) :
                run' = [run EXCEPT ![r] = Streamed(@, n, Advanced(@.cp, n, c))]
           /\ ran' = IF n = "tools_executor"
                       THEN [ran EXCEPT ![r] = Calls(run[r].cp.chan)]
                       ELSE ran
           /\ UNCHANGED <<thread, kind, on, pc, reply, memory, shown, approved,
                          asked, crashes>>
        \/ run[r].unstored = <<>> /\ Fail(r, n) /\ UNCHANGED memory

\* The run's oldest checkpoint that was not put becomes the latest of its thread.
Store(r) ==
  LET cp == Head(run[r].unstored)
  IN /\ thread' = [thread EXCEPT ![on[r]] = cp]
     /\ asked' = IF cp.next \in InterruptBefore
                   THEN [asked EXCEPT ![r] = @ \cup Calls(cp.chan)]
                   ELSE asked

\* A put ends, or throws before or after it took effect: then nothing is put
\* after it, and the run throws where it would have ended.
Put(r) ==
  /\ pc[r] = "running"
  /\ run[r].unstored # <<>>
  /\ \/ /\ Store(r)
        /\ run' = [run EXCEPT ![r].unstored = Tail(@)]
        /\ UNCHANGED <<pc, reply>>
     \/ /\ "put" \in FailurePoints
        /\ Store(r) \/ UNCHANGED <<thread, asked>>
        /\ End(r, [NoReply EXCEPT !.status = "error", !.stepped = run[r].stepped])
  /\ UNCHANGED <<kind, on, memory, shown, approved, ran, crashes>>

\* Mutated: no caller notices the pause.
NoticesPauseNever(k) == FALSE

\* run, stream and streamResume look the pending action up when the graph stopped
\* before a node; resume and reject answer as if it had ended.
NoticesPause(k) == k \notin {"resume", "reject"}

\* Mutated: a run ends without waiting for its puts.
AllPutUnwaited(loc) == TRUE

\* What the end of a run waits for.
AllPut(loc) == loc.unstored = <<>>

\* The graph stopped before the tools, and the caller sees it.
NoticePause(r) ==
  /\ pc[r] = "running"
  /\ AllPut(run[r])
  /\ Paused(r) /\ NoticesPause(kind[r])
  /\ pc' = [pc EXCEPT ![r] = "getState"]
  /\ UNCHANGED <<thread, kind, on, run, reply, memory, shown, approved, asked, ran,
                 crashes>>

\* getState reads the thread as it is now, which another run may have changed,
\* and the pending action found there is answered and emitted to the room.
ReportPending(r) ==
  /\ pc[r] = "getState"
  /\ \/ LET p == PendingAction(thread[on[r]].chan)
        IN /\ shown' = [shown EXCEPT ![on[r]] = p]
           /\ End(r, [NoReply EXCEPT !.status = "pending", !.shown = p,
                                     !.stepped = run[r].stepped])
           /\ UNCHANGED <<thread, kind, on, memory, approved, asked, ran, crashes>>
     \/ Fail(r, "getState") /\ UNCHANGED memory

\* The body of a final answer: REST reads the channels, WebSocket lastState.
Completed(r) ==
  LET c == run[r].cp.chan
      streamed == kind[r] \in WsKinds
  IN [status |-> "completed",
      answer |-> IF streamed THEN run[r].answer ELSE c.answer,
      sources |-> IF streamed THEN run[r].sources ELSE c.sources,
      steps |-> IF streamed THEN {c.question} ELSE c.steps,
      shown |-> NoPending,
      stepped |-> run[r].stepped]

\* The graph run is over, or its pause is not noticed, and its checkpoints are put:
\* a chat goes on to record the answer, a resumed run answers at once.
Finish(r) ==
  /\ pc[r] = "running"
  /\ AllPut(run[r])
  /\ \/ run[r].cp.next = END
     \/ Paused(r) /\ ~NoticesPause(kind[r])
  /\ IF kind[r] \in ChatKinds
       THEN pc' = [pc EXCEPT ![r] = "record"] /\ UNCHANGED <<run, reply>>
       ELSE End(r, Completed(r))
  /\ UNCHANGED <<thread, kind, on, memory, shown, approved, asked, ran, crashes>>

\* recordAssistantResponse, then the answer; no answer when memory fails.
Record(r) ==
  /\ pc[r] = "record"
  /\ \/ /\ memory' = memory \cup {<<"assistant", r>>}
        /\ End(r, Completed(r))
        /\ UNCHANGED <<thread, kind, on, shown, approved, asked, ran, crashes>>
     \/ /\ memory' \in {memory, memory \cup {<<"assistant", r>>}}
        /\ Fail(r, "record")

\* The process dies: every request in progress is lost with the checkpoints it
\* has not put, Redis is not.
Crash ==
  /\ crashes < MaxCrashes
  /\ \E r \in Requests : Active(r)
  /\ crashes' = crashes + 1
  /\ pc' = [r \in Requests |-> IF Active(r) THEN "done" ELSE pc[r]]
  /\ run' = [r \in Requests |-> NullRun]
  /\ reply' = [r \in Requests |->
                 IF Active(r) THEN [NoReply EXCEPT !.status = "lost"]
                              ELSE reply[r]]
  /\ UNCHANGED <<thread, kind, on, memory, shown, approved, asked, ran>>

\* What the process does for one request, without its client.
Serve(r) ==
  BuildPrompt(r) \/ Begin(r) \/ RunNode(r) \/ Put(r) \/ NoticePause(r)
    \/ ReportPending(r) \/ Finish(r) \/ Record(r)

\* Every request of the bounded set has been answered.
Quiescent == (\A r \in Requests : pc[r] = "done") /\ UNCHANGED vars

Next ==
  \/ \E r \in Requests : Arrive(r) \/ Serve(r)
  \/ Crash
  \/ Quiescent

Spec == Init /\ [][Next]_vars

\* Every await settles: model and store calls return or throw (clients with
\* timeouts and bounded retries), and Node's event loop is fair to promises.
FairSpec == Spec /\ \A r \in Requests : WF_vars(Serve(r))

-----------------------------------------------------------------------------
(* Properties.                                                              *)

Snapshots == {thread[t] : t \in Threads} \cup {run[r].cp : r \in Requests}

\* The calls that were ever left waiting for an approval.
Asked == UNION {asked[r] : r \in Requests}

\* A tool runs only in a run that a client resumed, and only when the very call
\* had made an earlier run stop at interruptBefore: no chat request, and no race
\* of requests on a thread, failure or crash, gets past the approval gate.
GatedExecution ==
  \A r \in Requests :
    ran[r] # {} => kind[r] \notin ChatKinds /\ ran[r] \subseteq Asked

\* The loop of generator and grader is bounded for each turn, through every
\* failure and resumption of the turn and whatever retryCount the thread
\* carried over from earlier turns (MAX_RETRIES in routeAfterGrading).
BoundedSelfCorrection == \A cp \in Snapshots : cp.gens <= MaxRetries

\* The grader's model judges an answer only against documents that were found
\* for the same question: relevance_check keeps an empty result, a rejected
\* resumption and an earlier turn's documents away from it.
GroundedGrading ==
  \A cp \in Snapshots :
    cp.next = "grader" /\ Grades(cp.chan) => cp.chan.documents = cp.chan.question

\* A reply is about one turn of its own thread, and a chat's reply about its own:
\* the question answered, the documents or tool result the answer was built on
\* and the sources listed beside it never mix turns or threads, although
\* requests share the checkpoint and overwrite it.
AboutOneTurn(r, rep) ==
  \E q \in Requests :
    /\ {rep.answer.turn, rep.answer.basis, rep.sources} \subseteq {NoTurn, q}
    /\ on[q] = on[r]
    /\ kind[r] \in ChatKinds => q = r

\* Every reply given so far is about one turn.
ReplyIsOneTurn == \A r \in Requests : AboutOneTurn(r, reply[r])

\* A tool that ran may run again: its checkpoint is put after it, and an approval
\* repeated after a failed put or a crash finds the thread before the tools.  But
\* that takes a client who was told: a call runs again only after the request that
\* ran it has answered with an error or was lost with the process, however the
\* puts lag behind the nodes.
RepeatsFollowFailures ==
  [][\A r, q \in Requests :
       (ran'[r] \ ran[r]) \cap ran[q] # {} =>
         reply[q].status \in {"error", "lost"}]_vars

\* The calls that a thread waits with before the executor.
Waiting ==
  UNION {Calls(thread[t].chan) : t \in {u \in Threads : thread[u].next \in InterruptBefore}}

Executed == UNION {ran[r] : r \in Requests}

\* The fate of a call is final: a call that was asked for and waits no longer,
\* since it was executed or given up, never waits for an approval again and is not
\* executed later, whatever resumptions fail, are repeated or come too late.  Of
\* calls that were executed and still wait RepeatsFollowFailures speaks.
SettledIsFinal ==
  [][\A x \in Asked \ Waiting :
       x \notin Waiting' /\ (x \in Executed' => x \in Executed)]_vars

\* What is executed is what the client was shown: when the request that stopped at
\* the calls told its client that they wait, a later request runs them only if it
\* came when one of them, of the same message, was the pending action reported
\* last.  Of a request that told its client of no pause (an error, a crash, or REST
\* resume and reject, which do not look) nothing was shown.
ShownIsExecuted ==
  \A r, q \in Requests :
    ran[r] \cap asked[q] # {} /\ reply[q].status = "pending" =>
      /\ approved[r] \in ran[r]
      /\ \A x \in ran[r] : x.turn = approved[r].turn

\* A chat request that is told to wait for approval is shown a call of its own
\* turn (the pending action of "the last AIMessage").
PendingIsOwnTurn ==
  \A r \in Requests :
    reply[r].status = "pending" /\ kind[r] \in ChatKinds =>
      reply[r].shown.turn = r

\* A client hears "completed" only of a graph run that reached its end, unless it
\* resumed the run over REST, and "pending approval" only of one that stopped
\* before the tools: resumed runs too may stop there, when they continue a turn
\* that failed before the gate.
StatusMatchesOutcome ==
  [][\A r \in Requests :
       pc[r] # "done" /\ pc'[r] = "done" =>
         /\ reply'[r].status = "completed" /\ kind[r] \notin {"resume", "reject"} =>
              run[r].cp.next = END
         /\ reply'[r].status = "pending" => run[r].cp.next \in InterruptBefore]_vars

\* A rejected tool call is not executed, the answer is given without it.
RejectedIsNotExecuted ==
  \A r \in Requests : kind[r] \in RejectKinds => ran[r] = {}

\* A failing verdict leads to another generation while the turn has had fewer
\* generations than MAX_RETRIES.
FailedVerdictRetries ==
  [][\A r \in Requests :
       /\ pc[r] = "running" /\ run[r].cp.next = "grader"
       /\ pc'[r] = "running" /\ run'[r].cp.chan.gradingFeedback
       /\ run[r].cp.gens < MaxRetries
       => run'[r].cp.next = "generator"]_vars

\* Every answer a client is given is recorded in the memory as the assistant's.
AnswersAreRemembered ==
  \A r \in Requests :
    reply[r].status = "completed" /\ reply[r].answer # NoAnswer =>
      <<"assistant", reply[r].answer.turn>> \in memory

\* Rounds of generator and grader that the retry count of c still allows.
RoundsLeft(c) == IF c.retryCount < MaxRetries THEN MaxRetries - c.retryCount ELSE 1

\* The supersteps from checkpoint cp to the end of the graph, at most.
StepsAhead(cp) ==
  CASE cp.next = "planner"         -> 2 * RoundsLeft(cp.chan) + 4
    [] cp.next = "query_rewriter"  -> 2 * RoundsLeft(cp.chan) + 3
    [] cp.next = "search"          -> 2 * RoundsLeft(cp.chan) + 2
    [] cp.next = "relevance_check" -> 2 * RoundsLeft(cp.chan) + 1
    [] cp.next = "generator"       -> 2 * RoundsLeft(cp.chan)
    [] cp.next = "grader"          -> 2 * RoundsLeft(cp.chan) - 1
    [] cp.next = "tools_caller"    -> 3
    [] cp.next = "tools_executor"  -> 2
    [] cp.next = "tools_result"    -> 1
    [] cp.next = END               -> 0

LongestRun == 2 * MaxRetries + 4

\* The steps from where a request is to its answer, at most: each superstep is a
\* node and a put.
Distance(r) ==
  CASE pc[r] = "idle"    -> 2 * LongestRun + 6
    [] pc[r] = "prompt"  -> 2 * LongestRun + 5
    [] pc[r] = "begin"   -> 2 * LongestRun + 4
    [] pc[r] = "running" -> 2 * StepsAhead(run[r].cp) + Len(run[r].unstored) + 2
    [] pc[r] \in {"getState", "record"} -> 1
    [] pc[r] = "done"    -> 0

\* Every step of a request brings it nearer to its answer, and no step of another
\* one takes it further away: the loop of generator and grader wears out, from
\* any checkpoint a thread may hold and whatever is stored over it meanwhile.
EveryStepCounts ==
  [][\A r \in Requests :
       /\ Distance(r)' <= Distance(r)
       /\ <<pc[r], run[r], reply[r]>>' # <<pc[r], run[r], reply[r]>> =>
            Distance(r)' < Distance(r)]_vars

\* Every request is answered, if the process does not crash with an answer or an
\* error: the retry loop ends, and no interleaving leaves a request waiting.
EveryRequestIsAnswered ==
  \A r \in Requests : Active(r) ~> pc[r] = "done"

=============================================================================
