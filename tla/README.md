# AI agent notes backend: a TLA+ development

The repository is a NestJS service in which a LangGraph agent answers questions about uploaded
documents. A client chats over REST or a WebSocket; the agent plans, searches, generates and grades an
answer, or asks for a tool and waits until a human approves it; conversations are remembered for a day
word for word and in a summary, and for good in a vector index.

This directory holds TLA+ modules translated from the source, TLC configurations that check them, and
proofs for TLAPS. `src/...` below is relative to the implementation, `src/src/` in the manifest.

## 1. The system

| part | source | state | operations |
|---|---|---|---|
| agent graph | `services/agent/agent.graph.ts`, `agent.state.ts`, `nodes/*`, `router/*` | ten channels of a thread, with reducers | nine nodes, two routers, seven fixed edges, one interrupt |
| agent service | `services/agent/agent.service.ts` | none of its own; locals of each request | `run`, `resume`, `reject`, `stream`, `streamResume`, `getState` |
| checkpointer | `modules/checkpointer.module.ts` (RedisSaver) | the latest checkpoint of each thread | load, store |
| gateway, emitter | `gateways/*` | rooms of sockets | `chat:join`, `chat:message`, `chat:resume`; `agent:*` events |
| chat API | `api/v1/controllers/chat.controller.ts`, `services/chat/*` | none | chat, resume, clear memory |
| short-term memory | `services/memory/short-term.memory.ts`, `token-counter.service.ts` | window and summary of each user, two keys of a cache with a TTL | add, read, trim, summarise, clear |
| memory orchestrator | `services/memory/memory-orchestrator.service.ts` | none | build a prompt, record an answer, clear |
| long-term memory | `services/memory/long-term-memory.service.ts` | an index of turns | persist (fire and forget, three attempts), search |
| documents, vector store | `services/document/*`, `services/vector-store/*`, `repositories/*` | an index of chunks | upload, list, delete, search |
| ranking | `repositories/opensearch.repository.ts:185-219`, `utils/strategic-reorder.ts` | none | rank fusion, reordering |
| LLM, embeddings, tools | `services/llm`, `services/embedded`, `services/agent/tools` | none | calls of models |

A chat goes from the controller or the gateway to the agent service, which asks the orchestrator for a
prompt (this stores the question in the short-term memory), runs the graph on the thread of the session,
and records the answer. The graph loads the checkpoint of the thread at the start and hands one to the saver after
every node. A run that reaches `tools_executor` stops; the client is shown a pending action and sends a
resumption, which is a second run on the same thread.

What is hard here:

* **Interleaving.** Everything is an async function and nothing is locked: two requests on a thread share
  its checkpoint, two requests of a user share a window. All clients without a `userId` are one user.
* **A protocol across requests.** Approval is a second request; chats, failures, repeats and other
  approvals may come in between, and the messages of a thread are never cleared.
* **Partial failure.** Each model or store call may throw between two writes that belong together
  (question and answer, summary and window, a tool's effect and its checkpoint), or the process may die there.
* **State that outlives a turn.** Checkpoints keep channels of earlier turns; `retryCount` accumulates.
* **Bounds.** The retry loop, the cap of the window, the split of a summary.

What makes each part correct:

* graph: the loop ends, grading is grounded, no turn builds on another turn's documents;
* agent service: no tool without an approval, an approval executes what was shown, a second execution only after
  a failure that the client was told of; a client hears what happened; each request is answered;
* short-term memory: the newest messages word for word, older ones in the summary, nothing lost otherwise,
  and no growth past the cap from turn to turn;
* long-term memory: each turn indexed once, or its loss reported;
* documents: an upload that reports success is searchable as a whole, a deleted file stays deleted;
* ranking: a chunk found by both searches precedes those found by one, what the searches agree on is kept;
  reordering loses nothing and puts the best first and last.

`PROJECT.json` lists the places where these can go wrong, each at its line, with the properties that watch
them.

## 2. Modules

| module | models |
|---|---|
| `AgentChannels` | the graph as pure operators: channels, nodes, routers, edges, `extractPendingAction` |
| `AgentService` | the state machine of requests, threads and graph runs; the agent's properties |
| `MCAgentService` | instances for TLC |
| `HumanApproval` | abstract: what the approval gate promises to the human |
| `ApprovalRefinement` | `AgentService` as an implementation of `HumanApproval` |
| `AgentProofs` | types, the gate, the loop, grounding and replies, proved |
| `ApprovalProofs` | the refinement of `HumanApproval`, the other properties of approval, and the descent of each request to its answer, proved |
| `ConversationLog` | abstract: what a conversation memory promises |
| `ShortTermMemory` | the memory service under the orchestrator, one action per await; implements `ConversationLog` |
| `Prompts` | how a list of messages is put together and taken apart again, by position |
| `MCShortTermMemory` | instances for TLC |
| `MemoryProofs` | types, the contents of a prompt, and the order of the window, proved |
| `PromiseProofs` | the refinement of `ConversationLog`, what follows from it, and the bound of the window, proved |
| `LongTermMemory` | the index of turns: background attempts, copies, recall |
| `EventRooms` | sockets, rooms and who hears which event |
| `ChatTurns` | a chat turn from end to end; composes `LongTermMemory` and `EventRooms` |
| `MCChatTurns` | an instance for TLC |
| `ChatProofs` | types, memory, events and the end of a turn in `ChatTurns`, proved |
| `SearchRanking` | one similarity search: rank fusion and the reordering of its results, loop by loop |
| `MCSearchRanking` | an instance for TLC |
| `RankingProofs` | types and the hourglass, proved |
| `FusionProofs` | the fused order and its agreement with the searches, proved |
| `DocumentIndex` | uploads and deletions of files over the index of chunks |
| `MCDocumentIndex` | an instance for TLC |
| `DocumentProofs` | types and both promises of `DocumentIndex`, proved |

### AgentChannels and AgentService

Text is represented by where it comes from. A *turn* is the chat request that asked a question; documents,
sources, answers and messages are the turn they stem from, and an answer also has a *basis*, the turn of
the documents or of the tool result its prompt quoted. That is what is needed to see turns mixed; what a
text says is not modelled. `memoryContext` is left out for this reason: it is overwritten by every new input and only
quoted in prompts.

| TLA+ | code |
|---|---|
| `thread[t]` | the latest checkpoint of thread `t`: channels, next node (and a history count of generations) |
| `pc[r]`, `run[r]` | where the async function of request `r` is suspended, and its locals (its own copy of the checkpoint, the checkpoints it has not put yet, `lastState`, whether a step was sent) |
| `reply[r]` | the HTTP answer, or `agent:done`, `agent:interrupt`, `agent:error` |
| `memory` | what `addMessage` was given |
| `shown`, `approved`, `asked`, `ran`, `crashes` | history: the action shown last for a thread, what was shown when a request came, calls a run stopped at, calls executed |
| `Arrive` | controller or gateway handler is called |
| `BuildPrompt`, `Begin`, `RunNode`, `Finish`, `Record` | `constructFinalPrompt`; the start of `graph.invoke`/`graph.stream`; one node, a tool with its effects; the end of the run; `recordAssistantResponse` and the answer |
| `Put` | the saver stores the run's oldest checkpoint that it has not stored yet, or throws before or after doing so |
| `NoticePause`, `ReportPending` | `isInterrupted` or the `__interrupt__` chunk; `getState`, `extractPendingAction`, `emitInterrupt` |
| `Fail` in each of these | that await throws; a memory write may have happened before |
| `Crash` | the process dies, and with it the checkpoints that were not put; Redis is kept |

The six calls are the values of `kind`. They differ where the code differs: chats take `BuildPrompt` and
`Record`, resumptions do not; REST answers from the channels of the result, WebSocket from the merged node
outputs; `resume` and `reject` do not look whether the graph stopped again; a rejection writes `plan`.

LangGraph and RedisSaver are libraries, modelled from how the code uses them, and these are the assumptions:
after each superstep a run hands its checkpoint to the saver and goes on with the next node (the default, asynchronous
durability); it puts them one after another, and its end, be it by the last node, a pause or a node that throws, waits for them; a
put that throws, with or without effect, drops those behind it, and the run throws where it would have ended (in the model at once: the nodes in between have no effect outside the run, for a tool
runs only as the first node of a resumption); of two runs on a
thread the last to put wins; a node
that throws writes nothing; new input on a thread starts at `planner` whatever the thread waited for; a `Command`
continues with the node the checkpoint names and passes `interruptBefore` in its first superstep only, after
its `update` has been written; a `Command` on a finished or unknown thread runs nothing (or throws, as any
start may); the result of `invoke` on a stopped run satisfies `isInterrupted`; `ToolNode` runs all calls
of the last message and appends one message for each, errors included.

So a tool has run before the checkpoint that tells of it is put, and a failing put or a crash in between leaves
the thread waiting before the tool. `ran` and `thread` are therefore changed by different actions, `RunNode` and `Put`. Two things
are simpler than in the libraries. The saver also keeps the writes of a finished node (`putWrites`), which are not modelled: LangGraph
would apply them on the next `Command` instead of running the node again if they arrived though the checkpoint did not, which is the case where
the put took effect. And a failed put takes effect at once or never. The stream of a paused run may give out its
`__interrupt__` while the last put is on its way: `getState` then still reads what was put, since both use one Redis connection, which serves its commands in
order; in the model `NoticePause` waits for it.

If `isInterrupted` did not hold for a
static interrupt, `run` would answer `completed` with an empty answer where the model answers `pending`.

### HumanApproval and ApprovalRefinement

`HumanApproval` knows no graph: an agent asks for an action on a thread (`Ask`), the human is shown what is pending (`Show`), the thread
gives it up (`GiveUp`) or executes it (`Execute`), which leaves it pending until the execution is known (`Settle`). An agent that fails
in between (`Lose`) forgets the execution, and then, and only then, the action may be executed again; and an action that it could not show counts
as `missed`, and is the only kind that may be executed unseen. `ApprovalRefinement` maps `AgentService` to it: an action is a message of
tool calls, named by its turn; a thread's is pending while the checkpoint stored for it stands before a node of `InterruptBefore`; it is running
while a request on the thread has run its calls and the thread still waits with them, and missed when the request that stopped at it ended
with anything but a pending answer. A run of `tools_executor` is then `Execute`, its `Put` is `Settle`, the `Put` of the pause
is `Ask`, a `Put` that throws and a crash are `Lose`, and a new chat on a waiting thread is `GiveUp` when its first checkpoint is put.

### ShortTermMemory

For one user, the keys `stm:window` and `stm:summary`. A message is its turn, role and tokens; a summary
is the sequence of messages it was made from, so that "the model summarised this" is a statement one can
check. One action is one store command and the code up to the next await: `ReadSummary` and `ReadWindow` (with
`CreateWindow` when there is none), `StoreTrimmed`, `StoreAdded`, `ReadSummarised`, `StoreSummary`,
`StoreRemaining`, `ClearWindow`, `ClearSummary`. The call of the summarising model is one action with
the store that follows: it touches nothing shared, and any delay of it is a delay of that action.
`SummariseFails` is the `catch` of `summarise`; `Throw` ends the request at any other await. A store command
that threw after it took effect is the store action followed by `Throw` (or, where the request would be
over, by nothing). `Expire` is the TTL, each key on its own clock, between requests. `Crash` keeps both keys or loses both:
`memory.module.ts:21-25` gives Redis as the option `store`, but cache-manager 7, which `@nestjs/cache-manager` 3 uses, reads `stores`, so that
as installed the keys are in the memory of the process. Users are independent, their
keys carry the id; so one user is enough. `Trimmed` is the loop of `getActiveWindow`, shift by shift.

`ConversationLog` is the promise: a message leaves the verbatim part only when it is in the summary or the
part is too large, and always from the old end; else only clearing, expiry and a crash lose anything.

`Prompts` has the two conversions of lists: `ToMessageArray` puts the system text first and the question last,
`BuildMessages` takes them off again by `slice(1, -1)` and limits the history (4 messages in `tools-caller` and `tools-result`, no limit in `generator`).
`PromptAsksOnce` applies it to the window each request reads, so that the property is about windows that other requests have
trimmed, summarised and expired. The role filter of `toMessageArray` is the recursive function `OfRoles`, whose defining equation
the proofs can use; `SelectSeq` is an operator the proof system cannot expand.

### LongTermMemory, EventRooms and ChatTurns

`AgentService` has the graph in detail and memory as a list; `ChatTurns` looks at the same requests from outside: the graph is its visible
steps and how it ends, and what matters is the order of the memory calls, the background tasks and the events around it.

| TLA+ | code |
|---|---|
| `task[m]`, `attempt[m]` | the promise that `persistTurn` does not await, and the loop counter of `persistTurnWithRetry` |
| `copies[m]`, `adrift[m]` | external: documents of a message in the index, and index requests that were given up and may yet arrive |
| `failed[m]`, `faults` | history: attempts that threw; disconnections and crashes |
| `open`, `rooms`, `heard` | socket.io: connected sockets, rooms, and the events each socket got of each request |
| `call[r]` | the kind of a request, the socket that sent it and its thread; fixed |
| `pc[r]`, `steps[r]`, `recall[r]` | the await the request is at, nodes its run has finished, what the search returned |
| `stm` | what `addMessage` has stored |
| `Arrive`, `Refuse`, `Join` | the handlers of the gateway and the controller; a resume without thread or action; `client.join` |
| `Search`, `AddQuestion` | `constructFinalPrompt`: `search`, then `addMessage` and `persistTurn` |
| `Step`, `LeaveGraph`, `ReportPending` | `emitStep` for each chunk of the stream; the end of the run; `getState` and `emitInterrupt` |
| `Record` | `recordAssistantResponse` and the answer or `emitDone`; `RecordedBlank` is its marker for an answer without text |
| `Index`, `Return`, `AttemptFails`, `IndexLate` | the background task, and the index behind it |
| `Listen`, `Leave`, `Crash` | `chat:join`, a disconnection, the death of the process |

The assumptions about socket.io are: a socket leaves its rooms by disconnecting and in no other way (the code never calls
`leave`); a client that reconnects has a new socket; an event goes to the sockets in the room at that moment, in the order of
the emits; joining with a socket that has gone does nothing. About the index: a request that
threw may have taken effect, may take effect later or never; a search finds any few of the messages in it, since refreshes and the
approximation of neighbours decide which.

### SearchRanking

`Search` is the `Promise.all` of the keyword and the vector search; what is assumed of OpenSearch is only that each
result lists at most `2 * K` different chunks. `AddText` and `AddKnn` are the bodies of the two `forEach` over the map
`rrfScores`, `Rank` is `sort`, `slice` and `map`, `Place` the body of the loop of `strategicReorder`, with its
pointers counted from 1. Scores are fractions, compared exactly: two different sums of two terms `1/(60 + n)` differ by
far more than rounding, and equal ones are made of the same terms, whose double sum does not depend on their order. The
model finds the order of equal scores from the order of insertion, as a stable sort does.

### DocumentIndex

| TLA+ | code |
|---|---|
| `index`, `visible` | OpenSearch: the chunks written, and those of the last refresh, which searches see |
| `pc[c]` | where an upload or a deletion is suspended: embedding, bulk request, delete-by-query, refresh |
| `written`, `failed`, `found` | OpenSearch: how far a request is |
| `answer[c]` | what the client was told |
| `later` | history: which calls for one file followed one another |
| `Embed`, `BulkReturns`, `Find`, `DeleteReturns`, `Refresh` | `addDocuments`; the end of `bulk` with the check of `errors`; `deleteByQuery`; `refresh` |
| `WriteItem`, `Remove`, `PeriodicRefresh` | OpenSearch at work |
| `LoseAnswer` | a timeout or a broken connection: the call has failed for its client and goes on in the store |

OpenSearch is external, and these are the assumptions: a bulk request writes its items in order, each may fail alone, and with
`refresh: 'wait_for'` it returns when searches see what it wrote; it refuses a request without items (an
empty text); a delete-by-query works on what a search saw when it began and stops with an error at a document that has
gone (`conflicts` is not set, so it is `abort`). Retries inside the client library are not modelled.

## 3. Runs

| run | instance | shows |
|---|---|---|
| `AgentConcurrent` | 2 requests of all kinds, 1 or 2 threads, both at once, failures everywhere, 1 crash, messages with 0, 1 or 2 calls | `TypeOK`, `GatedExecution`, `BoundedSelfCorrection`, `GroundedGrading`, `ReplyIsOneTurn`, `EveryStepCounts` |
| `AgentApproval` | 3 requests of all kinds, one at a time on 1 thread, messages with 1 or 2 calls, failures everywhere, also of puts, 1 crash | `RepeatsFollowFailures`, `SettledIsFinal`, `ShownIsExecuted`, `PendingIsOwnTurn`, `StatusMatchesOutcome`, `KeepsApproval` (refinement) |
| `AgentLiveness` | 2 concurrent requests (`run`, `resume`, `wsReject`), failures in five places, fairness, no crash | `EveryRequestIsAnswered` |
| `MemoryConcurrent` | 3 turns or clearings, 2 at once, 1 lapse | `TypeOK`, `PromptAsksOnce`, `TurnsInOrder`, `WindowFollowsLog` |
| `MemorySerial` | 4 turns or clearings, one at a time, failures everywhere, 1 crash, 2 lapses | `WindowIsNewest`, `SummaryIsOlder`, `WindowStaysBounded`, `KeepsPromise` (refinement) |
| `Ranking` | 5 chunks, `K` = 4 and `RRF_CONSTANT` = 60 as in the code, every pair of results | `TypeOK`, `AgreementIsKept`, `BothOutweighOne`, `NoChunkTwice`, `BestAreOutermost` |
| `Documents` | 2 uploads of up to 2 chunks, 2 deletions, 1 or 2 file names, 2 calls at once | `TypeOK`, `UploadIsSearchable`, `DeletedIsGone` |
| `ChatTurns` | 2 requests of a user on a thread, 2 sockets, 2 attempts per message, 2 failed attempts, 1 disconnection or crash, 1 step per run, one blank question, one blank answer | `TypeOK`, `SenderMissesNothing`, `RoomHearsTheSame`, `DoneIsRemembered`, `RecallIsOfThePast`, `LossIsReported`, `CopiesAreRetries`, `SenderHearsTheEnd` |
| `AgentReject`, `AgentRetry`, `AgentMemoryGap`, `ChatBlank` | small instances without failures | a violation each, section 5 |

**Why the bounds are enough to be of interest.** Two requests at once already give every order of two graph
runs over a shared checkpoint, one of them with stale copies, failed or crashed in the middle; a third request
is what `AgentApproval` needs for chat, failed approval, repeated approval, with the failure anywhere, also between the tool and its put.
`MaxUnstored` bounds how far the puts lag behind the nodes: with 2, a node, also the tool, runs while the checkpoint before it is still on its way; where the
lag does not matter, in the liveness run and the small ones, it is 1. `MaxRetries` is the code's 2, so
the loop is met at its limit. In the memory runs the cap is 40 tokens and the threshold 32, the default
0.8 of the cap; sizes 2 and 14 count 6 and 18 with their overhead, so that windows pass the
threshold with few and with many messages, pass the cap so that trimming is needed, and a window of fewer than
four, which `summarise` refuses, can be over it. Four serial turns are up to eight messages and
at least two summaries. `MaxInFlight`, `MaxUnstored`, `MaxCrashes` and `MaxLapses` bound the environment only; for the theorems of
`AgentProofs` they, and the sets, are arbitrary. Requests and threads are interchangeable, which the symmetry uses;
the liveness run uses none.

Five chunks are one more than the search returns, so that the slice cuts something off, and give results that agree,
overlap in part, and have nothing in common. Two uploads and two deletions give each of them the other three as
disturbance, with one file name or two; two chunks make a bulk request fail in part. Three calls at once were tried too, with no other
outcome.

`MCCalls` lists the pairs of requests of `ChatTurns` that differ for an observer: a chat over a socket beside one over another socket,
a resumption over either, or a REST chat that the socket overhears; and the resumption of a REST chat. `Retries` is 2 where the code has 3: the
loop has a first and a last attempt, and a third is in between; `ChatProofs` has any number. One step per run is enough to be before,
at and after the first event when a client joins. `TopK` is 1, for more recalled messages are more
instances of the same quantifier. `MaxFaults` is 1 for disconnections and crashes together; the proofs have any number.
The window that a prompt quotes is that of `MemoryConcurrent`, and `HistoryLimits` has no limit and one below the sizes of windows there.

**Which property needs which condition.** Where a run is narrowed, the wider instance fails, and the code is to blame,
not the model:

* `RepeatsFollowFailures`, `ShownIsExecuted`, `PendingIsOwnTurn`, `SettledIsFinal` and `KeepsApproval` fail with two requests at once on a thread: two
  approvals both run the tool, without any failure; `getState` may read another run's thread. `PendingIsOwnTurn` and `KeepsApproval` need besides
  that a message before the executor has a call.
* "At most once" is no property of this code. A tool whose checkpoint is not put runs again for a repeated approval;
  `RepeatsFollowFailures` says that it takes a failure its client heard of, or a crash.
* `ShownIsExecuted` and `KeepsApproval` say nothing of an action whose pause the client was not told of: `getState` threw, the process crashed before it, a
  put threw after it had taken effect, or REST `resume` and `reject` stopped at the gate. Of a message with two calls only the first is shown; the
  property asks that what runs is of the message that was shown.
* `StatusMatchesOutcome` leaves out what REST `resume` and `reject` answer: a resumption that continues a turn which failed
  before the gate stops there, and both answer `completed`.
* `WindowIsNewest`, `SummaryIsOlder` and `KeepsPromise` fail with two requests at once: read, push and write lose messages.
  What is left then is `WindowFollowsLog`: of what was stored some may be missing, and what is there is in the order of the log.
* `UploadIsSearchable` and `DeletedIsGone` speak of calls for one file that follow one another, other calls in between:
  a deletion that overlaps an upload of its file takes the chunks it sees and leaves the rest.
* `BothOutweighOne` holds while two last ranks outweigh one first rank, `2/(60 + 2k) > 1/61`: for `k` up to 30. The
  only caller asks for 4.
* `WindowStaysBounded` leaves out a window's newest turn, which is trimmed when the next one comes, and a single message over the cap, as
  `getActiveWindow` does (section 5). With two requests at once it fails: a stale copy may be stored after the trimming.
* `DoneIsRemembered` asks for no index entry of a question or an answer without text; for the answer see section 5.

**Fairness.** `FairSpec` has weak fairness for the next step of each request that has arrived: its await
settles, since the model and store clients have timeouts and bounded retries, and the event loop runs every
settled promise. `FairSpec` of `ChatTurns` has the same for `Serve(r)`, each request on its own: `SenderHearsTheEnd` must hold
though the background tasks may stand still for ever, since nobody awaits them. Nothing is assumed of clients (`Arrive`, `Listen`, `Leave`), of
background tasks or of crashes, and no strong fairness is used. No liveness is stated for
`DocumentIndex`; that no call gets stuck there is what its deadlock check says.

**Deadlock** is checked in every run. A bounded set of requests ends; `Quiescent`, `Done` and `Finished` stutter
there and only there. (In `ChatTurns` a request whose socket has gone never comes; `Quiescent` asks only that nothing is left to do.)

Every property has a mutant, a plausible bug in one mapped definition with which TLC finds it
violated: an interrupt in the wrong place, an answer before the checkpoints are put, a verdict not counted, `<=` for `<`,
a trimming that drops one message, a summary made without the old one, and so on. Each stands just before the definition it
changes, marked "Mutated".

## 4. Proofs

`AgentProofs` proves, for every set of requests, threads and tools, every list of calls a model may
return, every `MaxRetries > 0`, and any number of failures, crashes and requests at once:

| theorem | property |
|---|---|
| `ServiceInvariant` | the inductive invariant below |
| `TypeCorrect` | `TypeOK` |
| `ToolsAreGated` | `GatedExecution` |
| `SelfCorrectionIsBounded` | `BoundedSelfCorrection` |
| `GradingIsGrounded` | `GroundedGrading` |
| `RepliesAreOneTurn` | `ReplyIsOneTurn` |

The assumptions are `ChannelAssumption` (`NoTurn` is no request, tool calls are sequences of tools, `MaxRetries` is
positive) and `ServiceAssumption` (kinds and failure points are among those there are).

None of the properties is inductive: a reply mixes turns only if the checkpoint did, and a checkpoint may be stored by
one run and loaded by another. So the invariant speaks of checkpoints, wherever they are. `CheckpointInv` says of one:
everything in its channels stems from its question (`OneTurn`); around the executor the last message is of its turn
(`ToolTurn`); on the way to an answer the plan is `direct` or there are documents of the question
(`Planned`, which gives `GroundedGrading`); and generations are bounded by `retryCount` (`Counted`: a count carried over
from earlier turns only makes it larger, which ends the loop sooner). `SuperstepKeepsInv` shows that a node
followed by its successor keeps it, and `StartKeepsInv` that an input does. `StoredInv` and `RunInv` then state it for
all threads and all runs, and that a checkpoint that waits before the executor has its calls in `asked`. `ChatInv`
says that the run of a chat is about that chat and is never let through the gate. `ServiceInv` is the conjunction with `TypeOK`,
`GatedExecution` and `ReplyIsOneTurn`; one lemma per action shows that it is kept. Overwriting
checkpoints of concurrent runs needs no argument of its own: whoever stores, stores a good one.

`ApprovalProofs` extends it, each theorem from the least it needs, for any requests (finitely many where `Serial` counts them),
threads, tools and failures:

| theorem | property | assuming |
|---|---|---|
| `StatusIsTrue` | `StatusMatchesOutcome` | nothing: any requests at once |
| `StepsAreCounted` | `EveryStepCounts` | nothing |
| `RunsAreShort` | the bound from which it counts down | nothing |
| `RepeatsAreAnnounced` | `RepeatsFollowFailures` | `Serial`: `MaxInFlight` = 1 |
| `SettledStaysSettled` | `SettledIsFinal` | `Serial` |
| `ShownCallsRun` | `ShownIsExecuted` | `Serial` |
| `PendingIsOfTurn` | `PendingIsOwnTurn` | `Serial`; `Calling`: `<<>>` is not among `ToolCalls` |
| `ApprovalIsKept` | `KeepsApproval`, that is `Spec => Gate!Spec` | `Serial`, `Calling` |

None of them excludes a failure or a crash, limits the calls of a message or the number of checkpoints a run has not put.

`StepsAre` reduces a step to a few forms: a request arrives, waits, leaves, begins a run, runs a node, puts a checkpoint, or shows a pending
action. Four invariants are kept by each. `PlaceInv` says at which node a request waits, with what put. `OrderInv` says that the one active
request of a thread continues what the thread holds: its checkpoints that are not put lead, one superstep after another, from the stored one to
its own copy, so that no stale copy is ever stored; and that a turn asks for its calls before it runs them: the planner and the tool-calling node stand
where the turn has asked for nothing. `CallInv` says who asked for a call, who ran it and who was told: a thread
waits with a call that ran only while the request that ran it has a checkpoint to put, or for good when that request has ended with an error or was lost
(`Settles`); and while a thread waits with calls whose request told its client so, they are what is shown (`Tells`). `ShownInv` says that nothing is
shown that was not asked for, and that a request in progress has shown nothing of what it asked for. Together with `InProgress` (what was shown when the active
request came is what is shown now) these give the theorems above.

`SettledStaysSettled` needs `OrderInv` only, for any list of calls and any failures: a thread comes to wait
with a call when the checkpoint that asks for it is put, and the turn has asked for none before; the `update` of a rejection leaves a thread waiting with what it
waited with already; and the call that a request executes is one its thread still waits with.

`StepsAreCounted` is the part of `EveryRequestIsAnswered` that is not fairness. `Distance(r)` adds up the awaits before the answer, the
checkpoints not yet put and twice `StepsAhead`, the supersteps before the end of the graph (each is a node and a put), in which a round of generator and grader weighs two for each retry that
`retryCount` still allows. It is bounded by `RunsAreShort`, for the checkpoint a run loads may be one that any earlier run left, with
any count; it falls with each step of the request, a failure or a crash included, and other requests do not touch it, though
they overwrite the checkpoint of its thread, since a run keeps its own copy. `LongestRun` is `2 * MaxRetries + 4`, that is 8 for the
code's 2, which is below LangGraph's default limit of 25 supersteps; the code sets none. What TLC adds in `AgentLiveness` is that an active request
always has a step (also the deadlock check), which fairness then takes.

`RankingProofs` proves, for every set of chunks, every `K > 0`, every fusion constant and any results of the searches:

| theorem | property |
|---|---|
| `RankingInvariant` | the inductive invariant `RankingInv` |
| `RankingTypeCorrect` | `TypeOK` |
| `HourglassIsComplete` | `BestAreOutermost` |

The assumption is `RankingAssumption`. `BestAreOutermost` alone is not inductive, since it says nothing of the pointers;
`PointersInv` adds where they are after `i` steps, `2 * left = i + 2 + i % 2` and its mirror image for `right`. From it
follow that the slot of a step is within the array, and that it is the outermost free one on its side, which
`PlaceKeepsInv` shows by cases on the parity of `i`. `PlacedInv` says that the loop has gone to the end.

`FusionProofs` extends it, for the same constants:

| theorem | property |
|---|---|
| `FusionInvariant` | the inductive invariant `FusionInv` |
| `AgreementStays` | `AgreementIsKept` |
| `BothOutweigh` | `BothOutweighOne`, assuming `2 * K < RRF_CONSTANT + 2` |
| `NoChunkIsRepeated` | `NoChunkTwice` |

`FusionInv` says what the map holds after any part of the two loops: `ScoredBy`, one entry for every hit entered so far with
exactly the sum of its terms; and then that the results are the best of *some* sorting of it (`Ranked`). The properties follow
from the scores alone: what precedes in both lists has the larger sum, by cases on who is in which list, as inequalities between
products; ties keep the order of insertion, which is that of the first list. The condition of `BothOutweigh` is that
two last ranks outweigh one first rank; for the code's 60 it holds up to `k` = 30.

`MemoryProofs` proves, for every set of requests, all of them at once, any sizes, cap, threshold, failures, crashes and expiries:

| theorem | property |
|---|---|
| `MemoryInvariant` | the inductive invariant `MemoryInv` |
| `MemoryTypeCorrect` | `TypeOK` |
| `TurnsStayInOrder` | `TurnsInOrder` |
| `WindowsFollowTheLog` | `WindowFollowsLog` |
| `PromptsAskOnce` | `PromptAsksOnce` |

Requests store stale copies of the window over one another, so what is true of the window must be true of every copy of it, and of the rest of a
window that a summary will leave. `Orderly` is that: turns in order, nothing of a request that has yet to store its question
(`Unasked`), no answer of one that has yet to store its answer (`Unanswered`). Then appending a message to *any* copy
keeps it. `Trimmed` and `TokensUpTo` are recursive functions; that they exist, that the first is an end of its window and that the second is
a natural number is proved by a least counterexample (`IterationExists`), since induction theorems are out of reach. The assumption is
`MemoryAssumption`.

`WindowsFollowTheLog` needs the copies in its invariant too (`FollowInv`), for one of them may be stored. Each step leaves the
window and the copies as they are, or puts an end of one of them in its place (`EndFollows`), or appends one message to a copy and to the
log alike (`BothGrow`); and what followed the log follows a longer one.

`PromptsAskOnce` rests on `OwnsNothing`: the window of a prompt was read before its request stored anything, and no other request stores
messages of this turn. `BetweenIsTheMiddle` then undoes the conversion by position, `slice(1, -1)` taking off the
system text and the question and no message of the history; that `OfRoles` drops nothing, because a window has only the two roles, is again a
least counterexample (`OfRolesKeepsAll`).

`PromiseProofs` extends it, for one request at a time (`Serial`: `MaxInFlight` = 1, finitely many requests, and the value of an absent
key is no list):

| theorem | property |
|---|---|
| `SerialInvariant` | the inductive invariant `SerialInv` |
| `MemoryKeepsPromise` | `KeepsPromise`, that is `Spec => Promise!Spec` |
| `LogInvariant` | the inductive invariant `LogInv` |
| `WindowIsBounded` | `WindowStaysBounded` |
| `WindowStaysNewest` | `WindowIsNewest` |
| `SummaryStaysOlder` | `SummaryIsOlder` |

`SerialInv` says that no other request is in progress and that what the one has read is what the keys still hold (`UpToDate`). Then each
action is a step of `ConversationLog` or none: `StoreAdded` is `Say`, `StoreSummary` is `Condense`, `StoreTrimmed` and
`StoreRemaining` are `Drop`, the first for being too large and the second for being in the summary; clearing, expiry and a crash that takes
the keys are `Lapse`. `WindowIsBounded` adds `BoundInv`: the window is bounded at every await, and a user message is added only to a window that the
trimming of its turn has left within the cap or at one message (`AtBound`); an end of a bounded window, which is what a
summary leaves, is bounded (`EndIsBounded`), and `TrimmedDrops` says what the loop drops. The
last two properties are then proved of the *abstract* steps (`PromisedSteps`, `NewestStays`, `OlderStays`). They need one thing more of the
concrete level, that no message is stored twice, which is that the log is `Orderly` as the window is.

`DocumentProofs` proves, for every set of calls, files and texts, and any calls at once:

| theorem | property |
|---|---|
| `DocumentInvariant` | the inductive invariant `DocumentInv` |
| `DocumentTypeCorrect` | `TypeOK` |
| `UploadsAreSearchable` | `UploadIsSearchable` |
| `DeletedStaysGone` | `DeletedIsGone` |

The argument for deletions is about what is visible when: an upload that has ended waited for the refresh (`WaitedInv`), so a
deletion that comes after it has found all that is left of it (`DeletingInv`) and, when it succeeds, has taken all it found. That for
uploads is that a chunk is only ever taken by a deletion that overlaps or follows its upload (`KeptInv`). The assumption is
`DocumentAssumption`.

`ChatProofs` proves, for every set of requests, sockets, threads and calls, and any number of attempts, failures,
disconnections and crashes:

| theorem | property |
|---|---|
| `ChatInvariant` | the inductive invariant `ChatInv` |
| `ChatTypeCorrect` | `TypeOK` |
| `LossesAreReported` | `LossIsReported` |
| `CopiesAreOfRetries` | `CopiesAreRetries` |
| `RecallsAreOfThePast` | `RecallIsOfThePast` |
| `DoneTurnsAreRemembered` | `DoneIsRemembered` |
| `EventInvariant` | the inductive invariant `EventsInv` |
| `SendersMissNothing` | `SenderMissesNothing` |
| `RoomsHearTheSame` | `RoomHearsTheSame` |
| `EndsAreHeard` | the safety half of `SenderHearsTheEnd` |
| `ServiceComesToAnEnd` | the descent behind it |

`Counts` makes the retry loop inductive: copies in the index and copies on their way are together at most the failed attempts, or one more
for the attempt that runs or succeeded. `TurnInv` says what a request at each await has stored, and `MemoryInv` that nothing is indexed
that was not stored before. For the events, every action tells nobody, a room, or the sender of one request, and three
lemmas (`TellNobody`, `TellRoom`, `TellSender`) say what that does to what everybody heard; the strengthening is that the sender is in its
room as long as it is connected (`SenderInRoom`) and that who is outside has heard nothing (`OutsidersHeardNothing`), without
which a client that joins late could have a gap. `EndsAreHeard` says that a request that is over is over for its sender, if that is
still connected: it was sent its answer, its interrupt or its error, or the crash that ended the request closed its socket as well. `Ahead(r)` counts
the awaits and the graph steps that are left; `ServiceComesToAnEnd` says that each step of the process for `r` lowers it, and nothing else raises it. Of
`SenderHearsTheEnd` only fairness is left. The assumptions are `LtmAssumption` and `TurnsAssumption`.

Only model-checked: liveness (`EveryRequestIsAnswered`, `SenderHearsTheEnd`), since fairness and `ENABLED` are out of the proof
system's reach, of which the descent and the safety half are theorems; and what the findings of section 5 refute. Every other
property of a passing run is a theorem.

## 5. What the checks found

* **A rejected tool runs** (`AgentReject`). `reject` and `streamResume` resume with `update: { plan: 'direct' }`, but the
  thread's next node is `tools_executor` and nothing after it routes on `plan`.
* **Later turns get no retry** (`AgentRetry`). The reducer of `retryCount` adds, so the input's `retryCount: 0` resets
  nothing; after two gradings on a thread a failing answer is final.
* **Answers of resumed turns are not remembered** (`AgentMemoryGap`). Only `run` and `stream` record an answer, and only
  when they did not pause.
* **Empty answers are indexed** (`ChatBlank`). `recordAssistantResponse` makes an answer without text into `[Tool Execution]`
  and indexes that, though `docs/ltm-architecture.md:14` says that such messages are ignored. A question of white space only
  is stored blank in the short-term memory and never indexed, as the document says.

Observed while modelling, without a run: the query rewriter does not see the question. Its prompt is a system text and `state.messages`
(`query-rewriter.node.ts:18`), which only `tools_caller` and `tools_executor` write, so the `searchQuery` that `search` uses instead of
the question is about earlier tool calls or about nothing; its own comment (line 6) says that it rewrites the user's question. A single message over
`maxWindowTokens` is sent: the loop of `getActiveWindow` stops at one message, where the comment at `short-term.memory.ts:74-75` and
`docs/phase2-memory-audit.md:74` say that no more tokens than allowed are ever sent; and the question, the summary and the recalled turns come on top. The
cache option of `memory.module.ts:21-25` is ignored (section 2), so the short-term memory is lost with the process. A
tool whose checkpoint fails runs again for a repeated approval (section 3). Also: uploading a file again doubles its chunks, and a failed upload leaves some behind;
an upload that overlaps a deletion of its file may report success and be left in part;
`getDocumentChunks` returns at most 1000 chunks, in no order; the generator never reads `gradingFeedback`; `searchLtm` returns its promise
without awaiting it, so its `catch` is idle; `streamResume` on a finished thread emits `agent:done` with an empty answer;
`agent:error` of a chat without a thread id carries an empty one although the thread has got an id.

And of the end of a turn: the `feedback` of a
resumption never reaches the graph; `agent:error` goes to the sender alone, so that others who heard the steps of a request
wait for an end that does not come, as do those who heard a REST chat's interrupt, whose resumption over REST emits nothing; a client
that reconnects is not told of an interrupt it missed; a socket that joined a thread hears it until it disconnects, also after it has moved on to another;
`DELETE /chat/memory` clears the short-term memory and leaves what was indexed, so that later prompts recall it.

## 6. Not modelled

Listing documents and reading their chunks: reads. Creating the indexes: the start-up. The greetings `agent:connected` and `chat:joined`, and `emitError`, which nothing calls. Model wiring,
fallbacks, tools and embeddings: stateless calls that return or throw. What the store does of an upload or deletion whose answer was lost is modelled (`LoseAnswer`) as a
disturbance of other calls, but promised nothing: `later` does not count such a call. An upload that overlaps a deletion of its file, a message that
two requests of a user lose between them, and a pending action looked up while another run is on the thread are modelled too, with no property for what goes wrong there. Validation, configuration, bootstrap: no state. Expiry
of a key while a request is in flight: the TTL is a day, a request takes seconds. Wording of prompts beyond what they quote.

## 7. What is left

No state of the code is left to model. `WindowFollowsLog` says what the window keeps when requests overlap; what could be added is the
same for approval, a weaker promise for two requests at once on a thread and for two calls in a message, where the strong ones fail (section 3).
