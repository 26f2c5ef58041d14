---------------------------- MODULE ShortTermMemory ----------------------------
(***************************************************************************)
(* ShortTermMemoryService (short-term.memory.ts) as the orchestrator        *)
(* (memory-orchestrator.service.ts) and DELETE /chat/memory call it, for    *)
(* one user: two keys of the cache, the window of messages and the summary  *)
(* of older ones, read and written by async requests that hold no lock.     *)
(* Users share nothing, but all clients that send no userId are one user,   *)
(* 'default-user'.  memory.module.ts names Redis as the store in an option  *)
(* that its version of cache-manager ignores, so the keys may live in the   *)
(* process: a crash keeps or loses both.                                    *)
(*                                                                         *)
(* One action is one await: the store command and the code up to the next   *)
(* await.  A message is its turn, its role and its tokens; a summary is     *)
(* the sequence of the messages it was made from.                           *)
(***************************************************************************)
EXTENDS Prompts, FiniteSets

CONSTANTS
  Requests,      \* client requests: chat turns, and clearings of the memory
  Absent,        \* the value of a key that is not there
  Sizes,         \* the token counts a message may have
  MaxTokens,     \* stm.maxWindowTokens
  SummariseAt,   \* stm.maxWindowTokens * stm.summarisationThreshold
  HistoryLimits, \* the historyLimit of the nodes, 0 for none
  MayFail,       \* whether a store or model call may throw
  MaxInFlight,   \* bound: requests in progress at once
  MaxLapses,     \* bound: keys that expired or were cleared
  MaxCrashes     \* bound: crashes of the process

ASSUME MemoryAssumption ==
  /\ Sizes \subseteq Nat
  /\ MaxTokens \in Nat \ {0}
  /\ SummariseAt \in Nat \ {0}
  /\ HistoryLimits \subseteq Nat
  /\ MayFail \in BOOLEAN

VARIABLES
  window,    \* the key stm:window
  summary,   \* the key stm:summary; <<>> when it is absent
  pc,        \* request -> the await it stands at
  creating,  \* request -> its read found no window, it stores an empty one
  adding,    \* request -> the message it is adding
  copy,      \* request -> its copy of the window
  older,     \* request -> its copy of the summary
  prompt,    \* request -> the window its prompt was built from
  log,       \* history: every message stored, in order
  lapses,    \* history: expiries, clearings and losses of the keys so far
  crashes    \* history: crashes so far

stored == <<window, summary, log, lapses>>

locals == <<pc, creating, adding, copy, older, prompt>>

vars == <<stored, locals, crashes>>

Message == [turn : Requests, role : {"user", "assistant"}, tokens : Sizes]

NoMessage == [turn |-> Absent, role |-> "user", tokens |-> 0]

\* Reads that create the window when it is absent: getOrCreateWindow.
WindowReads == {"readActive", "readToAdd", "readToSummarise"}

AddAwaits == {"readToAdd", "storeAdded", "readToSummarise", "readSummarised"}

\* Where an exception ends the request; summarise catches those after it.
ThrowingAwaits ==
  {"readSummary", "readActive", "storeTrimmed"} \cup AddAwaits
    \cup {"clearWindow", "clearSummary"}

Awaits == ThrowingAwaits \cup {"storeSummary", "storeRemaining", "agent"}

Active(r) == pc[r] \notin {"idle", "done"}

Quiet == \A r \in Requests : ~Active(r)

TypeOK ==
  /\ window \in {Absent} \cup Seq(Message)
  /\ summary \in Seq(Message)
  /\ pc \in [Requests -> {"idle", "done"} \cup Awaits]
  /\ creating \in [Requests -> BOOLEAN]
  /\ adding \in [Requests -> Message \cup {NoMessage}]
  /\ {copy, older, prompt} \subseteq [Requests -> Seq(Message)]
  /\ log \in Seq(Message)
  /\ lapses \in Nat /\ crashes \in Nat

Init ==
  /\ window = Absent /\ summary = <<>>
  /\ pc = [r \in Requests |-> "idle"]
  /\ creating = [r \in Requests |-> FALSE]
  /\ adding = [r \in Requests |-> NoMessage]
  /\ copy = [r \in Requests |-> <<>>]
  /\ older = [r \in Requests |-> <<>>]
  /\ prompt = [r \in Requests |-> <<>>]
  /\ log = <<>>
  /\ lapses = 0 /\ crashes = 0

-----------------------------------------------------------------------------
(* Windows.                                                                 *)

\* The tokens of the first i messages, for each i.
TokensUpTo(w) ==
  LET sum[i \in 0..Len(w)] == IF i = 0 THEN 0 ELSE sum[i - 1] + w[i].tokens
  IN sum

\* countMessages: four tokens around each message, three for the list.
WindowTokens(w) == 3 + 4 * Len(w) + TokensUpTo(w)[Len(w)]

From(w, i) == SubSeq(w, i, Len(w))

\* Mutated: one message is dropped, not as many as it takes.
TrimmedOnce(w) == IF WindowTokens(w) > MaxTokens /\ Len(w) > 1 THEN Tail(w) ELSE w

\* The loop of getActiveWindow: the window after each shift of its oldest message,
\* until it is no longer too large or is a single message.
Trimmed(w) ==
  LET after[n \in 0..Len(w)] ==
        IF n = 0
          THEN w
          ELSE IF WindowTokens(after[n - 1]) > MaxTokens /\ Len(after[n - 1]) > 1
                 THEN Tail(after[n - 1])
                 ELSE after[n - 1]
  IN after[Len(w)]

\* How many of the oldest messages summarise takes: up to half of MaxTokens, the
\* first in any case; half of the messages when that would be all of them.
SplitIndex(w) ==
  LET fits == {i \in DOMAIN w : i = 1 \/ 2 * TokensUpTo(w)[i] <= MaxTokens}
      last == CHOOSE i \in fits : \A j \in fits : j <= i
  IN IF last = Len(w) THEN Len(w) \div 2 ELSE last

\* Mutated: the newest messages are summarised and the oldest kept.
CondensedNewest(old, w) == old \o From(w, SplitIndex(w) + 1)

\* Mutated: the existing summary is not part of the prompt.
CondensedAlone(old, w) == SubSeq(w, 1, SplitIndex(w))

\* The new summary is made from the existing one and the oldest messages.
Condensed(old, w) == old \o SubSeq(w, 1, SplitIndex(w))

Remaining(w) == From(w, SplitIndex(w) + 1)

\* Mutated: the newest message comes first.
PushedFirst(w, m) == <<m>> \o w

Pushed(w, m) == Append(w, m)

-----------------------------------------------------------------------------
(* The control flow of a request.                                           *)

\* addMessage is over: the agent runs, or the turn is complete.
AfterAdd(r) == IF adding[r].role = "user" THEN "agent" ELSE "done"

\* Where a request goes with the window w it has read or created.
AfterRead(r, w) ==
  CASE pc[r] = "readActive"      -> IF Trimmed(w) # w THEN "storeTrimmed" ELSE "readToAdd"
    [] pc[r] = "readToAdd"       -> "storeAdded"
    [] pc[r] = "readToSummarise" -> IF Len(w) < 4 THEN AfterAdd(r) ELSE "readSummarised"

\* Locals of a finished request are gone.
Goto(r, next) ==
  /\ pc' = [pc EXCEPT ![r] = next]
  /\ IF next = "done"
       THEN /\ creating' = [creating EXCEPT ![r] = FALSE]
            /\ adding' = [adding EXCEPT ![r] = NoMessage]
            /\ copy' = [copy EXCEPT ![r] = <<>>]
            /\ older' = [older EXCEPT ![r] = <<>>]
            /\ prompt' = [prompt EXCEPT ![r] = <<>>]
       ELSE UNCHANGED <<creating, adding, copy, older, prompt>>

-----------------------------------------------------------------------------

\* constructFinalPrompt or clearUserMemory is called.
Arrive(r) ==
  /\ pc[r] = "idle"
  /\ Cardinality({q \in Requests : Active(q)}) < MaxInFlight
  /\ \/ \E n \in Sizes :
          /\ pc' = [pc EXCEPT ![r] = "readSummary"]
          /\ adding' = [adding EXCEPT
               ![r] = [turn |-> r, role |-> "user", tokens |-> n]]
     \/ /\ lapses < MaxLapses
        /\ pc' = [pc EXCEPT ![r] = "clearWindow"]
        /\ UNCHANGED adding
  /\ UNCHANGED <<stored, creating, copy, older, prompt, crashes>>

\* getSummary: its result only enters the prompt.
ReadSummary(r) ==
  /\ pc[r] = "readSummary"
  /\ Goto(r, "readActive")
  /\ UNCHANGED <<stored, crashes>>

\* A request continues with the window w; getActiveWindow trims its copy, and
\* the copy is what the prompt is built from.
Continue(r, w) ==
  /\ creating' = [creating EXCEPT ![r] = FALSE]
  /\ IF AfterRead(r, w) = "done"
       THEN Goto(r, "done")
       ELSE /\ pc' = [pc EXCEPT ![r] = AfterRead(r, w)]
            /\ copy' = [copy EXCEPT
                 ![r] = IF pc[r] = "readActive" THEN Trimmed(w) ELSE w]
            /\ prompt' = [prompt EXCEPT
                 ![r] = IF pc[r] = "readActive" THEN Trimmed(w) ELSE @]
            /\ UNCHANGED <<adding, older>>

\* The get of getOrCreateWindow.
ReadWindow(r) ==
  /\ pc[r] \in WindowReads /\ ~creating[r]
  /\ IF window = Absent
       THEN /\ creating' = [creating EXCEPT ![r] = TRUE]
            /\ UNCHANGED <<pc, adding, copy, older, prompt>>
       ELSE Continue(r, window)
  /\ UNCHANGED <<stored, crashes>>

\* Its set of an empty window, which may overwrite one stored in the meantime.
CreateWindow(r) ==
  /\ creating[r]
  /\ window' = <<>>
  /\ Continue(r, <<>>)
  /\ UNCHANGED <<summary, log, lapses, crashes>>

\* getActiveWindow stores what it trimmed.
StoreTrimmed(r) ==
  /\ pc[r] = "storeTrimmed"
  /\ window' = copy[r]
  /\ Goto(r, "readToAdd")
  /\ UNCHANGED <<summary, log, lapses, crashes>>

\* addMessage stores its copy with the message at the end, and summarises when
\* that copy has reached the threshold.
StoreAdded(r) ==
  LET w == Pushed(copy[r], adding[r])
  IN /\ pc[r] = "storeAdded"
     /\ window' = w
     /\ log' = Append(log, adding[r])
     /\ Goto(r, IF WindowTokens(w) >= SummariseAt THEN "readToSummarise"
                                                 ELSE AfterAdd(r))
     /\ UNCHANGED <<summary, lapses, crashes>>

\* summarise has split the window it re-read, and reads the existing summary.
ReadSummarised(r) ==
  /\ pc[r] = "readSummarised"
  /\ pc' = [pc EXCEPT ![r] = "storeSummary"]
  /\ older' = [older EXCEPT ![r] = summary]
  /\ UNCHANGED <<stored, creating, adding, copy, prompt, crashes>>

\* The model has answered, which touches nothing else, and the summary is stored.
StoreSummary(r) ==
  /\ pc[r] = "storeSummary"
  /\ summary' = Condensed(older[r], copy[r])
  /\ Goto(r, "storeRemaining")
  /\ UNCHANGED <<window, log, lapses, crashes>>

\* The window shrinks to the rest of the copy that summarise split.
StoreRemaining(r) ==
  /\ pc[r] = "storeRemaining"
  /\ window' = Remaining(copy[r])
  /\ Goto(r, AfterAdd(r))
  /\ UNCHANGED <<summary, log, lapses, crashes>>

\* The model or a store fails within summarise, which logs the error and
\* returns; a failed store command may have taken effect.
SummariseFails(r) ==
  /\ MayFail
  /\ \/ /\ pc[r] = "storeSummary"
        /\ summary' \in {summary, Condensed(older[r], copy[r])}
        /\ UNCHANGED window
     \/ /\ pc[r] = "storeRemaining"
        /\ UNCHANGED <<window, summary>>
  /\ Goto(r, AfterAdd(r))
  /\ UNCHANGED <<log, lapses, crashes>>

\* Mutated: an empty answer is recorded as it is, without the marker text.
AnswerEmpty(r) ==
  /\ pc[r] = "agent"
  /\ pc' = [pc EXCEPT ![r] = "readToAdd"]
  /\ adding' = [adding EXCEPT ![r] = NoMessage]
  /\ UNCHANGED <<stored, creating, copy, older, prompt, crashes>>

\* The agent answers and recordAssistantResponse is called, or the turn ends
\* without an answer: the agent failed or waits for an approval.
Answer(r) ==
  /\ pc[r] = "agent"
  /\ \/ \E n \in Sizes :
          /\ pc' = [pc EXCEPT ![r] = "readToAdd"]
          /\ adding' = [adding EXCEPT
               ![r] = [turn |-> r, role |-> "assistant", tokens |-> n]]
          /\ UNCHANGED <<creating, copy, older, prompt>>
     \/ Goto(r, "done")
  /\ UNCHANGED <<stored, crashes>>

\* clear deletes the window, then the summary.
ClearWindow(r) ==
  /\ pc[r] = "clearWindow"
  /\ window' = Absent
  /\ lapses' = lapses + 1
  /\ Goto(r, "clearSummary")
  /\ UNCHANGED <<summary, log, crashes>>

ClearSummary(r) ==
  /\ pc[r] = "clearSummary"
  /\ summary' = <<>>
  /\ lapses' = lapses + 1
  /\ Goto(r, "done")
  /\ UNCHANGED <<window, log, crashes>>

\* Another call throws, and with it the request.  A store command that failed may
\* have taken effect: then it is the store action, followed by this one.
Throw(r) ==
  /\ MayFail
  /\ pc[r] \in ThrowingAwaits
  /\ Goto(r, "done")
  /\ UNCHANGED <<stored, crashes>>

\* The process dies between two awaits.  Keys in Redis stay, keys in the memory of
\* the process are gone with it.
Crash ==
  /\ crashes < MaxCrashes
  /\ ~Quiet
  /\ crashes' = crashes + 1
  /\ pc' = [r \in Requests |-> IF Active(r) THEN "done" ELSE pc[r]]
  /\ creating' = [r \in Requests |-> FALSE]
  /\ adding' = [r \in Requests |-> NoMessage]
  /\ copy' = [r \in Requests |-> <<>>]
  /\ older' = [r \in Requests |-> <<>>]
  /\ prompt' = [r \in Requests |-> <<>>]
  /\ \/ UNCHANGED <<window, summary, lapses>>
     \/ window' = Absent /\ summary' = <<>> /\ lapses' = lapses + 1
  /\ UNCHANGED log

\* A key expires, 24 hours after it was stored last, each on its own clock.
Expire ==
  /\ Quiet
  /\ lapses < MaxLapses
  /\ lapses' = lapses + 1
  /\ \/ window # Absent /\ window' = Absent /\ UNCHANGED summary
     \/ summary # <<>> /\ summary' = <<>> /\ UNCHANGED window
  /\ UNCHANGED <<locals, log, crashes>>

\* Every request of the bounded set is over.
Done == (\A r \in Requests : pc[r] = "done") /\ UNCHANGED vars

Next ==
  \/ \E r \in Requests :
       \/ Arrive(r) \/ ReadSummary(r) \/ ReadWindow(r) \/ CreateWindow(r)
       \/ StoreTrimmed(r) \/ StoreAdded(r) \/ ReadSummarised(r)
       \/ StoreSummary(r) \/ StoreRemaining(r) \/ SummariseFails(r)
       \/ Answer(r) \/ ClearWindow(r) \/ ClearSummary(r) \/ Throw(r)
  \/ Crash
  \/ Expire
  \/ Done

Spec == Init /\ [][Next]_vars

-----------------------------------------------------------------------------
(* Properties.                                                              *)

Window == IF window = Absent THEN <<>> ELSE window

Elements(s) == {s[i] : i \in DOMAIN s}

\* In the prompts of the generator, the tools caller and the tool results, whatever
\* other requests store meanwhile: the system text comes first and the question
\* last, the question is not in the history as well, and the history is the newest
\* part of the window the prompt was built from, without a gap and as long as the
\* node's limit allows.
PromptAsksOnce ==
  \A r \in Requests : \A limit \in HistoryLimits :
    LET sent    == BuildMessages(ToMessageArray(prompt[r], adding[r]), adding[r], limit)
        history == SubSeq(sent, 2, Len(sent) - 1)
        kept    == IF limit \in 1..Len(prompt[r]) THEN limit ELSE Len(prompt[r])
    IN pc[r] = "agent" =>
         /\ sent = <<SystemMessage>> \o history \o <<adding[r]>>
         /\ \A i \in DOMAIN history : history[i].turn # r
         /\ history = From(prompt[r], Len(prompt[r]) - kept + 1)

\* Within the window the messages of a turn are in order and none is there twice:
\* the question once, then the answer once, whatever stale copies of the window
\* concurrent requests store over one another.
TurnsInOrder ==
  \A i, j \in DOMAIN Window :
    i < j /\ Window[i].turn = Window[j].turn =>
      Window[i].role = "user" /\ Window[j].role = "assistant"

\* The messages of s are among those of t, and in the same order.
Follows(s, t) ==
  /\ Elements(s) \subseteq Elements(t)
  /\ \A i, j \in DOMAIN s : i < j =>
       \E k, l \in DOMAIN t : k < l /\ s[i] = t[k] /\ s[j] = t[l]

\* The window, and the window each prompt was built from, tell the messages of
\* all turns in the order they were stored in: requests that store stale copies
\* over one another lose messages, and neither swap nor invent any.
WindowFollowsLog ==
  Follows(Window, log) /\ \A r \in Requests : Follows(prompt[r], log)

\* With one request at a time, the window is the newest part of all messages
\* stored, without a gap: no summarisation, trimming, crash, failure, clearing
\* or expiry removes a message and keeps an older one.
WindowIsNewest ==
  \E n \in 0..Len(log) : Window = From(log, n + 1)

\* With one request at a time, what the summary and the window share, after a
\* summary was stored and the window was not, is a head of the window: the
\* next summary begins with it.
SummaryIsOlder ==
  \A i, j \in DOMAIN Window :
    i < j /\ Window[j] \in Elements(summary) => Window[i] \in Elements(summary)

TooLarge(w) == WindowTokens(w) > MaxTokens

\* With one request at a time, the stored window without its newest turn is within
\* the cap, or a single message: however many summaries in a row fail or leave too
\* much, wherever turns end early, and whatever expires, the window does not grow
\* from turn to turn.
WindowStaysBounded ==
  \A i \in DOMAIN Window :
    i > 1 /\ Window[i].turn # Window[Len(Window)].turn =>
      ~TooLarge(SubSeq(Window, 1, i))

\* With one request at a time the memory keeps its promise: no step loses a
\* message that is neither summarised nor over the cap.
Promise == INSTANCE ConversationLog WITH recent <- Window, gist <- summary

KeepsPromise == Promise!Spec

=============================================================================
