---------------------------- MODULE LongTermMemory ----------------------------
(***************************************************************************)
(* LongTermMemoryService (long-term-memory.service.ts): an index of what    *)
(* users and the assistant said.  persistTurn is fire-and-forget, it starts *)
(* a background task of up to three attempts to embed and index a message.  *)
(*                                                                         *)
(* An attempt that throws has not come to nothing for sure: the request may *)
(* have taken effect, or may yet.  The next attempt uses a new id, so that  *)
(* a message may get into the index more than once.                         *)
(*                                                                         *)
(* The module has the operations, each over its own variables; what calls   *)
(* them, and when, is for the modules that extend it to say.                *)
(***************************************************************************)
EXTENDS Integers, FiniteSets

CONSTANTS
  Messages,    \* what may be said
  Retries,     \* persistTurnWithRetry: retries
  TopK,        \* ltmTopK
  MaxFailures  \* bound: attempts that throw

ASSUME LtmAssumption ==
  /\ Retries \in Nat \ {0}
  /\ TopK \in Nat
  /\ MaxFailures \in Nat

VARIABLES
  task,     \* message -> how far its background task is
  attempt,  \* message -> the attempt it is at, from 1
  adrift,   \* message -> index requests that were given up and may yet arrive
  copies,   \* message -> how often the index has it
  failed    \* history: message -> its attempts that threw

ltm == <<task, attempt, adrift, copies, failed>>

\* "calling" waits for the embedding and the index, "indexed" for the answer of
\* the index; "failed" has been logged, "lost" went down with the process.
TaskStates == {"none", "calling", "indexed", "done", "failed", "lost"}

LtmTypeOK ==
  /\ task \in [Messages -> TaskStates]
  /\ attempt \in [Messages -> 0..Retries]
  /\ adrift \in [Messages -> 0..Retries]
  /\ copies \in [Messages -> 0..Retries]
  /\ failed \in [Messages -> 0..Retries]

LtmInit ==
  /\ task = [m \in Messages |-> "none"]
  /\ attempt = [m \in Messages |-> 0]
  /\ adrift = [m \in Messages |-> 0]
  /\ copies = [m \in Messages |-> 0]
  /\ failed = [m \in Messages |-> 0]

Pending(m) == task[m] \in {"calling", "indexed"}

-----------------------------------------------------------------------------

\* persistTurn, which returns at once; blank content is skipped.
PersistTurn(m, blank) ==
  IF blank
    THEN UNCHANGED ltm
    ELSE /\ task' = [task EXCEPT ![m] = "calling"]
         /\ attempt' = [attempt EXCEPT ![m] = 1]
         /\ UNCHANGED <<adrift, copies, failed>>

\* The index has stored the document of the running attempt.
Index(m) ==
  /\ task[m] = "calling"
  /\ task' = [task EXCEPT ![m] = "indexed"]
  /\ copies' = [copies EXCEPT ![m] = @ + 1]
  /\ UNCHANGED <<attempt, adrift, failed>>

\* Mutated: the loop goes on after a success.
ReturnNot(m) ==
  /\ task[m] = "indexed"
  /\ IF attempt[m] = Retries
       THEN task' = [task EXCEPT ![m] = "done"] /\ UNCHANGED attempt
       ELSE /\ task' = [task EXCEPT ![m] = "calling"]
            /\ attempt' = [attempt EXCEPT ![m] = @ + 1]
  /\ UNCHANGED <<adrift, copies, failed>>

\* The index answers and the loop returns.
Return(m) ==
  /\ task[m] = "indexed"
  /\ task' = [task EXCEPT ![m] = "done"]
  /\ UNCHANGED <<attempt, adrift, copies, failed>>

\* Mutated: the loop ends without a throw.
AfterLastFailureSilent == "done"

\* The last error is thrown to the caller, which logs it.
AfterLastFailure == "failed"

\* Mutated: one attempt too many.
IsLastAttemptOffByOne(m) == attempt[m] > Retries

IsLastAttempt(m) == attempt[m] = Retries

\* The failed attempts so far, each once.
Failures == {f \in Messages \X (1..Retries) : f[2] <= failed[f[1]]}

\* An attempt throws, before or after the index has stored the document; after
\* a delay there is another one, unless it was the last.
AttemptFails(m) ==
  /\ Pending(m)
  /\ Cardinality(Failures) < MaxFailures
  /\ failed' = [failed EXCEPT ![m] = @ + 1]
  /\ IF IsLastAttempt(m)
       THEN task' = [task EXCEPT ![m] = AfterLastFailure] /\ UNCHANGED attempt
       ELSE /\ task' = [task EXCEPT ![m] = "calling"]
            /\ attempt' = [attempt EXCEPT ![m] = @ + 1]
  /\ adrift' = [adrift EXCEPT ![m] = IF task[m] = "calling" THEN @ + 1 ELSE @]
  /\ UNCHANGED copies

\* A request that was given up reaches the index after all; it need not.
IndexLate(m) ==
  /\ adrift[m] > 0
  /\ adrift' = [adrift EXCEPT ![m] = @ - 1]
  /\ copies' = [copies EXCEPT ![m] = @ + 1]
  /\ UNCHANGED <<task, attempt, failed>>

Background(m) == Index(m) \/ Return(m) \/ AttemptFails(m) \/ IndexLate(m)

\* The process dies, its tasks with it; what they sent is on its way.
LtmCrash ==
  /\ task' = [m \in Messages |-> IF Pending(m) THEN "lost" ELSE task[m]]
  /\ adrift' = [m \in Messages |->
                  IF task[m] = "calling" THEN adrift[m] + 1 ELSE adrift[m]]
  /\ UNCHANGED <<attempt, copies, failed>>

\* knnSearchWithFilter: some of what the index has, as it was refreshed last and as
\* the neighbours are approximated.
KnnHits ==
  {found \in SUBSET {m \in Messages : copies[m] > 0} : Cardinality(found) <= TopK}

\* What search may return: nothing when the embedding or the index throws.
SearchResults == KnnHits \cup {{}}

-----------------------------------------------------------------------------
(* Properties.                                                              *)

\* A message is in the index when its task reports success, and when the task
\* reports a failure every attempt has been made: short of a crash, nothing
\* is dropped by the retry loop without a word.
LossIsReported ==
  \A m \in Messages :
    /\ task[m] = "done" => copies[m] > 0
    /\ task[m] = "failed" => failed[m] = Retries

\* A message is indexed again only because an attempt before threw: without
\* failures the index has it at most once, with n failed attempts at most
\* n + 1 times, whenever given up requests arrive.
CopiesAreRetries ==
  \A m \in Messages : copies[m] <= failed[m] + 1

=============================================================================
