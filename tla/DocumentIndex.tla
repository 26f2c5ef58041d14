----------------------------- MODULE DocumentIndex -----------------------------
(***************************************************************************)
(* The knowledge base: uploads (document.service.ts, vector-store.service   *)
(* .ts) and deletions of files over the OpenSearch index of chunks          *)
(* (opensearch.repository.ts), by clients at once.                          *)
(*                                                                         *)
(* OpenSearch is external.  It writes a document at once, but searches, and *)
(* a deletion by query is one, see the state of the last refresh.  A bulk   *)
(* request writes its items one by one and each may fail; a deletion works  *)
(* off what it found and stops at a document that is no longer there.  A    *)
(* client may lose the answer of a request that goes on in the store.       *)
(***************************************************************************)
EXTENDS Integers, FiniteSets

CONSTANTS
  Uploads,     \* calls of POST /documents/upload
  Deletions,   \* calls of DELETE /documents/:filename
  Files,       \* file names
  MaxChunks,   \* bound: chunks of an uploaded text
  MaxInFlight  \* bound: calls in progress at once

ASSUME DocumentAssumption ==
  /\ Uploads \cap Deletions = {}
  /\ MaxChunks \in Nat

Calls == Uploads \cup Deletions

VARIABLES
  index,     \* the chunks written and not deleted
  visible,   \* the chunks searches see: those of the last refresh
  file,      \* call -> file name, fixed from the start
  chunks,    \* upload -> number of chunks of its text, fixed from the start
  pc,        \* call -> where it is
  written,   \* upload -> how many items of its bulk request are done
  failed,    \* upload -> the items that could not be indexed
  found,     \* deletion -> the chunks left to delete
  answer,    \* call -> what its client was told
  later      \* history: pairs of calls for the same file of which the second
             \* started after the first had ended

vars == <<index, visible, file, chunks, pc, written, failed, found, answer, later>>

fixed == <<file, chunks>>

Chunk == [upload : Uploads, item : 1..MaxChunks]

Active(c) == pc[c] \notin {"idle", "done"}

TypeOK ==
  /\ index \subseteq Chunk
  /\ visible \subseteq Chunk
  /\ file \in [Calls -> Files]
  /\ chunks \in [Uploads -> 0..MaxChunks]
  /\ pc \in [Calls -> {"idle", "embed", "bulk", "find", "delete", "refresh", "done"}]
  /\ written \in [Uploads -> 0..MaxChunks]
  /\ failed \in [Uploads -> SUBSET (1..MaxChunks)]
  /\ found \in [Deletions -> SUBSET Chunk]
  /\ answer \in [Calls -> {"none", "ok", "error"}]
  /\ later \subseteq Calls \X Calls

Init ==
  /\ index = {} /\ visible = {}
  /\ file \in [Calls -> Files]
  /\ chunks \in [Uploads -> 0..MaxChunks]
  /\ pc = [c \in Calls |-> "idle"]
  /\ written = [u \in Uploads |-> 0]
  /\ failed = [u \in Uploads |-> {}]
  /\ found = [d \in Deletions |-> {}]
  /\ answer = [c \in Calls |-> "none"]
  /\ later = {}

-----------------------------------------------------------------------------

\* A call ends; a client that lost the answer has been told of an error.
End(c, told) ==
  /\ pc' = [pc EXCEPT ![c] = "done"]
  /\ answer' = [answer EXCEPT ![c] = IF @ = "none" THEN told ELSE @]

\* A call goes on to the next await, if its client still waits.
Proceed(c, next) ==
  IF answer[c] = "none"
    THEN pc' = [pc EXCEPT ![c] = next] /\ UNCHANGED answer
    ELSE End(c, "error")

\* An endpoint is called.
Arrive(c, first) ==
  /\ pc[c] = "idle"
  /\ Cardinality({b \in Calls : Active(b)}) < MaxInFlight
  /\ pc' = [pc EXCEPT ![c] = first]
  /\ later' = later \cup
       {<<b, c>> : b \in {b \in Calls : file[b] = file[c] /\ pc[b] = "done"}}
  /\ UNCHANGED <<index, visible, fixed, written, failed, found, answer>>

\* processTextFile splits the text; the embedding model is called.
Upload(u) == Arrive(u, "embed")

\* The model answers and the bulk request is sent, or the model call throws.
\* OpenSearch refuses a bulk request without items.
Embed(u) ==
  /\ pc[u] = "embed"
  /\ \/ chunks[u] > 0 /\ Proceed(u, "bulk")
     \/ End(u, "error")
  /\ UNCHANGED <<index, visible, fixed, written, failed, found, later>>

\* Mutated: one item too many.
ItemsLeftOffByOne(u) == written[u] <= chunks[u]

\* The bulk request of u has items that OpenSearch has not come to.
ItemsLeft(u) == written[u] < chunks[u]

\* OpenSearch indexes one item of a bulk request, or fails to.
WriteItem(u) ==
  LET n == written[u] + 1
  IN /\ pc[u] = "bulk"
     /\ ItemsLeft(u)
     /\ written' = [written EXCEPT ![u] = n]
     /\ \/ /\ index' = index \cup {[upload |-> u, item |-> n]}
           /\ UNCHANGED failed
        \/ /\ failed' = [failed EXCEPT ![u] = @ \cup {n}]
           /\ UNCHANGED index
     /\ UNCHANGED <<visible, fixed, pc, found, answer, later>>

ChunksOf(u) == {c \in index : c.upload = u}

\* Mutated: the request does not wait for the refresh.
WaitedForNothing(u) == TRUE

\* refresh: 'wait_for'.
WaitedFor(u) == ChunksOf(u) \subseteq visible

\* Mutated: the errors of single items are not looked at.
BulkReturnsUnchecked(u) ==
  /\ pc[u] = "bulk"
  /\ ~ItemsLeft(u)
  /\ WaitedFor(u)
  /\ Proceed(u, "refresh")
  /\ UNCHANGED <<index, visible, fixed, written, failed, found, later>>

\* The bulk request is over; if an item has failed, bulkIndex throws.
BulkReturns(u) ==
  /\ pc[u] = "bulk"
  /\ ~ItemsLeft(u)
  /\ WaitedFor(u)
  /\ IF failed[u] = {} THEN Proceed(u, "refresh") ELSE End(u, "error")
  /\ UNCHANGED <<index, visible, fixed, written, failed, found, later>>

\* deleteDocument is called.
Delete(d) == Arrive(d, "find")

\* Mutated: every chunk matches.
MatchesAny(d) == visible

\* The term query on metadata.source.keyword.
Matches(d) == {c \in visible : file[c.upload] = file[d]}

\* deleteByQuery searches what it will delete, or the request fails.
Find(d) ==
  /\ pc[d] = "find"
  /\ \/ found' = [found EXCEPT ![d] = Matches(d)] /\ Proceed(d, "delete")
     \/ End(d, "error") /\ UNCHANGED found
  /\ UNCHANGED <<index, visible, fixed, written, failed, later>>

\* It deletes one of them.  One that is gone is a version conflict, at which the
\* request stops with an error.
Remove(d) ==
  /\ pc[d] = "delete"
  /\ \E c \in found[d] :
       IF c \in index
         THEN /\ index' = index \ {c}
              /\ found' = [found EXCEPT ![d] = @ \ {c}]
              /\ UNCHANGED <<pc, answer>>
         ELSE /\ found' = [found EXCEPT ![d] = {}]
              /\ End(d, "error")
              /\ UNCHANGED index
  /\ UNCHANGED <<visible, fixed, written, failed, later>>

DeleteReturns(d) ==
  /\ pc[d] = "delete"
  /\ found[d] = {}
  /\ Proceed(d, "refresh")
  /\ UNCHANGED <<index, visible, fixed, written, failed, found, later>>

\* this.refresh() at the end of bulkIndex and deleteBySource.
Refresh(c) ==
  /\ pc[c] = "refresh"
  /\ \/ visible' = index /\ End(c, "ok")
     \/ End(c, "error") /\ UNCHANGED visible
  /\ UNCHANGED <<index, fixed, written, failed, found, later>>

\* A request times out or its connection breaks: the client is told of an error,
\* and the store goes on with it.
LoseAnswer(c) ==
  /\ pc[c] \in {"bulk", "delete"}
  /\ answer[c] = "none"
  /\ answer' = [answer EXCEPT ![c] = "error"]
  /\ UNCHANGED <<index, visible, fixed, pc, written, failed, found, later>>

\* OpenSearch refreshes the index by itself, every second.
PeriodicRefresh ==
  /\ visible # index
  /\ visible' = index
  /\ UNCHANGED <<index, fixed, pc, written, failed, found, answer, later>>

\* Every call of the bounded set is over.
Finished == (\A c \in Calls : pc[c] = "done") /\ UNCHANGED vars

ServeUpload(u) == Embed(u) \/ WriteItem(u) \/ BulkReturns(u) \/ Refresh(u)

ServeDeletion(d) == Find(d) \/ Remove(d) \/ DeleteReturns(d) \/ Refresh(d)

Next ==
  \/ \E u \in Uploads : Upload(u) \/ ServeUpload(u)
  \/ \E d \in Deletions : Delete(d) \/ ServeDeletion(d)
  \/ \E c \in Calls : LoseAnswer(c)
  \/ PeriodicRefresh
  \/ Finished

Spec == Init /\ [][Next]_vars

-----------------------------------------------------------------------------
(* Properties.                                                              *)

\* Deletions of the file of u that were not over when u began.
Disturbing(u) ==
  {d \in Deletions : file[d] = file[u] /\ pc[d] # "idle" /\ <<d, u>> \notin later}

\* When an upload has been answered with success, all its chunks are searchable,
\* and stay so as long as no deletion of the file comes that was not over before:
\* partial bulk failures are reported, nothing is reported before searches can see
\* it, and deletions of other files or of earlier uploads do not touch it.
UploadIsSearchable ==
  \A u \in Uploads :
    answer[u] = "ok" /\ Disturbing(u) = {} =>
      {[upload |-> u, item |-> n] : n \in 1..chunks[u]} \subseteq visible

\* When a deletion has been answered with success, no chunk of an upload of the
\* file that had ended before the deletion began, well or badly, is in the index
\* or seen by a search, ever again.
DeletedIsGone ==
  \A p \in later \cap (Uploads \X Deletions) :
    answer[p[2]] = "ok" => \A c \in index \cup visible : c.upload # p[1]

=============================================================================
