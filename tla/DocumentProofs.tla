---------------------------- MODULE DocumentProofs ----------------------------
(***************************************************************************)
(* Proofs about DocumentIndex, for every set of uploads, deletions and file *)
(* names, every size of a text, and any number of calls at once.            *)
(*                                                                         *)
(* Searches may be behind the index, in both directions; but every refresh  *)
(* shows them all of it, so that a chunk which is in the index to stay, or  *)
(* gone from it, is so for searches from the next refresh on.  The          *)
(* invariants say at which await of a call that refresh has been.           *)
(***************************************************************************)
EXTENDS DocumentIndex, TLAPS

\* The chunks a bulk request has indexed so far.
Indexed(u) == {[upload |-> u, item |-> n] : n \in (1..written[u]) \ failed[u]}

\* Calls that came after others found them over, and for the same file.
LaterInv ==
  \A b, c \in Calls :
    <<b, c>> \in later => pc[b] = "done" /\ pc[c] # "idle" /\ file[b] = file[c]

\* How far an upload is, by the await it stands at.
ProgressInv ==
  \A u \in Uploads :
    /\ written[u] <= chunks[u]
    /\ pc[u] \in {"idle", "embed"} => written[u] = 0 /\ ChunksOf(u) = {}
    /\ pc[u] = "refresh" => written[u] = chunks[u] /\ failed[u] = {}
    /\ answer[u] = "ok" => written[u] = chunks[u] /\ failed[u] = {}

\* A client is told of a success at the end only.
AnswerInv ==
  \A c \in Calls : answer[c] = "ok" => pc[c] = "done"

\* What an upload indexed stays, if no deletion comes in between.
KeptInv ==
  \A u \in Uploads : Disturbing(u) = {} => Indexed(u) \subseteq index

\* What is left of an upload that has waited is what searches see of it.
WaitedInv ==
  \A u \in Uploads : pc[u] \in {"refresh", "done"} => ChunksOf(u) \subseteq visible

\* A deletion works off chunks of its own file.
FoundInv ==
  \A d \in Deletions : \A c \in found[d] : file[c.upload] = file[d]

\* A deletion has found whatever is left of the uploads before it, and then has
\* deleted that.
DeletingInv ==
  \A u \in Uploads, d \in Deletions :
    <<u, d>> \in later =>
      /\ pc[d] = "delete" => ChunksOf(u) \subseteq found[d]
      /\ pc[d] = "refresh" \/ answer[d] = "ok" => ChunksOf(u) = {}

DocumentInv ==
  /\ TypeOK
  /\ LaterInv
  /\ ProgressInv
  /\ AnswerInv
  /\ KeptInv
  /\ WaitedInv
  /\ FoundInv
  /\ DeletingInv
  /\ UploadIsSearchable
  /\ DeletedIsGone


-----------------------------------------------------------------------------
(* What every step leaves.                                                  *)

\* Initially nothing has happened.
LEMMA InitEstablishesInv ==
  ASSUME Init PROVE DocumentInv
<1>1. TypeOK
  BY DocumentAssumption DEF Init, TypeOK, Calls
<1>2. LaterInv /\ AnswerInv /\ FoundInv /\ DeletingInv /\ DeletedIsGone
  BY DEF Init, LaterInv, AnswerInv, FoundInv, DeletingInv, DeletedIsGone, Calls
<1>3. ProgressInv /\ KeptInv /\ WaitedInv /\ UploadIsSearchable
  <2>1. \A u \in Uploads : ChunksOf(u) = {} /\ written[u] = 0 /\ pc[u] = "idle"
                           /\ answer[u] = "none"
    BY DEF Init, ChunksOf, Calls
  <2>2. ProgressInv
    BY <2>1, <1>1 DEF ProgressInv, TypeOK
  <2>3. KeptInv /\ WaitedInv /\ UploadIsSearchable
    BY <2>1 DEF KeptInv, Indexed, WaitedInv, UploadIsSearchable
  <2>4. QED
    BY <2>2, <2>3
<1>4. QED
  BY <1>1, <1>2, <1>3 DEF DocumentInv

\* A call that goes on or fails is at the next await or over, and its client has
\* been told of no success.
LEMMA WhereItGoes ==
  ASSUME TypeOK, AnswerInv, NEW c \in Calls, pc[c] # "done", NEW next,
         Proceed(c, next) \/ End(c, "error")
  PROVE  /\ pc' = [pc EXCEPT ![c] = pc'[c]]
         /\ answer' = [answer EXCEPT ![c] = answer'[c]]
         /\ pc'[c] = next \/ pc'[c] = "done"
         /\ answer[c] # "ok" /\ answer'[c] \in {"none", "error"}
<1>1. answer[c] \in {"none", "error"}
  BY DEF TypeOK, AnswerInv
<1>2. CASE Proceed(c, next) /\ answer[c] = "none"
  BY <1>1, <1>2 DEF Proceed, TypeOK
<1>3. CASE End(c, "error")
  BY <1>1, <1>3 DEF End, TypeOK
<1>4. CASE Proceed(c, next) /\ answer[c] # "none"
  BY <1>1, <1>3, <1>4 DEF Proceed, End, TypeOK
<1>5. QED
  BY <1>2, <1>3, <1>4

\* The types survive every step.
LEMMA StepKeepsTypes ==
  ASSUME TypeOK, [Next]_vars PROVE TypeOK'
<1> USE DocumentAssumption
<1>1. ASSUME NEW c \in Calls, NEW first \in {"embed", "find"}, Arrive(c, first)
      PROVE  TypeOK'
  <2>1. later' \subseteq Calls \X Calls
    BY <1>1 DEF Arrive, TypeOK
  <2>2. QED
    BY <1>1, <2>1 DEF Arrive, TypeOK, fixed
<1>2. ASSUME NEW c \in Calls, NEW next \in {"bulk", "delete", "refresh"},
             Proceed(c, next) \/ End(c, "error") \/ End(c, "ok")
      PROVE  /\ pc' \in [Calls -> {"idle", "embed", "bulk", "find", "delete", "refresh", "done"}]
             /\ answer' \in [Calls -> {"none", "ok", "error"}]
  BY <1>2 DEF Proceed, End, TypeOK
<1>3. ASSUME NEW u \in Uploads, Embed(u) \/ BulkReturns(u) PROVE TypeOK'
  <2>1. u \in Calls
    BY DEF Calls
  <2>2. QED
    BY <1>2, <1>3, <2>1 DEF Embed, BulkReturns, TypeOK, fixed
<1>4. ASSUME NEW u \in Uploads, WriteItem(u) PROVE TypeOK'
  <2>1. written[u] + 1 \in 1..MaxChunks
    BY <1>4 DEF WriteItem, ItemsLeft, TypeOK
  <2>2. [upload |-> u, item |-> written[u] + 1] \in Chunk
    BY <2>1 DEF Chunk
  <2>3. written' \in [Uploads -> 0..MaxChunks]
    BY <1>4, <2>1 DEF WriteItem, TypeOK
  <2>4. failed' \in [Uploads -> SUBSET (1..MaxChunks)]
    BY <1>4, <2>1 DEF WriteItem, TypeOK
  <2>5. QED
    BY <1>4, <2>2, <2>3, <2>4 DEF WriteItem, TypeOK, fixed
<1>5. ASSUME NEW d \in Deletions, Find(d) \/ Remove(d) \/ DeleteReturns(d) PROVE TypeOK'
  <2>1. d \in Calls
    BY DEF Calls
  <2>2. found' \in [Deletions -> SUBSET Chunk]
    BY <1>5 DEF Find, Remove, DeleteReturns, Matches, TypeOK
  <2>3. QED
    BY <1>2, <1>5, <2>1, <2>2 DEF Find, Remove, DeleteReturns, TypeOK, fixed
<1>6. ASSUME NEW c \in Calls, Refresh(c) PROVE TypeOK'
  BY <1>2, <1>6 DEF Refresh, TypeOK, fixed
<1>7. ASSUME NEW c \in Calls, LoseAnswer(c) PROVE TypeOK'
  BY <1>7 DEF LoseAnswer, TypeOK, fixed
<1>8. CASE PeriodicRefresh \/ UNCHANGED vars
  BY <1>8 DEF PeriodicRefresh, vars, TypeOK, fixed
<1>9. QED
  BY <1>1, <1>3, <1>4, <1>5, <1>6, <1>7, <1>8
     DEF Next, Upload, Delete, ServeUpload, ServeDeletion, Finished, Calls

-----------------------------------------------------------------------------
(* One lemma for each action.                                               *)

\* A new call has done nothing; as far as it comes after others, they are over.
LEMMA ArriveKeepsInv ==
  ASSUME DocumentInv, TypeOK', NEW c \in Calls, NEW first \in {"embed", "find"},
         Arrive(c, first), c \in Uploads => first = "embed"
  PROVE  DocumentInv'
<1> USE DEF DocumentInv, Arrive, fixed
<1>1. pc' = [pc EXCEPT ![c] = first] /\ pc[c] = "idle" /\ answer[c] # "ok"
  BY DEF AnswerInv
<1>2. \A b \in Calls : b # c => pc'[b] = pc[b]
  BY <1>1 DEF TypeOK
<1>3. pc'[c] = first
  BY <1>1 DEF TypeOK
<1>4. \A p \in later' : p \in later \/ p[2] = c
  OBVIOUS
<1>5. LaterInv'
  BY <1>1, <1>2, <1>3 DEF LaterInv
<1>6. ProgressInv'
  BY <1>1, <1>2, <1>3 DEF ProgressInv, ChunksOf, Calls
<1>7. AnswerInv'
  BY <1>1, <1>2 DEF AnswerInv
<1>8. ASSUME NEW u \in Uploads, u # c, Disturbing(u)' = {} PROVE Disturbing(u) = {}
  <2>1. \A d \in Deletions : <<d, u>> \in later' => <<d, u>> \in later
    BY <1>8, <1>4
  <2>2. \A d \in Deletions : pc[d] # "idle" => pc'[d] # "idle"
    BY <1>1, <1>2, <1>3 DEF Calls
  <2>3. QED
    BY <1>8, <2>1, <2>2 DEF Disturbing
<1>9. KeptInv'
  <2>1. c \in Uploads => written[c] = 0
    BY <1>1 DEF ProgressInv
  <2>2. c \in Uploads => Indexed(c)' = {}
    BY <2>1 DEF Indexed
  <2>3. \A u \in Uploads : Indexed(u)' = Indexed(u)
    BY DEF Indexed
  <2>4. QED
    BY <1>8, <2>2, <2>3 DEF KeptInv
<1>10. WaitedInv'
  BY <1>1, <1>2, <1>3 DEF WaitedInv, ChunksOf, Calls
<1>11. FoundInv'
  BY DEF FoundInv
<1>12. DeletingInv'
  BY <1>1, <1>2, <1>3, <1>4 DEF DeletingInv, ChunksOf, Calls
<1>13. UploadIsSearchable'
  BY <1>1, <1>8 DEF UploadIsSearchable
<1>14. DeletedIsGone'
  BY <1>1, <1>4 DEF DeletedIsGone
<1>15. QED
  BY <1>5, <1>6, <1>7, <1>9, <1>10, <1>11, <1>12, <1>13, <1>14

\* What an upload is about to do concerns no pair of calls that followed.
LEMMA UploadNotLater ==
  ASSUME DocumentInv, NEW u \in Uploads, pc[u] # "done", pc[u] # "idle"
  PROVE  u \in Calls /\ u \notin Deletions /\ \A c \in Calls : <<u, c>> \notin later
BY DocumentAssumption DEF DocumentInv, LaterInv, Calls

\* A step that only moves one call on, past no promise.
LEMMA MoveKeepsInv ==
  ASSUME DocumentInv, TypeOK', NEW c \in Calls, pc[c] # "done", pc[c] # "idle",
         pc' = [pc EXCEPT ![c] = pc'[c]], pc'[c] \notin {"idle", "embed"},
         answer' = [answer EXCEPT ![c] = answer'[c]], answer'[c] # "ok",
         UNCHANGED <<index, visible, fixed, written, failed, found, later>>,
         c \in Uploads /\ pc'[c] = "refresh" => written[c] = chunks[c] /\ failed[c] = {},
         c \in Uploads /\ pc'[c] \in {"refresh", "done"} => ChunksOf(c) \subseteq visible,
         c \in Deletions /\ pc'[c] = "delete" => pc[c] = "delete",
         c \in Deletions /\ pc'[c] = "refresh" => pc[c] = "delete" /\ found[c] = {}
  PROVE  DocumentInv'
<1> USE DEF DocumentInv, fixed
<1>1. \A b \in Calls : b # c => pc'[b] = pc[b] /\ answer'[b] = answer[b]
  BY DEF TypeOK
<1>2. answer[c] # "ok"
  BY DEF AnswerInv
<1>3. \A u \in Uploads : ChunksOf(u)' = ChunksOf(u) /\ Indexed(u)' = Indexed(u)
  BY DEF ChunksOf, Indexed
<1>4. \A u \in Uploads : Disturbing(u)' = Disturbing(u)
  BY <1>1 DEF Disturbing, Calls
<1>5. LaterInv'
  BY <1>1 DEF LaterInv
<1>6. ProgressInv'
  BY <1>1, <1>3 DEF ProgressInv, Calls
<1>7. AnswerInv'
  BY <1>1 DEF AnswerInv
<1>8. KeptInv'
  BY <1>3, <1>4 DEF KeptInv
<1>9. WaitedInv'
  BY <1>1, <1>3 DEF WaitedInv, Calls
<1>10. FoundInv'
  BY DEF FoundInv
<1>11. DeletingInv'
  BY <1>1, <1>3 DEF DeletingInv, Calls
<1>12. UploadIsSearchable'
  BY <1>1, <1>4 DEF UploadIsSearchable, Calls
<1>13. DeletedIsGone'
  BY <1>1 DEF DeletedIsGone, Calls
<1>14. QED
  BY <1>5, <1>6, <1>7, <1>8, <1>9, <1>10, <1>11, <1>12, <1>13

\* The model answers before anything is written.
LEMMA EmbedKeepsInv ==
  ASSUME DocumentInv, TypeOK', NEW u \in Uploads, Embed(u)
  PROVE  DocumentInv'
<1>1. pc[u] = "embed" /\ ChunksOf(u) = {} /\ u \in Calls /\ u \notin Deletions
  BY DocumentAssumption DEF DocumentInv, ProgressInv, Embed, Calls
<1>2. Proceed(u, "bulk") \/ End(u, "error")
  BY DEF Embed
<1>3. /\ pc' = [pc EXCEPT ![u] = pc'[u]] /\ pc'[u] \in {"bulk", "done"}
      /\ answer' = [answer EXCEPT ![u] = answer'[u]] /\ answer'[u] # "ok"
  BY <1>1, <1>2, WhereItGoes DEF DocumentInv
<1>4. UNCHANGED <<index, visible, fixed, written, failed, found, later>>
  BY DEF Embed
<1>5. QED
  BY <1>1, <1>3, <1>4, MoveKeepsInv

\* An item belongs to an upload that nothing came after yet.
LEMMA WriteItemKeepsInv ==
  ASSUME DocumentInv, TypeOK', NEW u \in Uploads, WriteItem(u)
  PROVE  DocumentInv'
<1> USE DEF DocumentInv, fixed
<1> DEFINE n == written[u] + 1
<1>1. /\ pc[u] = "bulk" /\ written[u] < chunks[u] /\ written[u] \in Nat
      /\ chunks[u] \in Nat /\ n \in Nat
      /\ written' = [written EXCEPT ![u] = n]
      /\ UNCHANGED <<visible, file, chunks, pc, found, answer, later>>
  BY DocumentAssumption DEF WriteItem, ItemsLeft, TypeOK
<1>2. \A c \in index' : c \in index \/ (c = [upload |-> u, item |-> n] /\ index \subseteq index')
  BY DEF WriteItem
<1>3. index \subseteq index'
  BY DEF WriteItem
<1>4. \A v \in Uploads : v # u =>
        ChunksOf(v)' = ChunksOf(v) /\ written'[v] = written[v] /\ failed'[v] = failed[v]
  BY <1>1, <1>2, <1>3 DEF ChunksOf, WriteItem, TypeOK
<1>5. u \notin Deletions /\ \A c \in Calls : <<u, c>> \notin later
  BY <1>1, UploadNotLater
<1>6. answer[u] # "ok"
  BY <1>1 DEF AnswerInv, Calls
<1>7. LaterInv' /\ AnswerInv' /\ FoundInv'
  BY <1>1 DEF LaterInv, AnswerInv, FoundInv
<1>8. written'[u] = n
  BY <1>1 DEF TypeOK
<1>9. ProgressInv'
  BY <1>1, <1>4, <1>6, <1>8 DEF ProgressInv
<1>10. KeptInv'
  <2>1. ASSUME NEW v \in Uploads, v # u PROVE Indexed(v)' = Indexed(v)
    BY <1>4, <2>1 DEF Indexed
  <2>2. \A v \in Uploads : Disturbing(v)' = Disturbing(v)
    BY <1>1 DEF Disturbing
  <2>3. Indexed(u)' \subseteq Indexed(u) \cup (index' \ index) \cup index'
    <3>1. ASSUME NEW i \in (1..n) \ failed'[u]
          PROVE  [upload |-> u, item |-> i] \in Indexed(u) \cup index'
      <4>1. CASE i = n
        BY <1>1, <3>1, <4>1 DEF WriteItem, TypeOK
      <4>2. CASE i # n
        <5>1. i \in (1..written[u]) \ failed[u]
          BY <1>1, <3>1, <4>2 DEF WriteItem, TypeOK
        <5>2. QED
          BY <5>1 DEF Indexed
      <4>3. QED
        BY <4>1, <4>2
    <3>2. QED
      BY <1>8, <3>1 DEF Indexed
  <2>4. QED
    BY <1>3, <2>1, <2>2, <2>3 DEF KeptInv
<1>11. WaitedInv'
  BY <1>1, <1>4 DEF WaitedInv
<1>12. DeletingInv'
  BY <1>1, <1>4, <1>5 DEF DeletingInv, Calls
<1>13. UploadIsSearchable'
  BY <1>1 DEF UploadIsSearchable, Disturbing
<1>14. DeletedIsGone'
  BY <1>1, <1>2, <1>5 DEF DeletedIsGone, Calls
<1>15. QED
  BY <1>7, <1>9, <1>10, <1>11, <1>12, <1>13, <1>14

\* The bulk request returns when searches see what it wrote, and what failed in it is
\* looked at.
LEMMA BulkReturnsKeepsInv ==
  ASSUME DocumentInv, TypeOK', NEW u \in Uploads, BulkReturns(u)
  PROVE  DocumentInv'
<1>1. pc[u] = "bulk" /\ u \in Calls /\ u \notin Deletions
  BY DocumentAssumption DEF BulkReturns, Calls
<1>2. Proceed(u, "refresh") \/ End(u, "error")
  BY DEF BulkReturns
<1>3. /\ pc' = [pc EXCEPT ![u] = pc'[u]] /\ pc'[u] \in {"refresh", "done"}
      /\ answer' = [answer EXCEPT ![u] = answer'[u]] /\ answer'[u] # "ok"
  BY <1>1, <1>2, WhereItGoes DEF DocumentInv
<1>4. UNCHANGED <<index, visible, fixed, written, failed, found, later>>
  BY DEF BulkReturns
<1>5. pc'[u] = "refresh" => written[u] = chunks[u] /\ failed[u] = {}
  <2>1. written[u] = chunks[u]
    BY DocumentAssumption DEF BulkReturns, ItemsLeft, DocumentInv, ProgressInv, TypeOK
  <2>2. failed[u] # {} => pc'[u] = "done"
    BY <1>1 DEF BulkReturns, End, DocumentInv, TypeOK
  <2>3. QED
    BY <2>1, <2>2
<1>6. ChunksOf(u) \subseteq visible
  BY DEF BulkReturns, WaitedFor
<1>7. QED
  BY <1>1, <1>3, <1>4, <1>5, <1>6, MoveKeepsInv

\* A deletion finds all there is of the uploads before it, since they have waited.
LEMMA FindKeepsInv ==
  ASSUME DocumentInv, TypeOK', NEW d \in Deletions, Find(d)
  PROVE  DocumentInv'
<1>1. pc[d] = "find" /\ d \in Calls /\ d \notin Uploads
  BY DocumentAssumption DEF Find, Calls
<1>2. Proceed(d, "delete") \/ End(d, "error")
  BY DEF Find
<1>3. /\ pc' = [pc EXCEPT ![d] = pc'[d]] /\ pc'[d] \in {"delete", "done"}
      /\ answer' = [answer EXCEPT ![d] = answer'[d]] /\ answer'[d] # "ok"
      /\ answer[d] # "ok"
  BY <1>1, <1>2, WhereItGoes DEF DocumentInv
<1>4. UNCHANGED <<index, visible, fixed, written, failed, later>>
  BY DEF Find
<1>5. CASE UNCHANGED found /\ End(d, "error")
  <2>1. pc'[d] = "done"
    BY <1>1, <1>5 DEF End, DocumentInv, TypeOK
  <2>2. QED
    BY <1>1, <1>3, <1>4, <1>5, <2>1, MoveKeepsInv
<1>6. CASE found' = [found EXCEPT ![d] = Matches(d)]
  <2> USE DEF DocumentInv, fixed
  <2>1. \A b \in Calls : b # d => pc'[b] = pc[b] /\ answer'[b] = answer[b]
    BY <1>3 DEF TypeOK
  <2>2. found'[d] = Matches(d) /\ \A e \in Deletions : e # d => found'[e] = found[e]
    BY <1>6 DEF TypeOK
  <2>3. \A u \in Uploads : /\ ChunksOf(u)' = ChunksOf(u) /\ Indexed(u)' = Indexed(u)
                           /\ Disturbing(u)' = Disturbing(u)
    BY <1>1, <1>3, <1>4, <2>1 DEF ChunksOf, Indexed, Disturbing, Calls
  <2>4. \A u \in Uploads : u # d /\ u \in Calls
    BY <1>1 DEF Calls
  <2>5. LaterInv' /\ AnswerInv'
    BY <1>1, <1>3, <1>4, <2>1 DEF LaterInv, AnswerInv
  <2>6. ProgressInv' /\ KeptInv' /\ WaitedInv' /\ UploadIsSearchable'
    BY <1>4, <2>1, <2>3, <2>4 DEF ProgressInv, KeptInv, WaitedInv, UploadIsSearchable
  <2>7. FoundInv'
    BY <1>4, <2>2 DEF FoundInv, Matches
  <2>8. ASSUME NEW u \in Uploads, <<u, d>> \in later PROVE ChunksOf(u) \subseteq Matches(d)
    <3>1. pc[u] = "done" /\ file[u] = file[d]
      BY <1>1, <2>4, <2>8 DEF LaterInv
    <3>2. ChunksOf(u) \subseteq visible
      BY <3>1 DEF WaitedInv
    <3>3. QED
      BY <3>1, <3>2 DEF ChunksOf, Matches
  <2>9. DeletingInv'
    BY <1>3, <1>4, <2>1, <2>2, <2>3, <2>8 DEF DeletingInv, Calls
  <2>10. DeletedIsGone'
    BY <1>3, <1>4, <2>1 DEF DeletedIsGone, Calls
  <2>11. QED
    BY <2>5, <2>6, <2>7, <2>9, <2>10
<1>7. QED
  BY <1>5, <1>6 DEF Find

\* A chunk that is taken is of an upload that this deletion disturbs.
LEMMA RemoveKeepsInv ==
  ASSUME DocumentInv, TypeOK', NEW d \in Deletions, Remove(d)
  PROVE  DocumentInv'
<1> USE DEF DocumentInv, fixed
<1>1. /\ pc[d] = "delete" /\ d \in Calls /\ d \notin Uploads
      /\ UNCHANGED <<visible, file, chunks, written, failed, later>>
  BY DocumentAssumption DEF Remove, Calls
<1>2. PICK c \in found[d] :
        \/ /\ c \in index /\ index' = index \ {c}
           /\ found' = [found EXCEPT ![d] = @ \ {c}]
           /\ UNCHANGED <<pc, answer>>
        \/ /\ found' = [found EXCEPT ![d] = {}]
           /\ End(d, "error")
           /\ index' = index
  BY DEF Remove
<1>3. /\ pc' = [pc EXCEPT ![d] = pc'[d]] /\ pc'[d] \in {"delete", "done"}
      /\ answer' = [answer EXCEPT ![d] = answer'[d]] /\ answer'[d] # "ok"
      /\ answer[d] # "ok"
  <2>1. answer[d] # "ok"
    BY <1>1 DEF AnswerInv
  <2>2. CASE UNCHANGED <<pc, answer>>
    BY <1>1, <2>1, <2>2 DEF TypeOK
  <2>3. CASE End(d, "error")
    BY <1>1, <2>1, <2>3, WhereItGoes DEF End, TypeOK
  <2>4. QED
    BY <1>2, <2>1, <2>2, <2>3
<1>4. \A b \in Calls : b # d => pc'[b] = pc[b] /\ answer'[b] = answer[b]
  BY <1>3 DEF TypeOK
<1>5. /\ index' \subseteq index /\ index \ index' \subseteq {c}
      /\ \A e \in Deletions : e # d => found'[e] = found[e]
      /\ found'[d] \subseteq found[d]
      /\ pc'[d] = "delete" => index' = index \ {c} /\ found'[d] = found[d] \ {c}
  <2>1. CASE index' = index \ {c} /\ found' = [found EXCEPT ![d] = @ \ {c}]
    BY <2>1 DEF TypeOK
  <2>2. CASE found' = [found EXCEPT ![d] = {}] /\ End(d, "error") /\ index' = index
    BY <1>1, <2>2 DEF TypeOK, End
  <2>3. QED
    BY <1>2, <2>1, <2>2
<1>6. \A u \in Uploads : /\ ChunksOf(u)' \subseteq ChunksOf(u) /\ Indexed(u)' = Indexed(u)
                         /\ Disturbing(u)' = Disturbing(u)
  BY <1>1, <1>3, <1>4, <1>5 DEF ChunksOf, Indexed, Disturbing, Calls
<1>7. \A u \in Uploads : u # d /\ u \in Calls
  BY <1>1 DEF Calls
<1>8. LaterInv' /\ AnswerInv'
  BY <1>1, <1>3, <1>4 DEF LaterInv, AnswerInv
<1>9. ProgressInv' /\ WaitedInv' /\ UploadIsSearchable'
  BY <1>1, <1>4, <1>6, <1>7 DEF ProgressInv, WaitedInv, UploadIsSearchable
<1>10. KeptInv'
  <2>1. ASSUME NEW u \in Uploads, Disturbing(u) = {} PROVE c \notin Indexed(u)
    <3>1. \A i : c = [upload |-> u, item |-> i] => c.upload = u
      OBVIOUS
    <3>2. file[c.upload] = file[d]
      BY DEF FoundInv
    <3>3. <<d, u>> \notin later
      BY <1>1, <1>7 DEF LaterInv
    <3>4. c.upload # u
      BY <1>1, <2>1, <3>2, <3>3 DEF Disturbing
    <3>5. QED
      BY <3>1, <3>4 DEF Indexed
  <2>2. QED
    BY <1>5, <1>6, <2>1 DEF KeptInv
<1>11. FoundInv'
  BY <1>1, <1>5 DEF FoundInv
<1>12. DeletingInv'
  <2>1. ASSUME NEW u \in Uploads, NEW e \in Deletions, <<u, e>> \in later, e # d
        PROVE  /\ pc'[e] = "delete" => ChunksOf(u)' \subseteq found'[e]
               /\ pc'[e] = "refresh" \/ answer'[e] = "ok" => ChunksOf(u)' = {}
    BY <1>4, <1>5, <1>6, <2>1 DEF DeletingInv, Calls
  <2>2. ASSUME NEW u \in Uploads, <<u, d>> \in later, pc'[d] = "delete"
        PROVE  ChunksOf(u)' \subseteq found'[d]
    BY <1>1, <1>5, <2>2 DEF DeletingInv, ChunksOf
  <2>3. QED
    BY <1>1, <1>3, <2>1, <2>2 DEF DeletingInv
<1>13. DeletedIsGone'
  BY <1>1, <1>3, <1>4, <1>5 DEF DeletedIsGone, Calls
<1>14. QED
  BY <1>8, <1>9, <1>10, <1>11, <1>12, <1>13

\* A deletion that has nothing left has deleted all it had found.
LEMMA DeleteReturnsKeepsInv ==
  ASSUME DocumentInv, TypeOK', NEW d \in Deletions, DeleteReturns(d)
  PROVE  DocumentInv'
<1>1. pc[d] = "delete" /\ found[d] = {} /\ d \in Calls /\ d \notin Uploads
  BY DocumentAssumption DEF DeleteReturns, Calls
<1>2. Proceed(d, "refresh")
  BY DEF DeleteReturns
<1>3. /\ pc' = [pc EXCEPT ![d] = pc'[d]] /\ pc'[d] \in {"refresh", "done"}
      /\ answer' = [answer EXCEPT ![d] = answer'[d]] /\ answer'[d] # "ok"
  BY <1>1, <1>2, WhereItGoes DEF DocumentInv
<1>4. UNCHANGED <<index, visible, fixed, written, failed, found, later>>
  BY DEF DeleteReturns
<1>5. QED
  BY <1>1, <1>3, <1>4, MoveKeepsInv

\* Searches are shown the index, which is right by the invariants about it.
LEMMA VisibleKeepsInv ==
  ASSUME DocumentInv, TypeOK', visible' = index,
         UNCHANGED <<index, fixed, pc, written, failed, found, answer, later>>
  PROVE  DocumentInv'
<1> USE DEF DocumentInv, fixed
<1>1. \A u \in Uploads : /\ ChunksOf(u)' = ChunksOf(u) /\ Indexed(u)' = Indexed(u)
                         /\ Disturbing(u)' = Disturbing(u)
  BY DEF ChunksOf, Indexed, Disturbing
<1>2. LaterInv' /\ AnswerInv' /\ FoundInv'
  BY DEF LaterInv, AnswerInv, FoundInv
<1>3. ProgressInv' /\ KeptInv' /\ DeletingInv'
  BY <1>1 DEF ProgressInv, KeptInv, DeletingInv
<1>4. WaitedInv'
  BY DEF WaitedInv, ChunksOf
<1>5. ASSUME NEW u \in Uploads, written[u] = chunks[u], failed[u] = {},
             Disturbing(u) = {}
      PROVE  {[upload |-> u, item |-> n] : n \in 1..chunks[u]} \subseteq index
  BY <1>5 DEF KeptInv, Indexed
<1>6. UploadIsSearchable'
  BY <1>1, <1>5 DEF UploadIsSearchable, ProgressInv
<1>7. DeletedIsGone'
  BY DEF DeletedIsGone
<1>8. QED
  BY <1>2, <1>3, <1>4, <1>6, <1>7

\* The last step of a call: what it promises is in the index, and searches see
\* the index.
LEMMA RefreshKeepsInv ==
  ASSUME DocumentInv, TypeOK', NEW c \in Calls, Refresh(c)
  PROVE  DocumentInv'
<1>1. pc[c] = "refresh"
  BY DEF Refresh
<1>2. CASE End(c, "error") /\ UNCHANGED visible
  <2>1. /\ pc' = [pc EXCEPT ![c] = pc'[c]]
        /\ answer' = [answer EXCEPT ![c] = answer'[c]] /\ answer'[c] # "ok"
    BY <1>1, <1>2, WhereItGoes DEF DocumentInv
  <2>2. pc'[c] = "done"
    BY <1>1, <1>2 DEF End, DocumentInv, TypeOK
  <2>3. c \in Uploads => ChunksOf(c) \subseteq visible
    BY <1>1 DEF DocumentInv, WaitedInv
  <2>4. UNCHANGED <<index, visible, fixed, written, failed, found, later>>
    BY <1>2 DEF Refresh
  <2>5. QED
    BY <1>1, <2>1, <2>2, <2>3, <2>4, MoveKeepsInv
<1>3. CASE End(c, "ok") /\ visible' = index
  <2> USE DEF DocumentInv, fixed
  <2>1. UNCHANGED <<index, file, chunks, written, failed, found, later>>
    BY DEF Refresh, fixed
  <2>2. pc'[c] = "done" /\ \A b \in Calls : b # c => pc'[b] = pc[b] /\ answer'[b] = answer[b]
    BY <1>1, <1>3 DEF End, TypeOK
  <2>3. \A u \in Uploads : /\ ChunksOf(u)' = ChunksOf(u) /\ Indexed(u)' = Indexed(u)
                           /\ Disturbing(u)' = Disturbing(u)
    BY <1>1, <2>1, <2>2 DEF ChunksOf, Indexed, Disturbing, Calls
  <2>4. LaterInv' /\ AnswerInv' /\ FoundInv'
    BY <1>1, <2>1, <2>2 DEF LaterInv, AnswerInv, FoundInv
  <2>5. ProgressInv'
    BY <1>1, <2>1, <2>2, <2>3 DEF ProgressInv, Calls
  <2>6. KeptInv'
    BY <2>1, <2>3 DEF KeptInv
  <2>7. WaitedInv'
    BY <1>3, <2>1 DEF WaitedInv, ChunksOf
  <2>8. DeletingInv'
    BY <1>1, <2>1, <2>2, <2>3 DEF DeletingInv, Calls
  <2>9. ASSUME NEW u \in Uploads, answer'[u] = "ok", Disturbing(u) = {}
        PROVE  {[upload |-> u, item |-> n] : n \in 1..chunks[u]} \subseteq index
    <3>1. written[u] = chunks[u] /\ failed[u] = {}
      BY <1>1, <2>2, <2>9 DEF ProgressInv, Calls
    <3>2. QED
      BY <2>9, <3>1 DEF KeptInv, Indexed
  <2>10. UploadIsSearchable'
    BY <1>3, <2>1, <2>3, <2>9 DEF UploadIsSearchable
  <2>11. ASSUME NEW u \in Uploads, NEW d \in Deletions, <<u, d>> \in later,
                answer'[d] = "ok", NEW k \in index
         PROVE  k.upload # u
    <3>1. ChunksOf(u) = {}
      BY <1>1, <2>2, <2>11 DEF DeletingInv, Calls
    <3>2. QED
      BY <3>1 DEF ChunksOf
  <2>12. DeletedIsGone'
    BY <1>3, <2>1, <2>11 DEF DeletedIsGone
  <2>13. QED
    BY <2>4, <2>5, <2>6, <2>7, <2>8, <2>10, <2>12
<1>4. QED
  BY <1>2, <1>3 DEF Refresh

\* A client that lost its answer is told of no success.
LEMMA LoseAnswerKeepsInv ==
  ASSUME DocumentInv, TypeOK', NEW c \in Calls, LoseAnswer(c)
  PROVE  DocumentInv'
<1>1. pc[c] \in {"bulk", "delete"} /\ pc' = [pc EXCEPT ![c] = pc'[c]] /\ pc'[c] = pc[c]
  BY DEF LoseAnswer, DocumentInv, TypeOK
<1>2. answer' = [answer EXCEPT ![c] = answer'[c]] /\ answer'[c] # "ok"
  BY DEF LoseAnswer, DocumentInv, TypeOK
<1>3. UNCHANGED <<index, visible, fixed, written, failed, found, later>>
  BY DEF LoseAnswer
<1>4. QED
  BY <1>1, <1>2, <1>3, MoveKeepsInv

\* Nothing happens.
LEMMA StutterKeepsInv ==
  ASSUME DocumentInv, UNCHANGED vars PROVE DocumentInv'
BY DEF DocumentInv, vars, TypeOK, LaterInv, ProgressInv, AnswerInv, KeptInv, WaitedInv,
       FoundInv, DeletingInv, UploadIsSearchable, DeletedIsGone, Disturbing, Indexed,
       ChunksOf

\* Every step.
LEMMA NextKeepsInv ==
  ASSUME DocumentInv, [Next]_vars PROVE DocumentInv'
<1>1. TypeOK'
  BY StepKeepsTypes DEF DocumentInv
<1>2. ASSUME NEW u \in Uploads, Upload(u) \/ ServeUpload(u) PROVE DocumentInv'
  <2>1. u \in Calls
    BY DEF Calls
  <2>2. CASE Upload(u)
    BY <1>1, <2>1, <2>2, ArriveKeepsInv DEF Upload
  <2>3. CASE ServeUpload(u)
    BY <1>1, <2>1, <2>3, EmbedKeepsInv, WriteItemKeepsInv, BulkReturnsKeepsInv,
       RefreshKeepsInv DEF ServeUpload
  <2>4. QED
    BY <1>2, <2>2, <2>3
<1>3. ASSUME NEW d \in Deletions, Delete(d) \/ ServeDeletion(d) PROVE DocumentInv'
  <2>1. d \in Calls /\ d \notin Uploads
    BY DocumentAssumption DEF Calls
  <2>2. CASE Delete(d)
    BY <1>1, <2>1, <2>2, ArriveKeepsInv DEF Delete
  <2>3. CASE ServeDeletion(d)
    BY <1>1, <2>1, <2>3, FindKeepsInv, RemoveKeepsInv, DeleteReturnsKeepsInv,
       RefreshKeepsInv DEF ServeDeletion
  <2>4. QED
    BY <1>3, <2>2, <2>3
<1>4. ASSUME NEW c \in Calls, LoseAnswer(c) PROVE DocumentInv'
  BY <1>1, <1>4, LoseAnswerKeepsInv
<1>5. CASE PeriodicRefresh
  BY <1>1, <1>5, VisibleKeepsInv DEF PeriodicRefresh
<1>6. CASE UNCHANGED vars
  BY <1>6, StutterKeepsInv
<1>7. QED
  BY <1>2, <1>3, <1>4, <1>5, <1>6 DEF Next, Finished

-----------------------------------------------------------------------------
(* Theorems.                                                                *)

\* The inductive invariant: where each upload and each deletion is, and what is
\* left of an upload at each await of its own and of the deletions after it.
THEOREM DocumentInvariant == Spec => []DocumentInv
<1>1. Init => DocumentInv
  BY InitEstablishesInv
<1>2. DocumentInv /\ [Next]_vars => DocumentInv'
  BY NextKeepsInv
<1>3. QED
  BY <1>1, <1>2, PTL DEF Spec

\* Type correctness.
THEOREM DocumentTypeCorrect == Spec => []TypeOK
<1>1. DocumentInv => TypeOK
  BY DEF DocumentInv
<1>2. QED
  BY <1>1, DocumentInvariant, PTL

\* An upload that reported success is searchable as a whole until a deletion of
\* its file comes that was not over before.
THEOREM UploadsAreSearchable == Spec => []UploadIsSearchable
<1>1. DocumentInv => UploadIsSearchable
  BY DEF DocumentInv
<1>2. QED
  BY <1>1, DocumentInvariant, PTL

\* A deletion that reported success leaves nothing of the uploads of its file that
\* had ended before it, for good.
THEOREM DeletedStaysGone == Spec => []DeletedIsGone
<1>1. DocumentInv => DeletedIsGone
  BY DEF DocumentInv
<1>2. QED
  BY <1>1, DocumentInvariant, PTL

=============================================================================
