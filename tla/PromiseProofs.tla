----------------------------- MODULE PromiseProofs -----------------------------
(***************************************************************************)
(* The short-term memory implements ConversationLog when it serves one      *)
(* request at a time, for any finite set of requests, any sizes of messages *)
(* and of the window, and any failures, crashes, clearings and expiries.    *)
(*                                                                         *)
(* SerialInv says what the one active request has read: the keys are still  *)
(* as they were then.  BoundInv says how large the window may be at each    *)
(* await: only what the active turn added, or failed to summarise, can be   *)
(* over the cap.                                                            *)
(***************************************************************************)
EXTENDS MemoryProofs, FiniteSetTheorems

\* One request at a time, and the value of an absent key is no list of messages.
Serial ==
  /\ MaxInFlight = 1 /\ IsFiniteSet(Requests)
  /\ Absent \notin Seq(Message)

\* The messages a summary of w is made from.
Oldest(w) == SubSeq(w, 1, SplitIndex(w))

\* What a request has read is what the keys hold.
UpToDate(r) ==
  /\ creating[r] => Active(r) /\ window = Absent
  /\ pc[r] = "storeTrimmed" => copy[r] = Trimmed(Window)
  /\ pc[r] \in {"storeAdded", "readSummarised", "storeSummary", "storeRemaining"} =>
       copy[r] = Window
  /\ pc[r] = "storeSummary" => older[r] = summary
  /\ pc[r] = "storeRemaining" => Elements(Oldest(copy[r])) \subseteq Elements(summary)

\* No other request is in progress.
Alone(r) == \A q \in Requests \ {r} : ~Active(q)

SerialInv ==
  /\ \A r \in Requests : Active(r) => Alone(r)
  /\ \A r \in Requests : UpToDate(r)

\* A step is one of ConversationLog, or none for it.
IsPromised == [Promise!Next]_(Promise!vars)

-----------------------------------------------------------------------------
(* Steps of the abstract specification.                                     *)

\* A step that leaves the keys, as one sees them, is none.
LEMMA NothingHappens ==
  ASSUME Window' = Window, UNCHANGED <<summary, log, lapses>>
  PROVE  IsPromised
BY DEF IsPromised, Promise!vars

\* A message is stored.
LEMMA SaysIt ==
  ASSUME NEW m \in Message, Window' = Append(Window, m), log' = Append(log, m),
         UNCHANGED <<summary, lapses>>
  PROVE  IsPromised
<1>1. Promise!Say(m)
  BY DEF Promise!Say
<1>2. QED
  BY <1>1 DEF IsPromised, Promise!Next

\* The oldest messages are summarised.
LEMMA CondensesIt ==
  ASSUME NEW k \in 1..Len(Window), summary' = summary \o SubSeq(Window, 1, k),
         Window' = Window, UNCHANGED <<log, lapses>>
  PROVE  IsPromised
<1>1. Promise!Condense
  BY DEF Promise!Condense
<1>2. QED
  BY <1>1 DEF IsPromised, Promise!Next

\* The oldest messages leave the window.
LEMMA DropsIt ==
  ASSUME NEW k \in 1..Len(Window), Window' = From(Window, k + 1),
         \/ Elements(SubSeq(Window, 1, k)) \subseteq Elements(summary)
         \/ k < Len(Window) /\ \A i \in 1..k : TooLarge(From(Window, i)),
         UNCHANGED <<summary, log, lapses>>
  PROVE  IsPromised
<1>1. \A s : Promise!Elements(s) = Elements(s)
  BY DEF Promise!Elements, Elements
<1>2. \A s, i : Promise!From(s, i) = From(s, i)
  BY DEF Promise!From, From
<1>3. Promise!Drop
  BY <1>1, <1>2 DEF Promise!Drop
<1>4. QED
  BY <1>3 DEF IsPromised, Promise!Next

\* A key goes, or both.
LEMMA LapsesIt ==
  ASSUME lapses' = lapses + 1, log' = log,
         \/ Window' = <<>> /\ summary' = summary
         \/ Window' = Window /\ summary' = <<>>
         \/ Window' = <<>> /\ summary' = <<>>
  PROVE  IsPromised
<1>1. Promise!Lapse
  BY DEF Promise!Lapse
<1>2. QED
  BY <1>1 DEF IsPromised, Promise!Next

\* What entered the summary is in it.
LEMMA AddedIsIn ==
  ASSUME NEW S, NEW s \in Seq(S), NEW t \in Seq(S)
  PROVE  Elements(t) \subseteq Elements(s \o t)
<1>1. ASSUME NEW i \in DOMAIN t PROVE t[i] \in Elements(s \o t)
  <2>1. Len(s) + i \in DOMAIN (s \o t) /\ (s \o t)[Len(s) + i] = t[i]
    OBVIOUS
  <2>2. QED
    BY <2>1 DEF Elements
<1>2. QED
  BY <1>1 DEF Elements

-----------------------------------------------------------------------------
(* Steps of one request.                                                    *)

\* Nothing that SerialInv knows of another request changes.
OthersRest(r) ==
  \A q \in Requests \ {r} : pc'[q] = pc[q] /\ creating'[q] = creating[q]

\* What is left to show for a step of one request.
LEMMA StepKeepsSerial ==
  ASSUME SerialInv, NEW r \in Requests, Alone(r), OthersRest(r), UpToDate(r)'
  PROVE  SerialInv'
<1>1. ASSUME NEW q \in Requests \ {r}
      PROVE  ~Active(q)' /\ ~creating'[q] /\ pc'[q] \in {"idle", "done"}
  <2>1. ~Active(q)
    BY DEF Alone
  <2>2. ~creating[q]
    BY <2>1 DEF SerialInv, UpToDate
  <2>3. QED
    BY <2>1, <2>2 DEF OthersRest, Active
<1>2. \A q \in Requests \ {r} : UpToDate(q)'
  BY <1>1 DEF UpToDate
<1>3. Alone(r)' /\ \A q \in Requests \ {r} : ~Active(q)'
  BY <1>1 DEF Alone
<1>4. QED
  BY <1>2, <1>3 DEF SerialInv

\* A request that goes on leaves the others where they are.
LEMMA GotoMovesOne ==
  ASSUME MemoryInv, NEW r \in Requests, NEW next, Goto(r, next)
  PROVE  /\ OthersRest(r)
         /\ pc'[r] = next
         /\ next # "done" => UNCHANGED <<creating, adding, copy, older, prompt>>
         /\ next = "done" => creating'[r] = FALSE
<1>1. pc' = [pc EXCEPT ![r] = next]
  BY DEF Goto
<1>2. next = "done" => creating' = [creating EXCEPT ![r] = FALSE]
  BY DEF Goto
<1>3. next # "done" => UNCHANGED <<creating, adding, copy, older, prompt>>
  BY DEF Goto
<1>4. QED
  BY <1>1, <1>2, <1>3 DEF OthersRest, MemoryInv, TypeOK

\* A finished request has nothing left to be up to date.
LEMMA DoneIsUpToDate ==
  ASSUME NEW r \in Requests, pc'[r] \in {"done", "agent"}, ~creating'[r]
  PROVE  UpToDate(r)'
BY DEF UpToDate

\* The only request in progress.
LEMMA ActiveIsAlone ==
  ASSUME SerialInv, NEW r \in Requests, pc[r] \notin {"idle", "done"}
  PROVE  Alone(r)
BY DEF SerialInv, Active

\* The awaits are compared by name throughout.
USE DEF TurnAwaits, Awaits, ThrowingAwaits, AddAwaits, WindowReads

-----------------------------------------------------------------------------
(* One lemma for each action.                                               *)

\* A request arrives when no other is in progress.
LEMMA ArriveServes ==
  ASSUME Serial, MemoryInv, SerialInv,
         NEW r \in Requests, Arrive(r)
  PROVE  SerialInv' /\ IsPromised
<1> DEFINE active == {q \in Requests : Active(q)}
<1>1. active = {}
  <2>1. IsFiniteSet(active)
    BY FS_Subset DEF Serial
  <2>2. Cardinality(active) \in Nat /\ Cardinality(active) < 1
    BY <2>1, FS_CardinalityType DEF Arrive, Serial
  <2>3. QED
    BY <2>1, <2>2, FS_EmptySet
<1>2. Alone(r)
  BY <1>1 DEF Alone
<1>3. pc'[r] \in {"readSummary", "clearWindow"} /\ UNCHANGED creating
  BY DEF Arrive, MemoryInv, TypeOK
<1>4. OthersRest(r)
  BY DEF Arrive, OthersRest, MemoryInv, TypeOK
<1>5. ~creating[r]
  BY DEF MemoryInv, LocalsInv, Arrive
<1>6. UpToDate(r)'
  BY <1>3, <1>5 DEF UpToDate
<1>7. IsPromised
  BY NothingHappens DEF Arrive, stored, Window
<1>8. QED
  BY <1>2, <1>4, <1>6, <1>7, StepKeepsSerial

\* A request continues with the window as it is.
LEMMA ContinueServes ==
  ASSUME MemoryInv, SerialInv, NEW r \in Requests, NEW w, Continue(r, w),
         pc[r] \in WindowReads, w = Window', Window' = Window,
         UNCHANGED <<summary, log, lapses>>
  PROVE  SerialInv' /\ IsPromised
<1> DEFINE next == AfterRead(r, w)
<1>1. Alone(r)
  BY ActiveIsAlone
<1>2. IsPromised
  BY NothingHappens
<1>3. CASE next = "done"
  <2>1. Goto(r, "done")
    BY <1>3 DEF Continue
  <2>2. OthersRest(r) /\ pc'[r] = "done" /\ ~creating'[r]
    BY <2>1, GotoMovesOne
  <2>3. QED
    BY <1>1, <1>2, <2>2, DoneIsUpToDate, StepKeepsSerial
<1>4. CASE next # "done"
  <2>1. /\ creating' = [creating EXCEPT ![r] = FALSE]
        /\ pc' = [pc EXCEPT ![r] = next]
        /\ copy' = [copy EXCEPT ![r] = IF pc[r] = "readActive" THEN Trimmed(w) ELSE w]
    BY <1>4 DEF Continue
  <2>2. \/ pc[r] = "readActive" /\ next \in {"storeTrimmed", "readToAdd"}
        \/ pc[r] # "readActive" /\ next \in {"storeAdded", "readSummarised", "agent"}
    <3>1. CASE pc[r] = "readActive"
      BY <3>1 DEF AfterRead
    <3>2. CASE pc[r] = "readToAdd"
      BY <3>2 DEF AfterRead
    <3>3. CASE pc[r] = "readToSummarise"
      BY <1>4, <3>3 DEF AfterRead, AfterAdd
    <3>4. QED
      BY <3>1, <3>2, <3>3
  <2> HIDE DEF next
  <2>3. /\ pc'[r] = next /\ ~creating'[r]
        /\ copy'[r] = IF pc[r] = "readActive" THEN Trimmed(w) ELSE w
    BY <2>1 DEF MemoryInv, TypeOK
  <2>4. OthersRest(r)
    BY <2>1 DEF OthersRest, MemoryInv, TypeOK
  <2>5. UpToDate(r)'
    BY <2>2, <2>3 DEF UpToDate
  <2>6. QED
    BY <1>1, <1>2, <2>4, <2>5, StepKeepsSerial
<1>5. QED
  BY <1>3, <1>4

\* A window is read; if there is none, there still is none when it is created.
LEMMA ReadWindowServes ==
  ASSUME MemoryInv, SerialInv, NEW r \in Requests, ReadWindow(r)
  PROVE  SerialInv' /\ IsPromised
<1>1. UNCHANGED <<window, summary, log, lapses>> /\ pc[r] \in WindowReads
  BY DEF ReadWindow, stored
<1>2. Window' = Window
  BY <1>1 DEF Window
<1>3. CASE window = Absent
  <2>1. creating' = [creating EXCEPT ![r] = TRUE] /\ pc' = pc
    BY <1>3 DEF ReadWindow
  <2>2. Alone(r) /\ OthersRest(r)
    BY <1>1, <2>1, ActiveIsAlone DEF OthersRest, MemoryInv, TypeOK
  <2>3. UpToDate(r)'
    BY <1>1, <1>3, <2>1 DEF UpToDate, Active
  <2>4. QED
    BY <1>1, <1>2, <2>2, <2>3, NothingHappens, StepKeepsSerial
<1>4. CASE window # Absent
  <2>1. Continue(r, window) /\ window = Window'
    BY <1>1, <1>4 DEF ReadWindow, Window
  <2>2. QED
    BY <1>1, <1>2, <2>1, ContinueServes
<1>5. QED
  BY <1>3, <1>4

\* The empty window is created where there was none.
LEMMA CreateWindowServes ==
  ASSUME MemoryInv, SerialInv, NEW r \in Requests, CreateWindow(r)
  PROVE  SerialInv' /\ IsPromised
<1>1. window = Absent /\ window' = <<>>
  BY DEF CreateWindow, SerialInv, UpToDate
<1>2. Window' = <<>> /\ Window = <<>>
  BY <1>1 DEF Window
<1>3. pc[r] \in WindowReads /\ Continue(r, <<>>) /\ UNCHANGED <<summary, log, lapses>>
  BY DEF CreateWindow, MemoryInv, LocalsInv
<1>4. QED
  BY <1>2, <1>3, ContinueServes

\* A request goes on, or ends, where it holds nothing yet.
LEMMA GotoServes ==
  ASSUME MemoryInv, SerialInv, NEW r \in Requests, pc[r] \notin {"idle", "done"},
         NEW next \in {"done", "agent", "readActive", "readToAdd", "readToSummarise",
                       "clearSummary"},
         Goto(r, next), next = "done" \/ ~creating[r]
  PROVE  SerialInv'
<1>1. /\ OthersRest(r) /\ pc'[r] = next /\ Alone(r)
      /\ next # "done" => UNCHANGED creating
      /\ next = "done" => creating'[r] = FALSE
  BY GotoMovesOne, ActiveIsAlone
<1>2. UpToDate(r)'
  BY <1>1 DEF UpToDate
<1>3. QED
  BY <1>1, <1>2, StepKeepsSerial

\* Only reads of the window are between finding none and creating one.
LEMMA CreatingIsReading ==
  ASSUME MemoryInv, NEW r \in Requests, pc[r] \notin WindowReads PROVE ~creating[r]
BY DEF MemoryInv, LocalsInv

\* A list that was stored is what the window holds.
LEMMA CopyIsHeld ==
  ASSUME Serial, NEW w \in Seq(Message), window' = w
  PROVE  Window' = w
BY DEF Window, Serial

\* addMessage returns to the agent or ends the turn.
LEMMA AfterAddType ==
  ASSUME NEW r \in Requests PROVE AfterAdd(r) \in {"agent", "done"}
BY DEF AfterAdd

\* The window that was read is trimmed.
LEMMA StoreTrimmedServes ==
  ASSUME Serial, MemoryInv, SerialInv, NEW r \in Requests, StoreTrimmed(r)
  PROVE  SerialInv' /\ IsPromised
<1>1. /\ pc[r] = "storeTrimmed" /\ window' = copy[r] /\ Goto(r, "readToAdd")
      /\ UNCHANGED <<summary, log, lapses>>
  BY DEF StoreTrimmed
<1>2. SerialInv'
  BY <1>1, GotoServes, CreatingIsReading
<1>3. copy[r] = Trimmed(Window)
  BY <1>1 DEF SerialInv, UpToDate
<1>4. Window \in Seq(Message)
  BY DEF Window, MemoryInv, TypeOK
<1>5. CASE Window = <<>>
  <2>1. window' = <<>>
    BY <1>1, <1>3, <1>5, TrimmedOfNone
  <2>2. Window' = Window
    BY <1>5, <2>1 DEF Window
  <2>3. QED
    BY <1>1, <1>2, <2>2, NothingHappens
<1>6. CASE Window # <<>>
  <2>1. PICK i \in 1..Len(Window) :
          /\ Trimmed(Window) = From(Window, i)
          /\ \A j \in 1..(i - 1) : WindowTokens(From(Window, j)) > MaxTokens
    BY <1>4, <1>6, TrimmedDrops
  <2>2. Window' = From(Window, i)
    <3>1. From(Window, i) \in Seq(Message)
      BY <1>4, <2>1, FromProperties
    <3>2. window' = From(Window, i)
      BY <1>1, <1>3, <2>1
    <3>3. QED
      BY <3>1, <3>2, CopyIsHeld
  <2>3. CASE i = 1
    BY <1>1, <1>2, <1>4, <2>2, <2>3, WholeIsFromFirst, NothingHappens
  <2>4. CASE i # 1
    <3> DEFINE k == i - 1
    <3>1. k \in 1..Len(Window) /\ k < Len(Window) /\ i = k + 1
      BY <1>4, <2>1, <2>4
    <3>2. \A j \in 1..k : TooLarge(From(Window, j))
      BY <2>1 DEF TooLarge
    <3> HIDE DEF k
    <3>3. QED
      BY <1>1, <1>2, <2>2, <3>1, <3>2, DropsIt
  <2>5. QED
    BY <2>3, <2>4
<1>7. QED
  BY <1>5, <1>6

\* A message is added to the window that was read.
LEMMA StoreAddedServes ==
  ASSUME Serial, MemoryInv, SerialInv, NEW r \in Requests, StoreAdded(r)
  PROVE  SerialInv' /\ IsPromised
<1> DEFINE w == Pushed(copy[r], adding[r])
           next == IF WindowTokens(w) >= SummariseAt THEN "readToSummarise" ELSE AfterAdd(r)
<1>1. /\ pc[r] = "storeAdded" /\ window' = w /\ Goto(r, next)
      /\ log' = Append(log, adding[r]) /\ UNCHANGED <<summary, lapses>>
  BY DEF StoreAdded
<1>2. adding[r] \in Message /\ copy[r] = Window
  BY <1>1 DEF MemoryInv, LocalsInv, SerialInv, UpToDate
<1>3. Window' = Append(Window, adding[r])
  <2>1. window' = Append(Window, adding[r])
    BY <1>1, <1>2 DEF Pushed
  <2>2. Append(Window, adding[r]) \in Seq(Message)
    BY <1>2 DEF MemoryInv, TypeOK
  <2>3. QED
    BY <2>1, <2>2, CopyIsHeld
<1>4. next \in {"readToSummarise", "agent", "done"}
  BY AfterAddType
<1> HIDE DEF next
<1>5. SerialInv'
  BY <1>1, <1>4, GotoServes, CreatingIsReading
<1>6. QED
  BY <1>1, <1>2, <1>3, <1>5, SaysIt

\* The summary is read that the new one is made from.
LEMMA ReadSummarisedServes ==
  ASSUME MemoryInv, SerialInv, NEW r \in Requests, ReadSummarised(r)
  PROVE  SerialInv' /\ IsPromised
<1>1. /\ pc[r] = "readSummarised" /\ pc' = [pc EXCEPT ![r] = "storeSummary"]
      /\ older' = [older EXCEPT ![r] = summary]
      /\ UNCHANGED <<window, summary, log, lapses, creating, copy>>
  BY DEF ReadSummarised, stored
<1>2. Window' = Window /\ copy[r] = Window /\ ~creating[r]
  BY <1>1, CreatingIsReading DEF Window, SerialInv, UpToDate
<1>3. pc'[r] = "storeSummary" /\ older'[r] = summary /\ OthersRest(r)
  BY <1>1 DEF OthersRest, MemoryInv, TypeOK
<1>4. UpToDate(r)'
  BY <1>1, <1>2, <1>3 DEF UpToDate
<1>5. QED
  BY <1>1, <1>2, <1>3, <1>4, ActiveIsAlone, StepKeepsSerial, NothingHappens

\* A summary is made from the old one and the oldest messages of the window.
LEMMA SummaryCondenses ==
  ASSUME MemoryInv, SerialInv, NEW r \in Requests, pc[r] = "storeSummary",
         summary' = Condensed(older[r], copy[r]), UNCHANGED <<window, log, lapses>>
  PROVE  /\ IsPromised
         /\ Elements(Oldest(copy[r])) \subseteq Elements(summary')
<1>1. copy[r] = Window /\ older[r] = summary /\ Len(copy[r]) >= 4
  BY DEF SerialInv, UpToDate, MemoryInv, LocalsInv
<1>2. copy[r] \in Seq(Message) /\ summary \in Seq(Message) /\ Len(copy[r]) \in Nat
  BY DEF MemoryInv, TypeOK
<1>3. SplitIndex(Window) \in 1..Len(Window)
  <2>1. SplitIndex(Window) \in 0..Len(Window) /\ SplitIndex(Window) > 0
    BY <1>1, <1>2, SplitProperties
  <2>2. QED
    BY <1>1, <1>2, <2>1
<1>4. summary' = summary \o SubSeq(Window, 1, SplitIndex(Window))
  BY <1>1 DEF Condensed
<1>5. Window' = Window
  BY DEF Window
<1>6. IsPromised
  BY <1>3, <1>4, <1>5, CondensesIt
<1>7. Oldest(copy[r]) \in Seq(Message)
  BY <1>1, <1>2, <1>3 DEF Oldest
<1>8. QED
  BY <1>1, <1>2, <1>4, <1>6, <1>7, AddedIsIn DEF Oldest

\* The summary is stored, of messages that are still in the window.
LEMMA StoreSummaryServes ==
  ASSUME MemoryInv, SerialInv, NEW r \in Requests, StoreSummary(r)
  PROVE  SerialInv' /\ IsPromised
<1>1. /\ pc[r] = "storeSummary" /\ summary' = Condensed(older[r], copy[r])
      /\ Goto(r, "storeRemaining") /\ UNCHANGED <<window, log, lapses>>
  BY DEF StoreSummary
<1>2. /\ OthersRest(r) /\ pc'[r] = "storeRemaining" /\ Alone(r)
      /\ UNCHANGED <<creating, copy>>
  BY <1>1, GotoMovesOne, ActiveIsAlone
<1>3. Window' = Window /\ copy[r] = Window /\ ~creating[r]
  BY <1>1, CreatingIsReading DEF Window, SerialInv, UpToDate
<1>4. IsPromised /\ Elements(Oldest(copy[r])) \subseteq Elements(summary')
  BY <1>1, SummaryCondenses
<1>5. UpToDate(r)'
  BY <1>2, <1>3, <1>4 DEF UpToDate
<1>6. QED
  BY <1>2, <1>4, <1>5, StepKeepsSerial

\* The window loses what is in the summary.
LEMMA StoreRemainingServes ==
  ASSUME Serial, MemoryInv, SerialInv, NEW r \in Requests, StoreRemaining(r)
  PROVE  SerialInv' /\ IsPromised
<1>1. /\ pc[r] = "storeRemaining" /\ window' = Remaining(copy[r])
      /\ Goto(r, AfterAdd(r)) /\ UNCHANGED <<summary, log, lapses>>
  BY DEF StoreRemaining
<1>2. SerialInv'
  BY <1>1, AfterAddType, GotoServes, CreatingIsReading
<1>3. /\ copy[r] = Window /\ Len(copy[r]) >= 4
      /\ Elements(Oldest(copy[r])) \subseteq Elements(summary)
  BY <1>1 DEF SerialInv, UpToDate, MemoryInv, LocalsInv
<1>4. copy[r] \in Seq(Message) /\ Len(copy[r]) \in Nat
  BY DEF MemoryInv, TypeOK
<1>5. SplitIndex(Window) \in 1..Len(Window)
  <2>1. SplitIndex(Window) \in 0..Len(Window) /\ SplitIndex(Window) > 0
    BY <1>3, <1>4, SplitProperties
  <2>2. QED
    BY <1>3, <1>4, <2>1
<1>6. Window' = From(Window, SplitIndex(Window) + 1)
  <2>1. window' = From(Window, SplitIndex(Window) + 1)
    BY <1>1, <1>3 DEF Remaining
  <2>2. From(Window, SplitIndex(Window) + 1) \in Seq(Message)
    BY <1>3, <1>4, <1>5, FromProperties
  <2>3. QED
    BY <2>1, <2>2, CopyIsHeld
<1>7. IsPromised
  BY <1>1, <1>3, <1>5, <1>6, DropsIt DEF Oldest
<1>8. QED
  BY <1>2, <1>7

\* A summary that fails leaves both keys, or the window beside the new summary.
LEMMA SummariseFailsServes ==
  ASSUME MemoryInv, SerialInv, NEW r \in Requests, SummariseFails(r)
  PROVE  SerialInv' /\ IsPromised
<1>1. /\ pc[r] \in {"storeSummary", "storeRemaining"} /\ Goto(r, AfterAdd(r))
      /\ UNCHANGED <<window, log, lapses>>
      /\ \/ summary' = summary
         \/ pc[r] = "storeSummary" /\ summary' = Condensed(older[r], copy[r])
  BY DEF SummariseFails
<1>2. SerialInv'
  BY <1>1, AfterAddType, GotoServes, CreatingIsReading
<1>3. CASE summary' = summary
  BY <1>1, <1>2, <1>3, NothingHappens DEF Window
<1>4. CASE summary' # summary
  BY <1>1, <1>2, <1>4, SummaryCondenses
<1>5. QED
  BY <1>3, <1>4

\* The agent's turn touches neither key.
LEMMA AnswerServes ==
  ASSUME MemoryInv, SerialInv, NEW r \in Requests, Answer(r)
  PROVE  SerialInv' /\ IsPromised
<1>1. pc[r] = "agent" /\ UNCHANGED <<window, summary, log, lapses>>
  BY DEF Answer, stored
<1>2. IsPromised
  BY <1>1, NothingHappens DEF Window
<1>3. CASE Goto(r, "done")
  BY <1>1, <1>2, <1>3, GotoServes
<1>4. CASE pc' = [pc EXCEPT ![r] = "readToAdd"] /\ creating' = creating
  <2>1. pc'[r] = "readToAdd" /\ OthersRest(r) /\ ~creating'[r]
    BY <1>1, <1>4, CreatingIsReading DEF OthersRest, MemoryInv, TypeOK
  <2>2. UpToDate(r)'
    BY <2>1 DEF UpToDate
  <2>3. QED
    BY <1>1, <1>2, <2>1, <2>2, ActiveIsAlone, StepKeepsSerial
<1>5. QED
  BY <1>3, <1>4 DEF Answer

\* The two halves of a clearing are two lapses.
LEMMA ClearServes ==
  ASSUME MemoryInv, SerialInv, NEW r \in Requests, ClearWindow(r) \/ ClearSummary(r)
  PROVE  SerialInv' /\ IsPromised
<1>1. CASE ClearWindow(r)
  <2>1. Window' = <<>> /\ lapses' = lapses + 1 /\ UNCHANGED <<summary, log>>
    BY <1>1 DEF ClearWindow, Window
  <2>2. SerialInv'
    BY <1>1, GotoServes, CreatingIsReading DEF ClearWindow
  <2>3. QED
    BY <2>1, <2>2, LapsesIt
<1>2. CASE ClearSummary(r)
  <2>1. Window' = Window /\ summary' = <<>> /\ lapses' = lapses + 1 /\ UNCHANGED log
    BY <1>2 DEF ClearSummary, Window
  <2>2. SerialInv'
    BY <1>2, GotoServes DEF ClearSummary
  <2>3. QED
    BY <2>1, <2>2, LapsesIt
<1>3. QED
  BY <1>1, <1>2

\* A request that reads the summary, or throws, leaves both keys.
LEMMA OtherServes ==
  ASSUME MemoryInv, SerialInv, NEW r \in Requests, ReadSummary(r) \/ Throw(r)
  PROVE  SerialInv' /\ IsPromised
<1>1. UNCHANGED <<window, summary, log, lapses>>
  BY DEF ReadSummary, Throw, stored
<1>2. IsPromised
  BY <1>1, NothingHappens DEF Window
<1>3. SerialInv'
  BY GotoServes, CreatingIsReading DEF ReadSummary, Throw
<1>4. QED
  BY <1>2, <1>3

\* A crash ends every request; what the keys hold stays or is gone.
LEMMA CrashServes ==
  ASSUME MemoryInv, SerialInv, Crash
  PROVE  SerialInv' /\ IsPromised
<1>1. /\ log' = log
      /\ \/ Window' = Window /\ UNCHANGED <<summary, lapses>>
         \/ Window' = <<>> /\ summary' = <<>> /\ lapses' = lapses + 1
  BY DEF Crash, Window
<1>2. \A r \in Requests : ~creating'[r] /\ pc'[r] \in {"idle", "done"}
  BY DEF Crash, Active, MemoryInv, TypeOK
<1>3. SerialInv'
  BY <1>2 DEF SerialInv, UpToDate, Active
<1>4. QED
  BY <1>1, <1>3, NothingHappens, LapsesIt

\* A key expires while nothing is in progress.
LEMMA ExpireServes ==
  ASSUME MemoryInv, SerialInv, Expire
  PROVE  SerialInv' /\ IsPromised
<1>1. \A r \in Requests : ~Active(r) /\ ~creating[r] /\ pc[r] \in {"idle", "done"}
  BY DEF Expire, Quiet, Active, SerialInv, UpToDate
<1>2. pc' = pc /\ creating' = creating
  BY DEF Expire, locals
<1>3. SerialInv'
  BY <1>1, <1>2 DEF SerialInv, UpToDate, Active
<1>4. lapses' = lapses + 1 /\ log' = log
  BY DEF Expire
<1>5. \/ Window' = <<>> /\ summary' = summary
      \/ Window' = Window /\ summary' = <<>>
  BY DEF Expire, Window
<1>6. QED
  BY <1>3, <1>4, <1>5, LapsesIt

\* Every step serves one request at a time and is one of ConversationLog, or none.
LEMMA NextServes ==
  ASSUME Serial, MemoryInv, SerialInv, [Next]_vars
  PROVE  SerialInv' /\ IsPromised
<1>1. CASE UNCHANGED vars
  <2>1. SerialInv'
    BY <1>1 DEF vars, stored, locals, SerialInv, UpToDate, Alone, Active, Window
  <2>2. IsPromised
    BY <1>1, NothingHappens DEF vars, stored, Window
  <2>3. QED
    BY <2>1, <2>2
<1>2. ASSUME NEW r \in Requests,
             \/ Arrive(r) \/ ReadSummary(r) \/ ReadWindow(r) \/ CreateWindow(r)
             \/ StoreTrimmed(r) \/ StoreAdded(r) \/ ReadSummarised(r)
             \/ StoreSummary(r) \/ StoreRemaining(r) \/ SummariseFails(r)
             \/ Answer(r) \/ ClearWindow(r) \/ ClearSummary(r) \/ Throw(r)
      PROVE  SerialInv' /\ IsPromised
  BY <1>2, ArriveServes, ReadWindowServes, CreateWindowServes, StoreTrimmedServes,
     StoreAddedServes, ReadSummarisedServes, StoreSummaryServes, StoreRemainingServes,
     SummariseFailsServes, AnswerServes, ClearServes, OtherServes
<1>3. QED
  BY <1>1, <1>2, CrashServes, ExpireServes DEF Next, Done

-----------------------------------------------------------------------------
(* What follows from the abstract specification.                            *)

\* The end of a list grows with the list.
LEMMA FromOfAppend ==
  ASSUME NEW s \in Seq(Message), NEW n \in 0..Len(s), NEW m \in Message
  PROVE  From(Append(s, m), n + 1) = Append(From(s, n + 1), m)
<1> DEFINE a == From(Append(s, m), n + 1)
           b == Append(From(s, n + 1), m)
<1>1. Len(s) \in Nat /\ n \in Nat /\ n <= Len(s)
  OBVIOUS
<1>2. /\ From(s, n + 1) \in Seq(Message) /\ Len(From(s, n + 1)) = Len(s) - n
      /\ \A j \in 1..(Len(s) - n) : From(s, n + 1)[j] = s[n + j]
  BY <1>1 DEF From
<1>3. /\ b \in Seq(Message) /\ Len(b) = Len(s) - n + 1
      /\ \A j \in 1..(Len(s) - n) : b[j] = s[n + j]
      /\ b[Len(s) - n + 1] = m
  BY <1>1, <1>2
<1>4. /\ Append(s, m) \in Seq(Message) /\ Len(Append(s, m)) = Len(s) + 1
      /\ \A j \in 1..Len(s) : Append(s, m)[j] = s[j]
      /\ Append(s, m)[Len(s) + 1] = m
  OBVIOUS
<1>5. /\ a \in Seq(Message) /\ Len(a) = Len(s) - n + 1
      /\ \A j \in 1..(Len(s) - n + 1) : a[j] = Append(s, m)[n + j]
  BY <1>1, <1>4 DEF From
<1> HIDE DEF a, b
<1>6. ASSUME NEW j \in 1..Len(a) PROVE a[j] = b[j]
  BY <1>1, <1>3, <1>4, <1>5
<1>7. a = b
  BY <1>3, <1>5, <1>6, SeqEqual
<1>8. QED
  BY <1>7 DEF a, b

\* The end of an end.
LEMMA FromOfFrom ==
  ASSUME NEW s \in Seq(Message), NEW n \in 0..Len(s), NEW k \in 0..(Len(s) - n)
  PROVE  From(From(s, n + 1), k + 1) = From(s, n + k + 1)
<1> DEFINE t == From(s, n + 1)
           a == From(t, k + 1)
           b == From(s, n + k + 1)
<1>1. Len(s) \in Nat /\ n \in Nat /\ k \in Nat /\ n + k <= Len(s)
  OBVIOUS
<1>2. /\ t \in Seq(Message) /\ Len(t) = Len(s) - n
      /\ \A j \in 1..(Len(s) - n) : t[j] = s[n + j]
  BY <1>1 DEF From
<1>3. /\ b \in Seq(Message) /\ Len(b) = Len(s) - n - k
      /\ \A j \in 1..(Len(s) - n - k) : b[j] = s[n + k + j]
  BY <1>1 DEF From
<1> HIDE DEF t
<1>4. /\ a \in Seq(Message) /\ Len(a) = Len(s) - n - k
      /\ \A j \in 1..(Len(s) - n - k) : a[j] = t[k + j]
  BY <1>1, <1>2 DEF From
<1> HIDE DEF a, b
<1>5. ASSUME NEW j \in 1..Len(a) PROVE a[j] = b[j]
  BY <1>1, <1>2, <1>3, <1>4
<1>6. a = b
  BY <1>3, <1>4, <1>5, SeqEqual
<1>7. QED
  BY <1>6 DEF a, b, t

\* What a step of ConversationLog may do.
LEMMA PromisedSteps ==
  ASSUME IsPromised, Window \in Seq(Message)
  PROVE  \/ /\ Window' = Window /\ summary' = summary /\ log' = log
         \/ \E m \in Message : /\ log' = Append(log, m) /\ Window' = Append(Window, m)
                               /\ summary' = summary
         \/ \E k \in 1..Len(Window) : /\ summary' = summary \o SubSeq(Window, 1, k)
                                      /\ Window' = Window /\ log' = log
         \/ \E k \in 1..Len(Window) : /\ Window' = From(Window, k + 1)
                                      /\ summary' = summary /\ log' = log
         \/ /\ Window' = <<>> /\ summary' = summary /\ log' = log
         \/ /\ Window' = Window /\ summary' = <<>> /\ log' = log
         \/ /\ Window' = <<>> /\ summary' = <<>> /\ log' = log
<1>1. \A t, k : Promise!From(t, k) = From(t, k)
  BY DEF Promise!From, From
<1>2. CASE UNCHANGED Promise!vars
  BY <1>2 DEF Promise!vars
<1>3. ASSUME NEW m \in Message, Promise!Say(m)
      PROVE  /\ log' = Append(log, m) /\ Window' = Append(Window, m)
             /\ summary' = summary
  BY <1>3 DEF Promise!Say
<1>4. CASE Promise!Condense
  BY <1>4 DEF Promise!Condense
<1>5. CASE Promise!Drop
  BY <1>1, <1>5 DEF Promise!Drop
<1>6. CASE Promise!Lapse
  BY <1>6 DEF Promise!Lapse
<1>7. QED
  BY <1>2, <1>3, <1>4, <1>5, <1>6 DEF IsPromised, Promise!Next

\* The verbatim part stays the newest part of the log.
LEMMA NewestStays ==
  ASSUME IsPromised, Window \in Seq(Message), log \in Seq(Message), WindowIsNewest
  PROVE  WindowIsNewest'
<1>1. PICK n \in 0..Len(log) : Window = From(log, n + 1)
  BY DEF WindowIsNewest
<1>2. Len(log) \in Nat /\ n \in Nat /\ n <= Len(log) /\ Len(Window) = Len(log) - n
  BY <1>1 DEF From
<1>3. CASE Window' = Window /\ log' = log
  BY <1>1, <1>3 DEF WindowIsNewest
<1>4. ASSUME NEW m \in Message, log' = Append(log, m), Window' = Append(Window, m)
      PROVE  WindowIsNewest'
  <2>1. Window' = From(log', n + 1)
    BY <1>1, <1>4, FromOfAppend
  <2>2. n \in 0..Len(log')
    BY <1>2, <1>4
  <2>3. QED
    BY <2>1, <2>2 DEF WindowIsNewest
<1>5. ASSUME NEW k \in 1..Len(Window), Window' = From(Window, k + 1), log' = log
      PROVE  WindowIsNewest'
  <2>1. k \in 0..(Len(log) - n)
    BY <1>2
  <2>2. Window' = From(log', (n + k) + 1)
    BY <1>1, <1>5, <2>1, FromOfFrom
  <2>3. n + k \in 0..Len(log')
    BY <1>2, <1>5
  <2>4. QED
    BY <2>2, <2>3 DEF WindowIsNewest
<1>6. CASE Window' = <<>> /\ log' = log
  <2>1. From(log', Len(log') + 1) = <<>>
    BY <1>2, <1>6 DEF From
  <2>2. Len(log') \in 0..Len(log')
    BY <1>2, <1>6
  <2>3. QED
    BY <1>6, <2>1, <2>2 DEF WindowIsNewest
<1>7. QED
  BY <1>3, <1>4, <1>5, <1>6, PromisedSteps

\* A concatenation has the elements of its parts.
LEMMA ElementsOfConcat ==
  ASSUME NEW S, NEW s \in Seq(S), NEW t \in Seq(S)
  PROVE  Elements(s \o t) = Elements(s) \cup Elements(t)
<1>1. ASSUME NEW i \in DOMAIN (s \o t)
      PROVE  (s \o t)[i] \in Elements(s) \cup Elements(t)
  <2>1. CASE i \in DOMAIN s
    BY <2>1 DEF Elements
  <2>2. CASE i \notin DOMAIN s
    <3>1. i - Len(s) \in DOMAIN t /\ (s \o t)[i] = t[i - Len(s)]
      BY <2>2
    <3>2. QED
      BY <3>1 DEF Elements
  <2>3. QED
    BY <2>1, <2>2
<1>2. ASSUME NEW i \in DOMAIN s PROVE s[i] \in Elements(s \o t)
  <2>1. i \in DOMAIN (s \o t) /\ (s \o t)[i] = s[i]
    OBVIOUS
  <2>2. QED
    BY <2>1 DEF Elements
<1>3. Elements(t) \subseteq Elements(s \o t)
  BY AddedIsIn
<1>4. QED
  BY <1>1, <1>2, <1>3 DEF Elements

\* A part of a list has elements of the list only.
LEMMA ElementsOfPart ==
  ASSUME NEW s \in Seq(Message), NEW i \in 1..(Len(s) + 1), NEW j \in 0..Len(s)
  PROVE  Elements(SubSeq(s, i, j)) \subseteq Elements(s)
<1>1. ASSUME NEW n \in DOMAIN SubSeq(s, i, j) PROVE SubSeq(s, i, j)[n] \in Elements(s)
  <2>1. SubSeq(s, i, j)[n] = s[i + n - 1] /\ i + n - 1 \in DOMAIN s
    OBVIOUS
  <2>2. QED
    BY <2>1 DEF Elements
<1>2. QED
  BY <1>1 DEF Elements

\* No message is in the window twice.
Distinct(w) == \A i, j \in DOMAIN w : w[i] = w[j] => i = j

\* A summary that holds none but stored messages shares a head of the window with
\* it, as long as no message is stored twice.
LEMMA OlderStays ==
  ASSUME IsPromised, SummaryIsOlder, WindowIsNewest,
         Window \in Seq(Message), summary \in Seq(Message), log \in Seq(Message),
         Elements(summary) \subseteq Elements(log), Distinct(Window),
         \A m \in Message : log' = Append(log, m) => m \notin Elements(log)
  PROVE  SummaryIsOlder' /\ Elements(summary') \subseteq Elements(log')
<1> DEFINE Older(w, g) ==
             \A i, j \in DOMAIN w : i < j /\ w[j] \in Elements(g) => w[i] \in Elements(g)
<1>1. Older(Window, summary)
  BY DEF SummaryIsOlder
<1>2. SUFFICES Older(Window', summary') /\ Elements(summary') \subseteq Elements(log')
  BY DEF SummaryIsOlder, Elements
<1>3. CASE Window' = Window /\ summary' = summary /\ log' = log
  BY <1>1, <1>3
<1>4. ASSUME NEW m \in Message, log' = Append(log, m), Window' = Append(Window, m),
             summary' = summary
      PROVE  Older(Window', summary') /\ Elements(summary') \subseteq Elements(log')
  <2>1. m \notin Elements(summary)
    BY <1>4
  <2>2. /\ DOMAIN Window' = 1..(Len(Window) + 1) /\ Window'[Len(Window) + 1] = m
        /\ \A i \in 1..Len(Window) : Window'[i] = Window[i]
        /\ DOMAIN Window = 1..Len(Window) /\ Len(Window) \in Nat
    BY <1>4
  <2>3. Older(Window', summary)
    BY <1>1, <2>1, <2>2
  <2>4. Elements(log) \subseteq Elements(log')
    <3>1. ASSUME NEW i \in DOMAIN log PROVE log[i] \in Elements(log')
      <4>1. i \in DOMAIN log' /\ log'[i] = log[i]
        BY <1>4
      <4>2. QED
        BY <4>1 DEF Elements
    <3>2. QED
      BY <3>1 DEF Elements
  <2>5. QED
    BY <1>4, <2>3, <2>4
<1>5. ASSUME NEW k \in 1..Len(Window), summary' = summary \o SubSeq(Window, 1, k),
             Window' = Window, log' = log
      PROVE  Older(Window', summary') /\ Elements(summary') \subseteq Elements(log')
  <2> DEFINE head == SubSeq(Window, 1, k)
  <2>1. k \in Nat /\ head \in Seq(Message) /\ Len(head) = k
        /\ \A n \in 1..k : head[n] = Window[n] /\ n \in DOMAIN Window
    OBVIOUS
  <2>2. Elements(summary') = Elements(summary) \cup Elements(head)
    <3>1. summary' = summary \o head
      BY <1>5
    <3> HIDE DEF head
    <3>2. QED
      BY <2>1, <3>1, ElementsOfConcat
  <2>3. ASSUME NEW i \in DOMAIN Window, NEW j \in DOMAIN Window, i < j,
               Window[j] \in Elements(head)
        PROVE  Window[i] \in Elements(head)
    <3>1. PICK n \in 1..k : Window[j] = head[n]
      BY <2>1, <2>3 DEF Elements
    <3>2. j = n
      BY <2>1, <3>1 DEF Distinct
    <3>3. i \in 1..k
      BY <2>1, <2>3, <3>2
    <3>4. QED
      BY <2>1, <3>3 DEF Elements
  <2>4. Older(Window', summary')
    BY <1>1, <1>5, <2>2, <2>3
  <2>5. Elements(head) \subseteq Elements(Window)
    BY ElementsOfPart
  <2>6. Elements(Window) \subseteq Elements(log)
    <3>1. PICK n \in 0..Len(log) : Window = From(log, n + 1)
      BY DEF WindowIsNewest
    <3>2. n + 1 \in 1..(Len(log) + 1) /\ Len(log) \in 0..Len(log)
      OBVIOUS
    <3>3. Elements(From(log, n + 1)) \subseteq Elements(log)
      BY <3>2, ElementsOfPart DEF From
    <3>4. QED
      BY <3>1, <3>3
  <2>7. QED
    BY <1>5, <2>2, <2>4, <2>5, <2>6
<1>6. ASSUME NEW k \in 1..Len(Window), Window' = From(Window, k + 1),
             summary' = summary, log' = log
      PROVE  Older(Window', summary') /\ Elements(summary') \subseteq Elements(log')
  <2>1. \A i \in DOMAIN Window' : Window'[i] = Window[i + k] /\ i + k \in DOMAIN Window
    BY <1>6 DEF From
  <2>2. ASSUME NEW i \in DOMAIN Window', NEW j \in DOMAIN Window', i < j,
               Window'[j] \in Elements(summary)
        PROVE  Window'[i] \in Elements(summary)
    <3>1. i + k < j + k
      BY <1>6, <2>2 DEF From
    <3>2. QED
      BY <1>1, <2>1, <2>2, <3>1
  <2>3. QED
    BY <1>6, <2>2
<1>7. CASE Window' = <<>> /\ summary' = summary /\ log' = log
  BY <1>7
<1>8. CASE Window' = Window /\ summary' = <<>> /\ log' = log
  <2>1. Elements(<<>>) = {}
    BY DEF Elements
  <2>2. QED
    BY <1>8, <2>1
<1>9. CASE Window' = <<>> /\ summary' = <<>> /\ log' = log
  <2>1. Elements(<<>>) = {}
    BY DEF Elements
  <2>2. QED
    BY <1>9, <2>1
<1>10. QED
  BY <1>3, <1>4, <1>5, <1>6, <1>7, <1>8, <1>9, PromisedSteps

-----------------------------------------------------------------------------
(* No message is stored twice.                                              *)

\* One request moves and the others stay.
Moves(r, next) ==
  /\ pc' = [pc EXCEPT ![r] = next]
  /\ next = "done" \/ adding' = adding
  /\ \A q \in Requests \ {r} : adding'[q] = adding[q]

GetOn == Unasked' \subseteq Unasked /\ Unanswered' \subseteq Unasked \cup Unanswered

\* A request that goes on moves.
LEMMA GotoMoves ==
  ASSUME MemoryInv, NEW r \in Requests, NEW next, Goto(r, next)
  PROVE  Moves(r, next)
BY DEF Goto, Moves, MemoryInv, TypeOK

\* A request gets on when it moves to a later await of its turn.
LEMMA MoveGetsOn ==
  ASSUME MemoryInv, NEW r \in Requests, NEW next, Moves(r, next),
         \/ next \in {"done", "clearSummary"}
         \/ pc[r] \in {"readSummary", "readActive", "storeTrimmed"}
         \/ pc[r] = "readToAdd" /\ next = "storeAdded"
         \/ /\ pc[r] \in {"storeAdded", "readToSummarise", "readSummarised",
                          "storeSummary", "storeRemaining"}
            /\ \/ next \in {"readToSummarise", "readSummarised", "storeSummary",
                            "storeRemaining"}
               \/ next = "agent" /\ adding[r].role = "user"
  PROVE  GetOn
<1>1. /\ pc'[r] = next /\ (next = "done" \/ adding'[r] = adding[r])
      /\ \A q \in Requests \ {r} : pc'[q] = pc[q] /\ adding'[q] = adding[q]
  BY DEF Moves, MemoryInv, TypeOK
<1>2. ASSUME NEW q \in Requests \ {r}
      PROVE  (q \in Unasked' => q \in Unasked) /\ (q \in Unanswered' => q \in Unanswered)
  BY <1>1 DEF Unasked, Unanswered
<1>3. pc[r] \in TurnAwaits => adding[r].role \in {"user", "assistant"}
  BY DEF MemoryInv, LocalsInv, Message
<1>4. (r \in Unasked' => r \in Unasked) /\ (r \in Unanswered' => r \in Unasked \cup Unanswered)
  BY <1>1, <1>3 DEF Unasked, Unanswered
<1>5. QED
  BY <1>2, <1>4 DEF GetOn, Unasked, Unanswered

\* A request that has a window gets on.
LEMMA ContinueGetsOn ==
  ASSUME MemoryInv, NEW r \in Requests, NEW w, Continue(r, w), pc[r] \in WindowReads
  PROVE  GetOn
<1> DEFINE next == AfterRead(r, w)
<1>1. Moves(r, next)
  BY GotoMoves DEF Continue, Moves
<1>2. pc[r] = "readToAdd" => next = "storeAdded"
  BY DEF AfterRead
<1>3. pc[r] = "readToSummarise" =>
        next \in {"done", "readSummarised"} \/ (next = "agent" /\ adding[r].role = "user")
  BY DEF AfterRead, AfterAdd
<1> HIDE DEF next
<1>4. QED
  BY <1>1, <1>2, <1>3, MoveGetsOn

\* A request that arrives, or whose agent answers, has nothing stored of what is new.
LEMMA BeginsGetsOn ==
  ASSUME MemoryInv, NEW r \in Requests, Arrive(r) \/ Answer(r)
  PROVE  GetOn
<1>1. CASE Goto(r, "done")
  BY <1>1, GotoMoves, MoveGetsOn
<1>2. CASE ~Goto(r, "done")
  <2>1. /\ \A q \in Requests \ {r} : pc'[q] = pc[q] /\ adding'[q] = adding[q]
        /\ \/ pc[r] = "idle"
           \/ pc[r] = "agent" /\ pc'[r] = "readToAdd" /\ adding'[r].role = "assistant"
    BY <1>2 DEF Arrive, Answer, MemoryInv, TypeOK
  <2>2. ASSUME NEW q \in Requests \ {r}
        PROVE  (q \in Unasked' => q \in Unasked) /\ (q \in Unanswered' => q \in Unanswered)
    BY <2>1 DEF Unasked, Unanswered
  <2>3. (r \in Unasked' => r \in Unasked) /\ r \in Unasked \cup Unanswered
    BY <2>1 DEF Unasked, Unanswered
  <2>4. QED
    BY <2>2, <2>3 DEF GetOn, Unasked, Unanswered
<1>3. QED
  BY <1>1, <1>2

\* Requests do not go back to an earlier part of their turns.
LEMMA RequestsGetOn ==
  ASSUME MemoryInv, [Next]_vars PROVE GetOn
<1>1. CASE UNCHANGED <<pc, adding>>
  BY <1>1 DEF GetOn, Unasked, Unanswered
<1>2. CASE Crash
  <2>1. \A r \in Requests : pc'[r] = "done" \/ (pc'[r] = "idle" /\ pc[r] = "idle")
    BY <1>2 DEF Crash, Active
  <2>2. QED
    BY <2>1 DEF GetOn, Unasked, Unanswered
<1>3. ASSUME NEW r \in Requests, ReadSummary(r) \/ StoreTrimmed(r) \/ StoreAdded(r)
      PROVE  GetOn
  <2>1. CASE ReadSummary(r) \/ StoreTrimmed(r)
    BY <2>1, GotoMoves, MoveGetsOn DEF ReadSummary, StoreTrimmed
  <2>2. CASE StoreAdded(r)
    <3>1. /\ pc[r] = "storeAdded"
          /\ \/ Goto(r, "readToSummarise")
             \/ Goto(r, "agent") /\ adding[r].role = "user"
             \/ Goto(r, "done")
      BY <2>2 DEF StoreAdded, AfterAdd
    <3>2. QED
      BY <3>1, GotoMoves, MoveGetsOn
  <2>3. QED
    BY <1>3, <2>1, <2>2
<1>4. ASSUME NEW r \in Requests, ReadWindow(r) \/ CreateWindow(r) PROVE GetOn
  <2>1. pc[r] \in WindowReads
    BY <1>4 DEF ReadWindow, CreateWindow, MemoryInv, LocalsInv
  <2>2. UNCHANGED <<pc, adding>> \/ Continue(r, window) \/ Continue(r, <<>>)
    BY <1>4 DEF ReadWindow, CreateWindow
  <2>3. QED
    BY <1>1, <2>1, <2>2, ContinueGetsOn
<1>5. ASSUME NEW r \in Requests,
             ReadSummarised(r) \/ StoreSummary(r) \/ StoreRemaining(r) \/ SummariseFails(r)
      PROVE  GetOn
  <2>1. /\ pc[r] \in {"readSummarised", "storeSummary", "storeRemaining"}
        /\ \/ Moves(r, "storeSummary")
           \/ Goto(r, "storeRemaining")
           \/ Goto(r, "agent") /\ adding[r].role = "user"
           \/ Goto(r, "done")
    BY <1>5 DEF ReadSummarised, StoreSummary, StoreRemaining, SummariseFails, AfterAdd, Moves
  <2>2. QED
    BY <2>1, GotoMoves, MoveGetsOn
<1>6. ASSUME NEW r \in Requests, ClearWindow(r) \/ ClearSummary(r) \/ Throw(r) PROVE GetOn
  BY <1>6, GotoMoves, MoveGetsOn DEF ClearWindow, ClearSummary, Throw
<1>7. Expire \/ Done \/ UNCHANGED vars => UNCHANGED <<pc, adding>>
  BY DEF Expire, Done, vars, locals
<1>8. QED
  BY <1>1, <1>2, <1>3, <1>4, <1>5, <1>6, <1>7, BeginsGetsOn DEF Next

\* The log is orderly as the window is, and nothing else is in the summary.
LogInv ==
  /\ Orderly(log, Unasked, Unanswered)
  /\ Elements(summary) \subseteq Elements(log)
  /\ WindowIsNewest
  /\ SummaryIsOlder

\* Only StoreAdded stores a message, one that was not stored before.
LEMMA LogGrows ==
  ASSUME MemoryInv, Orderly(log, Unasked, Unanswered), [Next]_vars
  PROVE  /\ Orderly(log', Unasked', Unanswered')
         /\ \A m \in Message : log' = Append(log, m) => m \notin Elements(log)
<1>1. GetOn /\ log \in Seq(Message)
  BY RequestsGetOn DEF MemoryInv, TypeOK
<1>2. CASE log' = log
  <2>1. Orderly(log', Unasked', Unanswered')
    BY <1>1, <1>2, OrderlyStays DEF GetOn
  <2>2. \A m \in Message : log' # Append(log, m)
    <3>1. \A m \in Message : Len(Append(log, m)) # Len(log)
      BY <1>1
    <3>2. QED
      BY <1>2, <3>1
  <2>3. QED
    BY <2>1, <2>2
<1>3. ASSUME NEW r \in Requests, StoreAdded(r)
      PROVE  /\ Orderly(log', Unasked', Unanswered')
             /\ \A m \in Message : log' = Append(log, m) => m \notin Elements(log)
  <2> DEFINE added == adding[r]
             next == IF WindowTokens(Pushed(copy[r], added)) >= SummariseAt
                       THEN "readToSummarise" ELSE AfterAdd(r)
  <2>1. pc[r] = "storeAdded" /\ log' = Append(log, added) /\ Goto(r, next)
    BY <1>3 DEF StoreAdded
  <2>2. added \in Message /\ added.turn = r /\ added.role \in {"user", "assistant"}
    BY <2>1 DEF MemoryInv, LocalsInv, Message
  <2>3. /\ next \in {"readToSummarise", "agent", "done"}
        /\ next = "agent" => added.role = "user"
    BY DEF AfterAdd
  <2> HIDE DEF next
  <2>4. pc'[r] = next /\ (next # "done" => adding'[r] = added)
    BY <2>1, GotoMovesOne
  <2>5. /\ r \notin Unasked'
        /\ added.role = "user" => r \in Unasked
        /\ added.role = "assistant" => r \in Unanswered /\ r \notin Unanswered'
    BY <2>1, <2>3, <2>4 DEF Unasked, Unanswered
  <2>6. Orderly(log', Unasked', Unanswered')
    BY <1>1, <2>1, <2>2, <2>5, AppendIsOrderly DEF GetOn
  <2>7. added \notin Elements(log)
    BY <2>2, <2>5 DEF Orderly, Elements
  <2>8. \A m \in Message : Append(log, m) = Append(log, added) => m = added
    BY <1>1, <2>2
  <2>9. QED
    BY <2>1, <2>6, <2>7, <2>8
<1>4. log' = log \/ \E r \in Requests : StoreAdded(r)
  BY DEF Next, vars, stored, Arrive, ReadSummary, ReadWindow, CreateWindow, StoreTrimmed,
     ReadSummarised, StoreSummary, StoreRemaining, SummariseFails, Answer, ClearWindow,
     ClearSummary, Throw, Crash, Expire, Done
<1>5. QED
  BY <1>2, <1>3, <1>4

\* A step of a memory that serves one request at a time.
LEMMA NextKeepsLog ==
  ASSUME MemoryInv, MemoryInv', IsPromised, LogInv, [Next]_vars
  PROVE  LogInv'
<1>1. /\ Window \in Seq(Message) /\ summary \in Seq(Message) /\ log \in Seq(Message)
  BY DEF MemoryInv, TypeOK, Window
<1>2. Distinct(Window)
  <2>1. ASSUME NEW i \in DOMAIN Window, NEW j \in DOMAIN Window, i < j,
               Window[i] = Window[j]
        PROVE  FALSE
    BY <2>1 DEF MemoryInv, ListsInv, Orderly
  <2>2. \A i, j \in DOMAIN Window : i = j \/ i < j \/ j < i
    BY <1>1
  <2>3. QED
    BY <2>1, <2>2 DEF Distinct
<1>3. QED
  BY <1>1, <1>2, LogGrows, NewestStays, OlderStays DEF LogInv

\* Nothing is stored initially.
LEMMA InitEstablishesLog == Init => LogInv
<1>1. SUFFICES ASSUME Init PROVE LogInv
  OBVIOUS
<1>2. log = <<>> /\ summary = <<>> /\ Window = <<>>
  BY <1>1 DEF Init, Window
<1>3. WindowIsNewest
  <2>1. Len(log) = 0 /\ From(log, 1) = <<>>
    BY <1>2 DEF From
  <2>2. QED
    BY <1>2, <2>1 DEF WindowIsNewest
<1>4. Orderly(log, Unasked, Unanswered)
  BY <1>2, EmptyIsOrderly
<1>5. Elements(summary) = {} /\ SummaryIsOlder
  BY <1>2 DEF Elements, SummaryIsOlder
<1>6. QED
  BY <1>3, <1>4, <1>5 DEF LogInv

-----------------------------------------------------------------------------
(* Without its newest turn, the window is within the cap.                   *)

\* What WindowStaysBounded says of a window.
Bounded(w) ==
  \A i \in DOMAIN w :
    i > 1 /\ w[i].turn # w[Len(w)].turn => ~TooLarge(SubSeq(w, 1, i))

\* A window as getActiveWindow leaves it.
Fits(w) == Len(w) > 1 => ~TooLarge(w)

\* A longer head has no fewer tokens.
LEMMA TokensGrow ==
  ASSUME NEW w \in Seq(Message), NEW a \in 0..Len(w), NEW b \in a..Len(w)
  PROVE  TokensUpTo(w)[a] <= TokensUpTo(w)[b]
<1> DEFINE t == TokensUpTo(w)
           Bad == {n \in a..Len(w) : ~(t[a] <= t[n])}
<1>1. /\ Len(w) \in Nat /\ \A n \in 0..Len(w) : t[n] \in Nat
      /\ \A n \in 1..Len(w) : t[n] = t[n - 1] + w[n].tokens
      /\ \A n \in 1..Len(w) : w[n].tokens \in Nat
  <2>1. \A n \in 1..Len(w) : w[n] \in Message
    OBVIOUS
  <2>2. \A m \in Message : m.tokens \in Nat
    BY MemoryAssumption DEF Message
  <2>3. QED
    BY <2>1, <2>2, TokensUpToExists
<1> HIDE DEF t
<1>2. SUFFICES ASSUME Bad # {} PROVE FALSE
  BY DEF t
<1>3. PICK n \in Bad : \A m \in Bad : n <= m
  <2>1. Bad \in SUBSET Nat
    OBVIOUS
  <2> HIDE DEF Bad
  <2>2. QED
    BY <1>2, <2>1, LeastExists
<1>4. n # a
  BY <1>1, <1>3
<1>5. n \in 1..Len(w) /\ n - 1 \in a..Len(w) /\ ~(n <= n - 1)
  BY <1>1, <1>3, <1>4
<1>6. t[a] <= t[n - 1]
  BY <1>3, <1>5
<1>7. t[n] = t[n - 1] + w[n].tokens /\ t[a] \in Nat /\ t[n - 1] \in Nat /\ w[n].tokens \in Nat
  BY <1>1, <1>5
<1>8. t[a] <= t[n]
  BY <1>6, <1>7
<1>9. QED
  BY <1>3, <1>8

\* The messages from position a + 1 to position b.
LEMMA PartProperties ==
  ASSUME NEW w \in Seq(Message), NEW a \in 0..Len(w), NEW b \in a..Len(w)
  PROVE  /\ SubSeq(w, a + 1, b) \in Seq(Message)
         /\ Len(SubSeq(w, a + 1, b)) = b - a
         /\ \A n \in 1..(b - a) : SubSeq(w, a + 1, b)[n] = w[a + n]
<1>1. a \in Nat /\ b \in Nat /\ a <= b /\ b <= Len(w) /\ Len(w) \in Nat
  OBVIOUS
<1>2. QED
  BY <1>1

\* The tokens of a part of a window.
LEMMA PartTokens ==
  ASSUME NEW w \in Seq(Message), NEW a \in 0..Len(w), NEW b \in a..Len(w)
  PROVE  WindowTokens(SubSeq(w, a + 1, b))
           = 3 + 4 * (b - a) + (TokensUpTo(w)[b] - TokensUpTo(w)[a])
<1> DEFINE t == TokensUpTo(w)
           p == SubSeq(w, a + 1, b)
           u == TokensUpTo(p)
           Bad == {n \in 0..(b - a) : u[n] # t[a + n] - t[a]}
<1>1. /\ a \in Nat /\ b \in Nat /\ a <= b /\ b <= Len(w) /\ Len(w) \in Nat
      /\ b - a \in Nat
  OBVIOUS
<1>2. /\ p \in Seq(Message) /\ Len(p) = b - a
      /\ \A n \in 1..(b - a) : p[n] = w[a + n]
  BY PartProperties
<1>3. /\ \A n \in 0..Len(w) : t[n] \in Nat
      /\ \A n \in 1..Len(w) : t[n] = t[n - 1] + w[n].tokens
  BY TokensUpToExists
<1> HIDE DEF p
<1>4. /\ \A n \in 0..(b - a) : u[n] \in Nat
      /\ u[0] = 0
      /\ \A n \in 1..(b - a) : u[n] = u[n - 1] + p[n].tokens
  BY <1>2, TokensUpToExists
<1>5. WindowTokens(p) = 3 + 4 * (b - a) + u[b - a]
  BY <1>2 DEF WindowTokens
<1> HIDE DEF t, u
<1>6. Bad = {}
  <2>1. SUFFICES ASSUME Bad # {} PROVE FALSE
    OBVIOUS
  <2>2. PICK n \in Bad : \A m \in Bad : n <= m
    <3>1. Bad \in SUBSET Nat
      OBVIOUS
    <3> HIDE DEF Bad
    <3>2. QED
      BY <2>1, <3>1, LeastExists
  <2>3. n # 0
    BY <1>1, <1>3, <1>4, <2>2
  <2>4. /\ n \in 1..(b - a) /\ n - 1 \in 0..(b - a) /\ ~(n <= n - 1)
        /\ a + n \in 1..Len(w) /\ (a + n) - 1 = a + (n - 1)
    BY <1>1, <2>2, <2>3
  <2>5. u[n - 1] = t[a + (n - 1)] - t[a]
    BY <2>2, <2>4
  <2>6. u[n] = u[n - 1] + w[a + n].tokens /\ t[a + n] = t[a + (n - 1)] + w[a + n].tokens
    BY <1>2, <1>3, <1>4, <2>4
  <2>7. w[a + n].tokens \in Nat
    <3>1. w[a + n] \in Message
      BY <2>4
    <3>2. QED
      BY <3>1, MemoryAssumption DEF Message
  <2>8. t[a] \in Nat /\ t[a + (n - 1)] \in Nat
    BY <1>1, <1>3, <2>4
  <2>9. u[n] = t[a + n] - t[a]
    <3>1. \A x, y, z \in Nat : (x - y) + z = (x + z) - y
      OBVIOUS
    <3>2. (t[a + (n - 1)] - t[a]) + w[a + n].tokens
            = (t[a + (n - 1)] + w[a + n].tokens) - t[a]
      BY <2>7, <2>8, <3>1
    <3>3. QED
      BY <2>5, <2>6, <3>2
  <2>10. QED
    BY <2>2, <2>9
<1>7. u[b - a] = t[b] - t[a]
  <2>1. b - a \in 0..(b - a) /\ a + (b - a) = b
    BY <1>1
  <2>2. QED
    BY <1>6, <2>1
<1>8. QED
  BY <1>5, <1>7 DEF p, t

\* A part of a head that is within the cap is within it.
LEMMA PartIsNotTooLarge ==
  ASSUME NEW w \in Seq(Message), NEW a \in 0..Len(w), NEW b \in a..Len(w),
         NEW c \in b..Len(w), ~TooLarge(SubSeq(w, 1, c))
  PROVE  ~TooLarge(SubSeq(w, a + 1, b))
<1> DEFINE t == TokensUpTo(w)
<1>1. a \in Nat /\ b \in Nat /\ c \in Nat /\ a <= b /\ b <= c /\ c <= Len(w) /\ Len(w) \in Nat
  OBVIOUS
<1>2. b \in 0..Len(w) /\ c \in 0..Len(w) /\ 0 \in 0..Len(w)
  BY <1>1
<1>3. t[a] \in Nat /\ t[b] \in Nat /\ t[c] \in Nat /\ t[0] = 0
  BY <1>2, TokensUpToExists
<1>4. t[b] <= t[c]
  BY <1>2, TokensGrow
<1>5. WindowTokens(SubSeq(w, a + 1, b)) = 3 + 4 * (b - a) + (t[b] - t[a])
  BY PartTokens
<1>6. WindowTokens(SubSeq(w, 0 + 1, c)) = 3 + 4 * (c - 0) + (t[c] - t[0])
  <2>1. 0 \in 0..Len(w) /\ c \in 0..Len(w)
    BY <1>2
  <2>2. QED
    BY <2>1, PartTokens
<1>7. WindowTokens(SubSeq(w, 1, c)) = 3 + 4 * c + t[c]
  BY <1>1, <1>3, <1>6
<1>8. ASSUME NEW x \in Nat, NEW y \in Nat, NEW z \in Nat, y <= z
      PROVE  3 + 4 * (b - a) + (y - x) <= 3 + 4 * c + z /\ 3 + 4 * c + z \in Nat
             /\ 3 + 4 * (b - a) + (y - x) \in Int
  BY <1>1, <1>8
<1>9. /\ WindowTokens(SubSeq(w, a + 1, b)) <= WindowTokens(SubSeq(w, 1, c))
      /\ WindowTokens(SubSeq(w, 1, c)) \in Nat /\ WindowTokens(SubSeq(w, a + 1, b)) \in Int
  <2> HIDE DEF t
  <2>1. /\ 3 + 4 * (b - a) + (t[b] - t[a]) <= 3 + 4 * c + t[c]
        /\ 3 + 4 * c + t[c] \in Nat /\ 3 + 4 * (b - a) + (t[b] - t[a]) \in Int
    BY <1>3, <1>4, <1>8
  <2>2. QED
    BY <1>5, <1>7, <2>1
<1>10. QED
  BY <1>9, MemoryAssumption DEF TooLarge

\* A window that fits has heads that fit.
LEMMA HeadsFit ==
  ASSUME NEW w \in Seq(Message), Fits(w), NEW i \in 2..Len(w)
  PROVE  ~TooLarge(SubSeq(w, 1, i))
<1>1. Len(w) \in Nat /\ i \in Nat /\ i <= Len(w) /\ Len(w) > 1
  OBVIOUS
<1>2. SubSeq(w, 1, Len(w)) = w
  BY WholeIsFromFirst DEF From
<1>3. ~TooLarge(SubSeq(w, 1, Len(w)))
  BY <1>1, <1>2 DEF Fits
<1>4. 0 \in 0..Len(w) /\ i \in 0..Len(w) /\ Len(w) \in i..Len(w) /\ 0 + 1 = 1
  BY <1>1
<1>5. ~TooLarge(SubSeq(w, 0 + 1, i))
  BY <1>3, <1>4, PartIsNotTooLarge
<1>6. QED
  BY <1>4, <1>5

\* A window that fits is bounded.
LEMMA FittingIsBounded ==
  ASSUME NEW w \in Seq(Message), Fits(w) PROVE Bounded(w)
<1>1. ASSUME NEW i \in DOMAIN w, i > 1 PROVE ~TooLarge(SubSeq(w, 1, i))
  <2>1. i \in 2..Len(w)
    BY <1>1
  <2>2. QED
    BY <2>1, HeadsFit
<1>2. QED
  BY <1>1 DEF Bounded

\* A message is added to a window that fits, or to one whose newest turn is its own.
LEMMA AddedIsBounded ==
  ASSUME NEW w \in Seq(Message), NEW m \in Message,
         \/ Fits(w)
         \/ w # <<>> /\ w[Len(w)].turn = m.turn /\ Bounded(w)
  PROVE  Bounded(Append(w, m))
<1> DEFINE v == Append(w, m)
<1>1. /\ v \in Seq(Message) /\ Len(v) = Len(w) + 1 /\ v[Len(v)] = m /\ Len(w) \in Nat
      /\ \A i \in 1..Len(w) : v[i] = w[i]
  OBVIOUS
<1>2. ASSUME NEW i \in 1..Len(w) PROVE SubSeq(v, 1, i) = SubSeq(w, 1, i)
  <2>1. SubSeq(v, 1, i) \in Seq(Message) /\ SubSeq(w, 1, i) \in Seq(Message)
        /\ Len(SubSeq(v, 1, i)) = i /\ Len(SubSeq(w, 1, i)) = i
    BY <1>1
  <2>2. \A j \in 1..i : SubSeq(v, 1, i)[j] = SubSeq(w, 1, i)[j]
    BY <1>1
  <2>3. QED
    BY <2>1, <2>2, SeqEqual
<1> HIDE DEF v
<1>3. SUFFICES ASSUME NEW i \in DOMAIN v, i > 1, v[i].turn # m.turn
               PROVE  ~TooLarge(SubSeq(v, 1, i))
  BY <1>1 DEF Bounded, v
<1>4. i \in 2..Len(w) /\ i \in 1..Len(w) /\ i \in DOMAIN w /\ v[i] = w[i]
  <2>1. i \in 1..(Len(w) + 1) /\ i # Len(w) + 1
    BY <1>1, <1>3
  <2>2. i \in 2..Len(w) /\ i \in 1..Len(w)
    BY <1>1, <1>3, <2>1
  <2>3. QED
    BY <1>1, <2>2
<1>5. ~TooLarge(SubSeq(w, 1, i))
  <2>1. CASE Fits(w)
    BY <1>4, <2>1, HeadsFit
  <2>2. CASE w[Len(w)].turn = m.turn /\ Bounded(w)
    BY <1>3, <1>4, <2>2 DEF Bounded
  <2>3. QED
    BY <2>1, <2>2
<1>6. QED
  BY <1>2, <1>4, <1>5

\* The end of a bounded window is bounded.
LEMMA EndIsBounded ==
  ASSUME NEW w \in Seq(Message), Bounded(w), NEW k \in 0..(Len(w) - 1)
  PROVE  /\ Bounded(From(w, k + 1))
         /\ From(w, k + 1) # <<>>
         /\ From(w, k + 1)[Len(From(w, k + 1))] = w[Len(w)]
<1> DEFINE v == From(w, k + 1)
<1>1. Len(w) \in Nat /\ k \in Nat /\ k < Len(w) /\ k + 1 \in 1..(Len(w) + 1)
  OBVIOUS
<1>2. /\ v \in Seq(Message) /\ Len(v) = Len(w) - k
      /\ \A j \in 1..(Len(w) - k) : v[j] = w[k + j]
  <2>1. /\ v \in Seq(Message) /\ Len(v) = Len(w) - (k + 1) + 1
        /\ \A j \in 1..(Len(w) - (k + 1) + 1) : v[j] = w[(k + 1) + j - 1]
    BY <1>1, FromProperties
  <2> HIDE DEF v
  <2>2. Len(w) - (k + 1) + 1 = Len(w) - k /\ \A j \in Int : (k + 1) + j - 1 = k + j
    BY <1>1
  <2>3. QED
    BY <2>1, <2>2
<1> HIDE DEF v
<1>3. v # <<>> /\ v[Len(v)] = w[Len(w)]
  <2>1. Len(v) \in 1..(Len(w) - k) /\ k + Len(v) = Len(w) /\ Len(v) # 0
    BY <1>1, <1>2
  <2>2. v[Len(v)] = w[k + Len(v)]
    BY <1>2, <2>1
  <2>3. QED
    BY <2>1, <2>2
<1>4. ASSUME NEW i \in DOMAIN v, i > 1, v[i].turn # v[Len(v)].turn
      PROVE  ~TooLarge(SubSeq(v, 1, i))
  <2>1. i \in Nat /\ i \in 1..(Len(w) - k) /\ k + i \in 1..Len(w) /\ k + i > 1
    BY <1>1, <1>2, <1>4
  <2>2. ~TooLarge(SubSeq(w, 1, k + i))
    <3>1. v[i] = w[k + i]
      BY <1>2, <2>1
    <3>2. w[k + i].turn # w[Len(w)].turn
      BY <1>3, <1>4, <3>1
    <3>3. k + i \in DOMAIN w
      BY <2>1
    <3>4. QED
      BY <2>1, <3>2, <3>3 DEF Bounded
  <2>3. ~TooLarge(SubSeq(w, k + 1, k + i))
    <3>1. k \in 0..Len(w) /\ k + i \in k..Len(w) /\ k + i \in (k + i)..Len(w)
      BY <1>1, <2>1
    <3>2. QED
      BY <2>2, <3>1, PartIsNotTooLarge
  <2>4. SubSeq(v, 1, i) = SubSeq(w, k + 1, k + i)
    <3>1. /\ SubSeq(v, 1, i) \in Seq(Message) /\ Len(SubSeq(v, 1, i)) = i
          /\ \A j \in 1..i : SubSeq(v, 1, i)[j] = v[j]
      <4>1. 0 \in 0..Len(v) /\ i \in 0..Len(v) /\ 0 + 1 = 1 /\ i - 0 = i
        BY <1>1, <1>2, <2>1
      <4>2. \A j \in 1..i : 0 + j = j
        OBVIOUS
      <4>3. /\ SubSeq(v, 0 + 1, i) \in Seq(Message) /\ Len(SubSeq(v, 0 + 1, i)) = i - 0
            /\ \A j \in 1..(i - 0) : SubSeq(v, 0 + 1, i)[j] = v[0 + j]
        BY <1>2, <4>1, PartProperties
      <4>4. QED
        BY <4>1, <4>2, <4>3
    <3>2. /\ SubSeq(w, k + 1, k + i) \in Seq(Message) /\ Len(SubSeq(w, k + 1, k + i)) = i
          /\ \A j \in 1..i : SubSeq(w, k + 1, k + i)[j] = w[k + j]
      <4>1. k \in 0..Len(w) /\ k + i \in k..Len(w) /\ (k + i) - k = i
        BY <1>1, <2>1
      <4>2. /\ SubSeq(w, k + 1, k + i) \in Seq(Message)
            /\ Len(SubSeq(w, k + 1, k + i)) = (k + i) - k
            /\ \A j \in 1..((k + i) - k) : SubSeq(w, k + 1, k + i)[j] = w[k + j]
        BY <4>1, PartProperties
      <4>3. QED
        BY <4>1, <4>2
    <3>3. \A j \in 1..i : v[j] = w[k + j]
      BY <1>1, <1>2, <2>1
    <3>4. QED
      BY <3>1, <3>2, <3>3, SeqEqual
  <2>5. QED
    BY <2>3, <2>4
<1>5. QED
  BY <1>3, <1>4 DEF Bounded, v

\* What a request at an await, adding a message of a role, has made of the window.
AtBound(r, at, role, w) ==
  /\ at \in {"readSummary", "readActive", "storeTrimmed"} => role = "user"
  /\ at \in {"readToAdd", "storeAdded"} /\ role = "user" => Fits(w)
  /\ \/ at = "agent"
     \/ at \in {"readToAdd", "storeAdded"} /\ role # "user"
     \/ /\ at \in {"readToSummarise", "readSummarised", "storeSummary", "storeRemaining"}
        /\ role = "user"
     => w # <<>> /\ w[Len(w)].turn = r

BoundInv ==
  /\ Bounded(Window)
  /\ \A r \in Requests : AtBound(r, pc[r], adding[r].role, Window)

\* What is left to show for a step of one request.
LEMMA StepKeepsBound ==
  ASSUME MemoryInv, NEW r \in Requests, Alone(r),
         \A q \in Requests \ {r} : pc'[q] = pc[q],
         Bounded(Window'), AtBound(r, pc'[r], adding'[r].role, Window')
  PROVE  BoundInv'
<1>1. ASSUME NEW q \in Requests \ {r}
      PROVE  AtBound(q, pc'[q], adding'[q].role, Window')
  <2>1. pc'[q] \in {"idle", "done"}
    BY DEF Alone, Active
  <2>2. QED
    BY <2>1 DEF AtBound
<1>2. QED
  BY <1>1 DEF BoundInv

\* Of a request that goes on and adds what it was to add.
LEMMA MoveKeepsBound ==
  ASSUME MemoryInv, NEW r \in Requests, Alone(r), NEW next, Moves(r, next),
         Bounded(Window'), AtBound(r, next, adding[r].role, Window')
  PROVE  BoundInv'
<1>1. /\ pc'[r] = next /\ \A q \in Requests \ {r} : pc'[q] = pc[q]
      /\ next = "done" \/ adding' = adding
  BY DEF Moves, MemoryInv, TypeOK
<1>2. AtBound(r, pc'[r], adding'[r].role, Window')
  <2>1. CASE next = "done"
    BY <1>1, <2>1 DEF AtBound
  <2>2. CASE next # "done"
    BY <1>1, <2>2
  <2>3. QED
    BY <2>1, <2>2
<1>3. QED
  BY <1>1, <1>2, StepKeepsBound

\* Nothing is known of a request that is over, clears the memory or begins to read.
LEMMA NothingAtBound ==
  ASSUME NEW r, NEW at \in {"idle", "done", "clearWindow", "clearSummary"}, NEW role, NEW w
  PROVE  AtBound(r, at, role, w)
BY DEF AtBound

\* A window without messages is bounded and fits.
LEMMA NoneIsBounded == Bounded(<<>>) /\ Fits(<<>>)
<1>1. Len(<<>>) = 0 /\ DOMAIN <<>> = {}
  OBVIOUS
<1>2. QED
  BY <1>1 DEF Bounded, Fits

\* getActiveWindow leaves a window that fits.
LEMMA TrimmedFits ==
  ASSUME NEW w \in Seq(Message)
  PROVE  Fits(Trimmed(w)) /\ Trimmed(w) \in Seq(Message)
<1>1. PICK i \in 1..(Len(w) + 1) : Trimmed(w) = From(w, i)
  BY TrimmedProperties
<1>2. Trimmed(w) \in Seq(Message)
  BY <1>1, FromProperties
<1>3. Len(Trimmed(w)) > 1 => WindowTokens(Trimmed(w)) <= MaxTokens
  BY TrimmedProperties
<1>4. WindowTokens(Trimmed(w)) \in Nat /\ MaxTokens \in Nat
  BY <1>2, TokensUpToExists, MemoryAssumption
<1>5. QED
  BY <1>2, <1>3, <1>4 DEF Fits, TooLarge

\* A request arrives, or adds an answer behind its question.
LEMMA BeginningKeepsBound ==
  ASSUME Serial, MemoryInv, SerialInv, SerialInv', BoundInv, NEW r \in Requests,
         Arrive(r) \/ Answer(r)
  PROVE  BoundInv'
<1>1. Window' = Window /\ \A q \in Requests \ {r} : pc'[q] = pc[q]
  BY GotoMovesOne DEF Arrive, Answer, stored, Window, OthersRest, MemoryInv, TypeOK
<1>2. Alone(r)
  <2>1. CASE pc[r] = "agent"
    BY <2>1, ActiveIsAlone
  <2>2. CASE Arrive(r)
    <3>1. Active(r)'
      BY <2>2 DEF Arrive, Active, MemoryInv, TypeOK
    <3>2. \A q \in Requests \ {r} : pc'[q] \in {"idle", "done"}
      BY <3>1 DEF SerialInv, Alone, Active
    <3>3. QED
      BY <1>1, <3>2 DEF Alone, Active
  <2>3. QED
    BY <2>1, <2>2 DEF Answer
<1>3. Bounded(Window')
  BY <1>1 DEF BoundInv
<1>4. AtBound(r, pc'[r], adding'[r].role, Window')
  <2>1. CASE Arrive(r)
    <3>1. \/ pc'[r] = "clearWindow"
          \/ pc'[r] = "readSummary" /\ adding'[r].role = "user"
      BY <2>1 DEF Arrive, MemoryInv, TypeOK
    <3>2. QED
      BY <3>1 DEF AtBound
  <2>2. CASE Answer(r) /\ Goto(r, "done")
    <3>1. pc'[r] = "done"
      BY <2>2, GotoMovesOne
    <3>2. QED
      BY <3>1 DEF AtBound
  <2>3. CASE Answer(r) /\ ~Goto(r, "done")
    <3>1. pc[r] = "agent" /\ pc'[r] = "readToAdd" /\ adding'[r].role = "assistant"
      BY <2>3 DEF Answer, MemoryInv, TypeOK
    <3>2. Window # <<>> /\ Window[Len(Window)].turn = r
      BY <3>1 DEF BoundInv, AtBound
    <3>3. QED
      BY <1>1, <3>1, <3>2 DEF AtBound
  <2>4. QED
    BY <2>1, <2>2, <2>3
<1>5. QED
  BY <1>1, <1>2, <1>3, <1>4, StepKeepsBound

\* A request has read the window as it is.
LEMMA ContinueKeepsBound ==
  ASSUME MemoryInv, SerialInv, BoundInv, NEW r \in Requests, NEW w, Continue(r, w),
         pc[r] \in WindowReads, w = Window, Window' = Window
  PROVE  BoundInv'
<1> DEFINE next == AfterRead(r, w)
           role == adding[r].role
<1>1. Alone(r) /\ Moves(r, next)
  BY ActiveIsAlone, GotoMoves DEF Continue, Moves
<1>2. Bounded(Window') /\ AtBound(r, pc[r], role, Window)
  BY DEF BoundInv
<1>3. Window \in Seq(Message)
  BY DEF Window, MemoryInv, TypeOK
<1>4. AtBound(r, next, role, Window)
  <2>1. CASE pc[r] = "readActive"
    <3>1. role = "user"
      BY <1>2, <2>1 DEF AtBound
    <3>2. next = IF Trimmed(Window) # Window THEN "storeTrimmed" ELSE "readToAdd"
      BY <2>1 DEF AfterRead
    <3>3. Trimmed(Window) = Window => Fits(Window)
      BY <1>3, TrimmedFits
    <3>4. QED
      BY <3>1, <3>2, <3>3 DEF AtBound
  <2>2. CASE pc[r] = "readToAdd"
    <3>1. next = "storeAdded"
      BY <2>2 DEF AfterRead
    <3>2. QED
      BY <1>2, <2>2, <3>1 DEF AtBound
  <2>3. CASE pc[r] = "readToSummarise"
    <3>1. next = "readSummarised" \/ next = "done" \/ (next = "agent" /\ role = "user")
      BY <2>3 DEF AfterRead, AfterAdd
    <3>2. QED
      BY <1>2, <2>3, <3>1 DEF AtBound
  <2>4. QED
    BY <2>1, <2>2, <2>3
<1> HIDE DEF next, role
<1>5. AtBound(r, next, adding[r].role, Window')
  BY <1>4 DEF role
<1>6. QED
  BY <1>1, <1>2, <1>5, MoveKeepsBound

\* A request reads a window, or stores an empty one where it found none.
LEMMA ReadingKeepsBound ==
  ASSUME MemoryInv, SerialInv, BoundInv, NEW r \in Requests,
         ReadWindow(r) \/ CreateWindow(r)
  PROVE  BoundInv'
<1>1. CASE ReadWindow(r) /\ window = Absent
  <2>1. UNCHANGED <<window, pc, adding>>
    BY <1>1 DEF ReadWindow, stored
  <2>2. QED
    BY <2>1 DEF BoundInv, Window
<1>2. CASE ReadWindow(r) /\ window # Absent
  <2>1. Continue(r, Window) /\ Window' = Window /\ pc[r] \in WindowReads
    BY <1>2 DEF ReadWindow, stored, Window
  <2>2. QED
    BY <2>1, ContinueKeepsBound
<1>3. CASE CreateWindow(r)
  <2>1. window = Absent /\ window' = <<>> /\ pc[r] \in WindowReads
    BY <1>3 DEF CreateWindow, SerialInv, UpToDate, MemoryInv, LocalsInv
  <2>2. Window' = Window /\ Continue(r, Window)
    BY <1>3, <2>1 DEF Window, CreateWindow
  <2>3. QED
    BY <2>1, <2>2, ContinueKeepsBound
<1>4. QED
  BY <1>1, <1>2, <1>3

\* The window is trimmed until it fits.
LEMMA TrimmingKeepsBound ==
  ASSUME Serial, MemoryInv, SerialInv, BoundInv, NEW r \in Requests, StoreTrimmed(r)
  PROVE  BoundInv'
<1>1. /\ pc[r] = "storeTrimmed" /\ window' = copy[r] /\ Goto(r, "readToAdd")
      /\ copy[r] = Trimmed(Window)
  BY DEF StoreTrimmed, SerialInv, UpToDate
<1>2. Window \in Seq(Message)
  BY DEF Window, MemoryInv, TypeOK
<1>3. Window' = Trimmed(Window) /\ Fits(Window') /\ Window' \in Seq(Message)
  BY <1>1, <1>2, TrimmedFits, CopyIsHeld
<1>4. Bounded(Window')
  <2>1. Bounded(Trimmed(Window))
    BY <1>2, TrimmedFits, FittingIsBounded
  <2>2. QED
    BY <1>3, <2>1
<1>5. adding[r].role = "user"
  BY <1>1 DEF BoundInv, AtBound
<1>6. AtBound(r, "readToAdd", adding[r].role, Window')
  BY <1>3, <1>5 DEF AtBound
<1>7. QED
  BY <1>1, <1>4, <1>6, ActiveIsAlone, GotoMoves, MoveKeepsBound

\* A message is added to a window that fits, or behind its own question.
LEMMA AddingKeepsBound ==
  ASSUME Serial, MemoryInv, SerialInv, BoundInv, NEW r \in Requests, StoreAdded(r)
  PROVE  BoundInv'
<1> DEFINE m == adding[r]
           next == IF WindowTokens(Pushed(copy[r], m)) >= SummariseAt
                     THEN "readToSummarise" ELSE AfterAdd(r)
<1>1. pc[r] = "storeAdded" /\ window' = Pushed(copy[r], m) /\ Goto(r, next)
  BY DEF StoreAdded
<1>2. m \in Message /\ m.turn = r /\ copy[r] = Window
  BY <1>1 DEF MemoryInv, LocalsInv, SerialInv, UpToDate
<1>3. Window \in Seq(Message)
  BY DEF Window, MemoryInv, TypeOK
<1>4. Window' = Append(Window, m)
  <2>1. window' = Append(Window, m)
    BY <1>1, <1>2 DEF Pushed
  <2>2. Append(Window, m) \in Seq(Message)
    BY <1>2, <1>3
  <2>3. QED
    BY <2>1, <2>2, CopyIsHeld
<1>5. Fits(Window) \/ (Window # <<>> /\ Window[Len(Window)].turn = m.turn)
  BY <1>1, <1>2 DEF BoundInv, AtBound
<1>6. Bounded(Append(Window, m))
  BY <1>2, <1>3, <1>5, AddedIsBounded DEF BoundInv
<1>7. next \in {"readToSummarise", "done"} \/ (next = "agent" /\ m.role = "user")
  BY DEF AfterAdd
<1> HIDE DEF next
<1>8. /\ Append(Window, m) # <<>>
      /\ Append(Window, m)[Len(Append(Window, m))] = m
  BY <1>2, <1>3
<1>9. AtBound(r, next, m.role, Append(Window, m))
  BY <1>2, <1>7, <1>8 DEF AtBound
<1>10. Bounded(Window') /\ AtBound(r, next, adding[r].role, Window')
  BY <1>4, <1>6, <1>9
<1>11. Alone(r) /\ Moves(r, next)
  BY <1>1, ActiveIsAlone, GotoMoves
<1>12. QED
  BY <1>10, <1>11, MoveKeepsBound

\* The window keeps its end, the newest turn in it.
LEMMA RemainingKeepsBound ==
  ASSUME Serial, MemoryInv, SerialInv, BoundInv, NEW r \in Requests, StoreRemaining(r)
  PROVE  BoundInv'
<1> DEFINE k == SplitIndex(Window)
<1>1. /\ pc[r] = "storeRemaining" /\ window' = Remaining(copy[r]) /\ Goto(r, AfterAdd(r))
      /\ copy[r] = Window /\ Len(copy[r]) >= 4
  BY DEF StoreRemaining, SerialInv, UpToDate, MemoryInv, LocalsInv
<1>2. Window \in Seq(Message) /\ Len(Window) \in Nat
  BY DEF Window, MemoryInv, TypeOK
<1>3. k \in 0..(Len(Window) - 1)
  <2>1. k \in 0..Len(Window) /\ k < Len(Window)
    BY <1>1, <1>2, SplitProperties
  <2> HIDE DEF k
  <2>2. QED
    BY <1>2, <2>1
<1> HIDE DEF k
<1>4. Window' = From(Window, k + 1)
  <2>1. window' = From(Window, k + 1)
    BY <1>1 DEF Remaining, k
  <2>2. From(Window, k + 1) \in Seq(Message)
    <3>1. k + 1 \in 1..(Len(Window) + 1)
      BY <1>2, <1>3
    <3>2. QED
      BY <1>2, <3>1, FromProperties
  <2>3. QED
    BY <2>1, <2>2, CopyIsHeld
<1>5. /\ Bounded(From(Window, k + 1)) /\ From(Window, k + 1) # <<>>
      /\ From(Window, k + 1)[Len(From(Window, k + 1))] = Window[Len(Window)]
  BY <1>2, <1>3, EndIsBounded DEF BoundInv
<1>6. adding[r].role = "user" => Window[Len(Window)].turn = r
  BY <1>1 DEF BoundInv, AtBound
<1>7. AfterAdd(r) = "done" \/ (AfterAdd(r) = "agent" /\ adding[r].role = "user")
  BY DEF AfterAdd
<1>8. AtBound(r, AfterAdd(r), adding[r].role, From(Window, k + 1))
  BY <1>5, <1>6, <1>7 DEF AtBound
<1>9. Bounded(Window') /\ AtBound(r, AfterAdd(r), adding[r].role, Window')
  BY <1>4, <1>5, <1>8
<1>10. Alone(r) /\ Moves(r, AfterAdd(r))
  BY <1>1, ActiveIsAlone, GotoMoves
<1>11. QED
  BY <1>9, <1>10, MoveKeepsBound

\* Other steps of a request leave the window, or clear it.
LEMMA OthersKeepBound ==
  ASSUME MemoryInv, SerialInv, BoundInv, NEW r \in Requests,
         \/ ReadSummary(r) \/ ReadSummarised(r) \/ StoreSummary(r) \/ SummariseFails(r)
         \/ ClearWindow(r) \/ ClearSummary(r) \/ Throw(r)
  PROVE  BoundInv'
<1> DEFINE Goes(next) ==
             /\ Moves(r, next) /\ pc[r] \notin {"idle", "done"}
             /\ \/ Window' = Window /\ AtBound(r, next, adding[r].role, Window)
                \/ Window' = <<>> /\ next = "clearSummary"
<1>1. AtBound(r, pc[r], adding[r].role, Window) /\ Bounded(Window)
  BY DEF BoundInv
<1>2. ASSUME NEW next, Goes(next) PROVE BoundInv'
  <2>1. Alone(r)
    BY <1>2, ActiveIsAlone
  <2>2. Bounded(Window') /\ AtBound(r, next, adding[r].role, Window')
    BY <1>1, <1>2, NoneIsBounded, NothingAtBound
  <2>3. QED
    BY <1>2, <2>1, <2>2, MoveKeepsBound
<1>3. CASE ReadSummary(r)
  <2>1. pc[r] = "readSummary" /\ Moves(r, "readActive") /\ Window' = Window
    BY <1>3, GotoMoves DEF ReadSummary, stored, Window
  <2>2. AtBound(r, "readActive", adding[r].role, Window)
    BY <1>1, <2>1 DEF AtBound
  <2>3. QED
    BY <1>2, <2>1, <2>2
<1>4. CASE ReadSummarised(r)
  <2>1. pc[r] = "readSummarised" /\ Moves(r, "storeSummary") /\ Window' = Window
    BY <1>4 DEF ReadSummarised, stored, Window, Moves
  <2>2. AtBound(r, "storeSummary", adding[r].role, Window)
    BY <1>1, <2>1 DEF AtBound
  <2>3. QED
    BY <1>2, <2>1, <2>2
<1>5. CASE StoreSummary(r)
  <2>1. pc[r] = "storeSummary" /\ Moves(r, "storeRemaining") /\ Window' = Window
    BY <1>5, GotoMoves DEF StoreSummary, Window
  <2>2. AtBound(r, "storeRemaining", adding[r].role, Window)
    BY <1>1, <2>1 DEF AtBound
  <2>3. QED
    BY <1>2, <2>1, <2>2
<1>6. CASE SummariseFails(r)
  <2>1. /\ pc[r] \in {"storeSummary", "storeRemaining"} /\ Moves(r, AfterAdd(r))
        /\ Window' = Window
    BY <1>6, GotoMoves DEF SummariseFails, Window
  <2>2. AfterAdd(r) = "done" \/ (AfterAdd(r) = "agent" /\ adding[r].role = "user")
    BY DEF AfterAdd
  <2>3. AtBound(r, AfterAdd(r), adding[r].role, Window)
    BY <1>1, <2>1, <2>2 DEF AtBound
  <2>4. QED
    BY <1>2, <2>1, <2>3
<1>7. CASE ClearWindow(r)
  <2>1. pc[r] = "clearWindow" /\ Moves(r, "clearSummary") /\ Window' = <<>>
    BY <1>7, GotoMoves DEF ClearWindow, Window
  <2>2. QED
    BY <1>2, <2>1
<1>8. CASE ClearSummary(r) \/ Throw(r)
  <2>1. pc[r] \notin {"idle", "done"} /\ Moves(r, "done") /\ Window' = Window
    BY <1>8, GotoMoves DEF ClearSummary, Throw, stored, Window
  <2>2. QED
    BY <1>2, <2>1, NothingAtBound
<1>9. QED
  BY <1>3, <1>4, <1>5, <1>6, <1>7, <1>8

\* Between requests the window may go; a crash takes every request with it.
LEMMA LapsesKeepBound ==
  ASSUME MemoryInv, BoundInv, Crash \/ Expire PROVE BoundInv'
<1>1. Window' \in {Window, <<>>}
  BY DEF Crash, Expire, Window
<1>2. Bounded(Window')
  BY <1>1, NoneIsBounded DEF BoundInv
<1>3. \A r \in Requests : pc'[r] \in {"idle", "done"}
  BY DEF Crash, Expire, Quiet, Active, locals, MemoryInv, TypeOK
<1>4. \A r \in Requests : AtBound(r, pc'[r], adding'[r].role, Window')
  BY <1>3 DEF AtBound
<1>5. QED
  BY <1>2, <1>4 DEF BoundInv

\* Every step.
LEMMA NextKeepsBound ==
  ASSUME Serial, MemoryInv, SerialInv, SerialInv', BoundInv, [Next]_vars
  PROVE  BoundInv'
<1>1. CASE UNCHANGED vars
  <2>1. UNCHANGED <<window, pc, adding>>
    BY <1>1 DEF vars, stored, locals
  <2>2. QED
    BY <2>1 DEF BoundInv, Window
<1>2. ASSUME NEW r \in Requests,
             \/ Arrive(r) \/ ReadSummary(r) \/ ReadWindow(r) \/ CreateWindow(r)
             \/ StoreTrimmed(r) \/ StoreAdded(r) \/ ReadSummarised(r)
             \/ StoreSummary(r) \/ StoreRemaining(r) \/ SummariseFails(r)
             \/ Answer(r) \/ ClearWindow(r) \/ ClearSummary(r) \/ Throw(r)
      PROVE  BoundInv'
  BY <1>2, BeginningKeepsBound, ReadingKeepsBound, TrimmingKeepsBound, AddingKeepsBound,
     RemainingKeepsBound, OthersKeepBound
<1>3. QED
  BY <1>1, <1>2, LapsesKeepBound DEF Next, Done

-----------------------------------------------------------------------------
(* Theorems.                                                                *)

\* SerialInv holds while requests come one at a time.
THEOREM SerialInvariant ==
  ASSUME Serial PROVE Spec => []SerialInv
<1>1. Init => SerialInv
  BY DEF Init, SerialInv, UpToDate, Active
<1>2. MemoryInv /\ SerialInv /\ [Next]_vars => SerialInv'
  BY NextServes
<1>3. QED
  BY <1>1, <1>2, MemoryInvariant, PTL DEF Spec

\* With one request at a time the short-term memory implements ConversationLog: no
\* step loses a message that is neither summarised nor over the cap, through failures
\* and crashes at any await.
THEOREM MemoryKeepsPromise ==
  ASSUME Serial PROVE Spec => KeepsPromise
<1>1. Init => Promise!Init
  BY DEF Init, Promise!Init, Window
<1>2. MemoryInv /\ SerialInv /\ [Next]_vars => [Promise!Next]_(Promise!vars)
  BY NextServes DEF IsPromised
<1>3. QED
  BY <1>1, <1>2, MemoryInvariant, SerialInvariant, PTL
     DEF Spec, KeepsPromise, Promise!Spec

\* What the window, the summary and the log are to one another.
THEOREM LogInvariant == ASSUME Serial PROVE Spec => []LogInv
<1>1. Init => LogInv
  BY InitEstablishesLog
<1>2. MemoryInv /\ MemoryInv' /\ SerialInv /\ LogInv /\ [Next]_vars => LogInv'
  BY NextServes, NextKeepsLog
<1>3. QED
  BY <1>1, <1>2, MemoryInvariant, SerialInvariant, PTL DEF Spec

\* With one request at a time the window is the newest part of all messages stored,
\* without a gap.
THEOREM WindowStaysNewest == ASSUME Serial PROVE Spec => []WindowIsNewest
<1>1. LogInv => WindowIsNewest
  BY DEF LogInv
<1>2. QED
  BY <1>1, LogInvariant, PTL

\* With one request at a time the summary shares with the window a head of the window
\* only.
THEOREM SummaryStaysOlder == ASSUME Serial PROVE Spec => []SummaryIsOlder
<1>1. LogInv => SummaryIsOlder
  BY DEF LogInv
<1>2. QED
  BY <1>1, LogInvariant, PTL

\* With one request at a time the window without its newest turn is within the cap, or
\* a single message, however many summaries fail and wherever turns end.
THEOREM WindowIsBounded == ASSUME Serial PROVE Spec => []WindowStaysBounded
<1>1. Init => BoundInv
  <2>1. SUFFICES ASSUME Init PROVE BoundInv
    OBVIOUS
  <2>2. Window = <<>> /\ \A r \in Requests : pc[r] = "idle"
    BY <2>1 DEF Init, Window
  <2>3. QED
    BY <2>2, NoneIsBounded, NothingAtBound DEF BoundInv
<1>2. MemoryInv /\ SerialInv /\ SerialInv' /\ BoundInv /\ [Next]_vars => BoundInv'
  BY NextKeepsBound
<1>3. BoundInv => WindowStaysBounded
  BY DEF BoundInv, Bounded, WindowStaysBounded
<1>4. QED
  BY <1>1, <1>2, <1>3, MemoryInvariant, SerialInvariant, PTL DEF Spec

=============================================================================
