----------------------------- MODULE MemoryProofs -----------------------------
(***************************************************************************)
(* Proofs about ShortTermMemory, for every set of requests, any number of   *)
(* them at once, every size of messages and of the window, and any number   *)
(* of failures, lapses and crashes.                                         *)
(*                                                                         *)
(* Requests store stale copies of the window over one another; what is true *)
(* of the window must be true of every copy of it.  MemoryInv says which    *)
(* messages no copy can hold yet, by how far their request is.              *)
(***************************************************************************)
EXTENDS ShortTermMemory, SequenceTheorems, WellFoundedInduction, TLAPS

\* Requests that have not stored their question.
Unasked ==
  {r \in Requests :
     \/ pc[r] \in {"idle", "readSummary", "readActive", "storeTrimmed"}
     \/ pc[r] \in {"readToAdd", "storeAdded"} /\ adding[r].role = "user"}

\* Requests that may still store an answer, and have not.
Unanswered ==
  {r \in Requests :
     \/ pc[r] = "agent"
     \/ pc[r] \in {"readToAdd", "storeAdded"} /\ adding[r].role = "assistant"
     \/ /\ pc[r] \in {"readToSummarise", "readSummarised", "storeSummary", "storeRemaining"}
        /\ adding[r].role = "user"}

\* A list of messages in which turns are in order, nothing is there of the
\* requests in unasked, and nothing but the question of those in unanswered.
Orderly(w, unasked, unanswered) ==
  /\ \A i, j \in DOMAIN w :
       i < j /\ w[i].turn = w[j].turn => w[i].role = "user" /\ w[j].role = "assistant"
  /\ \A i \in DOMAIN w :
       /\ w[i].turn \notin unasked
       /\ w[i].turn \in unanswered => w[i].role = "user"

TurnAwaits == Awaits \ {"clearWindow", "clearSummary"}

\* What a request has at each await: its own message, a window to split.
LocalsInv ==
  \A r \in Requests :
    /\ pc[r] \in TurnAwaits => adding[r] \in Message /\ adding[r].turn = r
    /\ pc[r] \in {"readSummarised", "storeSummary", "storeRemaining"} => Len(copy[r]) >= 4
    /\ creating[r] => pc[r] \in WindowReads

\* The window and all copies of it.
ListsInv ==
  /\ Orderly(Window, Unasked, Unanswered)
  /\ \A r \in Requests : Orderly(copy[r], Unasked, Unanswered)

MemoryInv == TypeOK /\ LocalsInv /\ ListsInv

-----------------------------------------------------------------------------
(* Lists.                                                                   *)

\* A set of natural numbers that is not empty has a least element.
LEMMA LeastExists ==
  ASSUME NEW S \in SUBSET Nat, S # {}
  PROVE  \E i \in S : \A j \in S : i <= j
<1>1. PICK i \in S : \A j \in S : ~(<<j, i>> \in OpToRel(<, Nat))
  BY NatLessThanWellFounded, WFMin
<1>2. ASSUME NEW j \in S PROVE i <= j
  <2>1. <<j, i>> \in Nat \X Nat
    OBVIOUS
  <2>2. ~(j < i)
    BY <1>1, <2>1 DEF OpToRel
  <2>3. QED
    BY <2>2
<1>3. QED
  BY <1>2

\* A non-empty set of positions has a last one.
LEMMA LastExists ==
  ASSUME NEW n \in Nat, NEW S \in SUBSET (1..n), S # {}
  PROVE  \E i \in S : \A j \in S : j <= i
<1> DEFINE fromEnd == {n - i : i \in S}
<1>1. fromEnd \in SUBSET Nat /\ fromEnd # {}
  OBVIOUS
<1>2. PICK x \in fromEnd : \A y \in fromEnd : x <= y
  <2> HIDE DEF fromEnd
  <2>1. QED
    BY <1>1, LeastExists
<1>3. PICK i \in S : x = n - i
  BY <1>2
<1>4. \A j \in S : n - j \in fromEnd
  OBVIOUS
<1>5. \A j \in S : n - i <= n - j
  BY <1>2, <1>3, <1>4
<1>6. QED
  BY <1>5

\* Up to N, the values of f are made one from the one before it, from x on.
Iterates(f, N, x, step) ==
  f[0] = x /\ \A i \in 1..N : f[i] = step[<<i, f[i - 1]>>]

\* Such a function exists: of the heads of its domain without one, there would be
\* a shortest.
LEMMA IterationExists ==
  ASSUME NEW N \in Nat, NEW S, NEW x \in S, NEW step \in [(1..N) \X S -> S]
  PROVE  \E f \in [0..N -> S] : Iterates(f, N, x, step)
<1> DEFINE Good(n, f) == f[0] = x /\ \A i \in 1..n : f[i] = step[<<i, f[i - 1]>>]
           Missing == {n \in 0..N : \A f \in [0..n -> S] : ~Good(n, f)}
<1>1. SUFFICES ASSUME Missing # {} PROVE FALSE
  <2>1. N \in 0..N
    OBVIOUS
  <2>2. Missing = {} => \E f \in [0..N -> S] : Good(N, f)
    BY <2>1
  <2> HIDE DEF Good, Missing
  <2>3. (\E f \in [0..N -> S] : Good(N, f)) \/ Missing # {}
    BY <2>2
  <2>4. QED
    BY <2>3 DEF Good, Iterates
<1>2. PICK n \in Missing : \A m \in Missing : n <= m
  <2>1. Missing \in SUBSET Nat
    OBVIOUS
  <2> HIDE DEF Missing
  <2>2. QED
    BY <1>1, <2>1, LeastExists
<1>3. CASE n = 0
  <2> DEFINE f == [i \in 0..0 |-> x]
  <2>1. f \in [0..n -> S] /\ Good(n, f)
    BY <1>3
  <2> HIDE DEF f, Good
  <2>2. QED
    BY <1>2, <2>1
<1>4. CASE n # 0
  <2>1. n \in 1..N /\ n - 1 \in 0..N /\ n - 1 \notin Missing
    <3>1. n \in 0..N
      BY <1>2
    <3>2. n \in 1..N /\ n - 1 \in 0..N /\ ~(n <= n - 1)
      BY <1>4, <3>1
    <3> HIDE DEF Missing
    <3>3. QED
      BY <1>2, <3>2
  <2>2. PICK f \in [0..(n - 1) -> S] : Good(n - 1, f)
    BY <2>1
  <2>3. f[n - 1] \in S /\ step[<<n, f[n - 1]>>] \in S
    BY <2>1, <2>2
  <2> DEFINE g == [i \in 0..n |-> IF i = n THEN step[<<n, f[n - 1]>>] ELSE f[i]]
  <2>4. g \in [0..n -> S]
    BY <2>1, <2>2, <2>3
  <2>5. \A i \in 0..(n - 1) : g[i] = f[i]
    BY <2>1
  <2>6. g[n] = step[<<n, f[n - 1]>>] /\ g[n - 1] = f[n - 1] /\ g[0] = x
    BY <2>1, <2>2
  <2> HIDE DEF g
  <2>7. ASSUME NEW i \in 1..n PROVE g[i] = step[<<i, g[i - 1]>>]
    <3>1. CASE i = n
      BY <2>6, <3>1
    <3>2. CASE i # n
      <4>1. i \in 1..(n - 1) /\ i \in 0..(n - 1) /\ i - 1 \in 0..(n - 1)
        BY <2>1, <2>7, <3>2
      <4>2. g[i] = f[i] /\ g[i - 1] = f[i - 1]
        BY <2>5, <4>1
      <4>3. f[i] = step[<<i, f[i - 1]>>]
        BY <2>2, <4>1
      <4>4. QED
        BY <4>2, <4>3
    <3>3. QED
      BY <3>1, <3>2
  <2>8. Good(n, g)
    BY <2>6, <2>7
  <2> HIDE DEF Good
  <2>9. QED
    BY <1>2, <2>4, <2>8
<1>5. QED
  BY <1>3, <1>4

\* The tokens of a window are counted: the function that sums them up exists.
LEMMA TokensUpToExists ==
  ASSUME NEW w \in Seq(Message)
  PROVE  /\ \A i \in 0..Len(w) : TokensUpTo(w)[i] \in Nat
         /\ TokensUpTo(w)[0] = 0
         /\ \A i \in 1..Len(w) : TokensUpTo(w)[i] = TokensUpTo(w)[i - 1] + w[i].tokens
         /\ WindowTokens(w) \in Nat
<1> DEFINE next(g, i) == IF i = 0 THEN 0 ELSE g[i - 1] + w[i].tokens
           Sums(g) == g = [i \in 0..Len(w) |-> next(g, i)]
<1>1. Len(w) \in Nat /\ \A i \in 1..Len(w) : w[i].tokens \in Nat
  <2>1. \A i \in 1..Len(w) : w[i] \in Message
    OBVIOUS
  <2>2. \A m \in Message : m.tokens \in Nat
    BY MemoryAssumption DEF Message
  <2>3. QED
    BY <2>1, <2>2
<1>2. \E g : Sums(g)
  <2> DEFINE step == [p \in (1..Len(w)) \X Nat |-> p[2] + w[p[1]].tokens]
  <2>1. step \in [(1..Len(w)) \X Nat -> Nat]
    BY <1>1
  <2>2. \A i \in 1..Len(w), k \in Nat : step[<<i, k>>] = k + w[i].tokens
    OBVIOUS
  <2> HIDE DEF step
  <2>3. PICK f \in [0..Len(w) -> Nat] : Iterates(f, Len(w), 0, step)
    <3>1. 0 \in Nat
      OBVIOUS
    <3>2. QED
      BY <1>1, <2>1, <3>1, IterationExists
  <2>4. ASSUME NEW i \in 0..Len(w) PROVE f[i] = next(f, i)
    <3>1. CASE i = 0
      BY <2>3, <3>1 DEF Iterates
    <3>2. CASE i # 0
      <4>1. i \in 1..Len(w) /\ f[i - 1] \in Nat
        BY <1>1, <3>2
      <4>2. QED
        BY <2>2, <2>3, <3>2, <4>1 DEF Iterates
    <3>3. QED
      BY <3>1, <3>2
  <2> HIDE DEF next
  <2>5. f = [i \in 0..Len(w) |-> next(f, i)]
    BY <2>4
  <2>6. QED
    BY <2>5
<1>3. Sums(TokensUpTo(w))
  <2>1. TokensUpTo(w) = CHOOSE g : Sums(g)
    BY DEF TokensUpTo
  <2> HIDE DEF Sums
  <2>2. QED
    BY <1>2, <2>1
<1> DEFINE t == TokensUpTo(w)
<1>4. \A i \in 0..Len(w) : t[i] = next(t, i)
  <2>1. t = [i \in 0..Len(w) |-> next(t, i)]
    BY <1>3
  <2> HIDE DEF next, t
  <2>2. QED
    BY <2>1
<1>5. \A i \in 0..Len(w) : t[i] \in Nat
  <2> DEFINE S == {i \in 0..Len(w) : t[i] \notin Nat}
  <2> HIDE DEF t
  <2>1. SUFFICES ASSUME S # {} PROVE FALSE
    OBVIOUS
  <2>2. PICK i \in S : \A j \in S : i <= j
    <3>1. S \in SUBSET Nat
      BY <1>1
    <3> HIDE DEF S
    <3>2. QED
      BY <2>1, <3>1, LeastExists
  <2>3. i = 0 \/ (i - 1 \in 0..Len(w) /\ i - 1 \notin S /\ i \in 1..Len(w))
    BY <1>1, <2>2
  <2>4. QED
    BY <1>1, <1>4, <2>2, <2>3
<1>6. t[0] = 0 /\ \A i \in 1..Len(w) : t[i] = t[i - 1] + w[i].tokens
  BY <1>1, <1>4
<1>7. QED
  BY <1>1, <1>5, <1>6 DEF WindowTokens

\* The rest of a list, from a position or one after the last.
LEMMA FromProperties ==
  ASSUME NEW S, NEW w \in Seq(S), NEW i \in 1..(Len(w) + 1)
  PROVE  /\ From(w, i) \in Seq(S)
         /\ Len(From(w, i)) = Len(w) - i + 1
         /\ \A j \in 1..(Len(w) - i + 1) : From(w, i)[j] = w[i + j - 1]
BY DEF From

\* A list is what is left of it from the first message on.
LEMMA WholeIsFromFirst ==
  ASSUME NEW w \in Seq(Message) PROVE From(w, 1) = w
BY FromProperties, SeqEqual DEF From

\* Without its first message, the rest from a position is the rest from the next.
LEMMA TailOfFrom ==
  ASSUME NEW w \in Seq(Message), NEW i \in 1..Len(w), i < Len(w)
  PROVE  Tail(From(w, i)) = From(w, i + 1)
<1> DEFINE a == Tail(From(w, i))
           b == From(w, i + 1)
<1>1. Len(w) \in Nat /\ i \in Nat /\ i + 1 \in 1..(Len(w) + 1)
  OBVIOUS
<1>2. /\ From(w, i) \in Seq(Message) /\ Len(From(w, i)) = Len(w) - i + 1
      /\ \A j \in 1..(Len(w) - i + 1) : From(w, i)[j] = w[i + j - 1]
  BY FromProperties
<1>3. /\ a \in Seq(Message) /\ Len(a) = Len(w) - i
      /\ \A j \in 1..(Len(w) - i) : a[j] = From(w, i)[j + 1]
  BY <1>1, <1>2
<1>4. /\ b \in Seq(Message) /\ Len(b) = Len(w) - i
      /\ \A j \in 1..(Len(w) - i) : b[j] = w[i + j]
  BY <1>1 DEF From
<1> HIDE DEF a, b
<1>5. ASSUME NEW j \in 1..Len(a) PROVE a[j] = b[j]
  <2>1. j \in 1..(Len(w) - i) /\ j + 1 \in 1..(Len(w) - i + 1)
    BY <1>1, <1>3
  <2>2. a[j] = w[i + (j + 1) - 1] /\ b[j] = w[i + j]
    BY <1>2, <1>3, <1>4, <2>1
  <2>3. i + (j + 1) - 1 = i + j
    BY <1>1, <2>1
  <2>4. QED
    BY <2>2, <2>3
<1>6. a = b
  BY <1>3, <1>4, <1>5, SeqEqual
<1>7. QED
  BY <1>6 DEF a, b

\* The window after each iteration of the loop of getActiveWindow.
AfterShift(v) == IF WindowTokens(v) > MaxTokens /\ Len(v) > 1 THEN Tail(v) ELSE v

\* The loop of getActiveWindow: Trimmed is its last window, and each one comes from
\* the one before it.
LEMMA TrimmedIterates ==
  ASSUME NEW w \in Seq(Message)
  PROVE  \E f : /\ f[0] = w
                /\ \A n \in 1..Len(w) : f[n] = AfterShift(f[n - 1])
                /\ Trimmed(w) = f[Len(w)]
<1> DEFINE next(g, n) ==
             IF n = 0
               THEN w
               ELSE IF WindowTokens(g[n - 1]) > MaxTokens /\ Len(g[n - 1]) > 1
                      THEN Tail(g[n - 1])
                      ELSE g[n - 1]
           Loops(g) == g = [n \in 0..Len(w) |-> next(g, n)]
<1>1. Len(w) \in Nat
  OBVIOUS
<1>2. \E g : Loops(g)
  <2> DEFINE step == [p \in (1..Len(w)) \X Seq(Message) |-> AfterShift(p[2])]
  <2>1. step \in [(1..Len(w)) \X Seq(Message) -> Seq(Message)]
    <3>1. \A v \in Seq(Message) : AfterShift(v) \in Seq(Message)
      <4>1. \A v \in Seq(Message) : Len(v) > 1 => Tail(v) \in Seq(Message)
        OBVIOUS
      <4>2. QED
        BY <4>1 DEF AfterShift
    <3>2. \A p \in (1..Len(w)) \X Seq(Message) : p[2] \in Seq(Message)
      OBVIOUS
    <3>3. QED
      BY <3>1, <3>2
  <2>2. \A n \in 1..Len(w), v \in Seq(Message) : step[<<n, v>>] = AfterShift(v)
    OBVIOUS
  <2> HIDE DEF step
  <2>3. PICK f \in [0..Len(w) -> Seq(Message)] : Iterates(f, Len(w), w, step)
    BY <1>1, <2>1, IterationExists
  <2>4. ASSUME NEW n \in 0..Len(w) PROVE f[n] = next(f, n)
    <3>1. CASE n = 0
      BY <2>3, <3>1 DEF Iterates
    <3>2. CASE n # 0
      <4>1. n \in 1..Len(w) /\ f[n - 1] \in Seq(Message)
        BY <1>1, <3>2
      <4>2. f[n] = AfterShift(f[n - 1])
        BY <2>2, <2>3, <4>1 DEF Iterates
      <4>3. QED
        BY <3>2, <4>2 DEF AfterShift
    <3>3. QED
      BY <3>1, <3>2
  <2> HIDE DEF next
  <2>5. f = [n \in 0..Len(w) |-> next(f, n)]
    BY <2>4
  <2>6. QED
    BY <2>5
<1> DEFINE t == CHOOSE g : Loops(g)
<1>3. Loops(t)
  <2> HIDE DEF Loops
  <2>1. QED
    BY <1>2
<1>4. Trimmed(w) = t[Len(w)]
  BY DEF Trimmed
<1> HIDE DEF t
<1>5. \A n \in 0..Len(w) : t[n] = next(t, n)
  <2>1. t = [n \in 0..Len(w) |-> next(t, n)]
    BY <1>3
  <2> HIDE DEF next
  <2>2. QED
    BY <2>1
<1>6. t[0] = w
  BY <1>1, <1>5
<1>7. ASSUME NEW n \in 1..Len(w) PROVE t[n] = AfterShift(t[n - 1])
  <2>1. n \in 0..Len(w) /\ n # 0
    OBVIOUS
  <2>2. QED
    BY <1>5, <2>1 DEF AfterShift
<1>8. QED
  BY <1>4, <1>6, <1>7

\* The empty window is left as it is.
LEMMA TrimmedOfNone == Trimmed(<<>>) = <<>>
<1>1. <<>> \in Seq(Message) /\ Len(<<>>) = 0
  OBVIOUS
<1>2. QED
  BY <1>1, TrimmedIterates

\* getActiveWindow drops messages only as long as the window is too large with them,
\* and never the last one.
LEMMA TrimmedDrops ==
  ASSUME NEW w \in Seq(Message), w # <<>>
  PROVE  \E i \in 1..Len(w) :
           /\ Trimmed(w) = From(w, i)
           /\ i = Len(w) \/ WindowTokens(From(w, i)) <= MaxTokens
           /\ \A j \in 1..(i - 1) : WindowTokens(From(w, j)) > MaxTokens
<1> DEFINE large(j) == WindowTokens(From(w, j)) > MaxTokens
           Drops(v, i) == v = From(w, i) /\ \A j \in 1..(i - 1) : large(j)
           Ends(i) == i = Len(w) \/ WindowTokens(From(w, i)) <= MaxTokens
           Fine(n, v) == \E i \in 1..Len(w) : Drops(v, i) /\ (Ends(i) \/ i = n + 1)
<1>1. Len(w) \in Nat /\ Len(w) >= 1
  OBVIOUS
<1>2. PICK f : /\ f[0] = w
               /\ \A n \in 1..Len(w) : f[n] = AfterShift(f[n - 1])
               /\ Trimmed(w) = f[Len(w)]
  BY TrimmedIterates
<1>3. Fine(0, f[0])
  <2>1. From(w, 1) = w
    BY <1>1, WholeIsFromFirst
  <2>2. 1 \in 1..Len(w) /\ Drops(w, 1)
    BY <1>1, <2>1
  <2> HIDE DEF Drops, Ends
  <2>3. QED
    BY <1>2, <2>2
<1>4. ASSUME NEW n \in 1..Len(w), Fine(n - 1, f[n - 1]) PROVE Fine(n, f[n])
  <2>1. PICK i \in 1..Len(w) : Drops(f[n - 1], i) /\ (Ends(i) \/ i = n)
    BY <1>4
  <2>2. f[n] = AfterShift(From(w, i)) /\ Len(From(w, i)) = Len(w) - i + 1
    BY <1>2, <2>1, FromProperties
  <2>3. WindowTokens(From(w, i)) \in Nat
    BY <2>1, FromProperties, TokensUpToExists
  <2>4. CASE Ends(i)
    <3>1. f[n] = From(w, i)
      BY <1>1, <2>1, <2>2, <2>3, <2>4, MemoryAssumption DEF AfterShift
    <3>2. Drops(f[n], i)
      BY <2>1, <3>1
    <3> HIDE DEF Drops, Ends
    <3>3. QED
      BY <2>4, <3>2
  <2>5. CASE ~Ends(i)
    <3>1. i # Len(w) /\ large(i) /\ i = n
      BY <2>1, <2>3, <2>5, MemoryAssumption
    <3>2. f[n] = Tail(From(w, i))
      BY <1>1, <2>1, <2>2, <3>1 DEF AfterShift
    <3>3. i + 1 \in 1..Len(w) /\ f[n] = From(w, i + 1)
      BY <1>1, <2>1, <3>1, <3>2, TailOfFrom
    <3>4. \A j \in 1..i : large(j)
      <4>1. \A j \in 1..i : j \in 1..(i - 1) \/ j = i
        BY <2>1
      <4>2. QED
        BY <2>1, <3>1, <4>1
    <3>5. Drops(f[n], i + 1)
      BY <2>1, <3>3, <3>4
    <3> HIDE DEF Drops, Ends
    <3>6. QED
      BY <3>1, <3>3, <3>5
  <2>6. QED
    BY <2>4, <2>5
<1>5. \A n \in 0..Len(w) : Fine(n, f[n])
  <2> DEFINE Bad == {n \in 0..Len(w) : ~Fine(n, f[n])}
  <2> HIDE DEF Fine
  <2>1. SUFFICES ASSUME Bad # {} PROVE FALSE
    OBVIOUS
  <2>2. PICK n \in Bad : \A m \in Bad : n <= m
    <3>1. Bad \in SUBSET Nat
      OBVIOUS
    <3> HIDE DEF Bad
    <3>2. QED
      BY <2>1, <3>1, LeastExists
  <2>3. n \in 1..Len(w) /\ n - 1 \in 0..Len(w) /\ ~(n <= n - 1)
    BY <1>1, <1>3, <2>2
  <2>4. Fine(n - 1, f[n - 1])
    BY <2>2, <2>3
  <2>5. QED
    BY <1>4, <2>2, <2>3, <2>4
<1>6. PICK i \in 1..Len(w) : Drops(Trimmed(w), i) /\ (Ends(i) \/ i = Len(w) + 1)
  <2>1. Fine(Len(w), Trimmed(w))
    <3>1. Len(w) \in 0..Len(w)
      BY <1>1
    <3> HIDE DEF Fine
    <3>2. QED
      BY <1>2, <1>5, <3>1
  <2>2. QED
    BY <2>1
<1>7. i # Len(w) + 1
  BY <1>1, <1>6
<1>8. QED
  BY <1>6, <1>7

\* getActiveWindow keeps an end of the window that is within the cap or one message.
LEMMA TrimmedProperties ==
  ASSUME NEW w \in Seq(Message)
  PROVE  /\ \E i \in 1..(Len(w) + 1) : Trimmed(w) = From(w, i)
         /\ Len(Trimmed(w)) > 1 => WindowTokens(Trimmed(w)) <= MaxTokens
<1>1. CASE w = <<>>
  <2>1. Trimmed(w) = <<>> /\ From(w, 1) = <<>>
    BY <1>1, TrimmedOfNone DEF From
  <2>2. QED
    BY <1>1, <2>1
<1>2. CASE w # <<>>
  <2>1. PICK i \in 1..Len(w) :
          /\ Trimmed(w) = From(w, i)
          /\ i = Len(w) \/ WindowTokens(From(w, i)) <= MaxTokens
    BY <1>2, TrimmedDrops
  <2>2. Len(From(w, i)) > 1 => i # Len(w)
    BY <2>1, FromProperties
  <2>3. QED
    BY <2>1, <2>2
<1>3. QED
  BY <1>1, <1>2

\* summarise takes a head of the window, at least a message of two or more, and
\* leaves one.
LEMMA SplitProperties ==
  ASSUME NEW w \in Seq(Message), Len(w) > 0
  PROVE  /\ SplitIndex(w) \in 0..Len(w) /\ SplitIndex(w) < Len(w)
         /\ Len(w) >= 2 => SplitIndex(w) > 0
<1> DEFINE fits == {i \in DOMAIN w : i = 1 \/ 2 * TokensUpTo(w)[i] <= MaxTokens}
           isLast(k) == k \in fits /\ \A j \in fits : j <= k
           last == CHOOSE k \in fits : \A j \in fits : j <= k
<1>1. Len(w) \in Nat /\ fits \in SUBSET (1..Len(w)) /\ 1 \in fits
  OBVIOUS
<1>2. \E k \in fits : \A j \in fits : j <= k
  <2> HIDE DEF fits
  <2>1. QED
    BY <1>1, LastExists
<1>3. last \in fits
  <2> HIDE DEF fits
  <2>1. QED
    BY <1>2
<1>4. SplitIndex(w) = IF last = Len(w) THEN Len(w) \div 2 ELSE last
  BY DEF SplitIndex
<1>5. last \in 1..Len(w)
  <2> HIDE DEF fits, last
  <2>1. QED
    BY <1>1, <1>3
<1> HIDE DEF last
<1>6. QED
  BY <1>1, <1>4, <1>5

-----------------------------------------------------------------------------
(* Orderly lists.                                                           *)

\* A list without messages is.
LEMMA EmptyIsOrderly ==
  ASSUME NEW U, NEW A PROVE Orderly(<<>>, U, A)
BY DEF Orderly

\* An end of an orderly list is orderly.
LEMMA FromIsOrderly ==
  ASSUME NEW w \in Seq(Message), NEW U, NEW A, Orderly(w, U, A),
         NEW i \in 1..(Len(w) + 1)
  PROVE  Orderly(From(w, i), U, A)
<1> DEFINE v == From(w, i)
<1>1. /\ v \in Seq(Message) /\ Len(v) = Len(w) - i + 1
      /\ \A j \in 1..Len(v) : v[j] = w[i + j - 1] /\ i + j - 1 \in 1..Len(w)
  BY FromProperties
<1> HIDE DEF v
<1>2. ASSUME NEW j \in DOMAIN v, NEW k \in DOMAIN v, j < k, v[j].turn = v[k].turn
      PROVE  v[j].role = "user" /\ v[k].role = "assistant"
  <2>1. Len(v) \in Nat /\ j \in 1..Len(v) /\ k \in 1..Len(v) /\ i \in Nat
    BY <1>1
  <2>2. i + j - 1 \in 1..Len(w) /\ i + k - 1 \in 1..Len(w)
    BY <1>1, <2>1
  <2>3. i + j - 1 \in DOMAIN w /\ i + k - 1 \in DOMAIN w /\ i + j - 1 < i + k - 1
    <3>1. DOMAIN w = 1..Len(w)
      OBVIOUS
    <3>2. j \in Int /\ k \in Int /\ i \in Int
      BY <2>1
    <3>3. i + j - 1 < i + k - 1
      BY <1>2, <3>2
    <3>4. QED
      BY <2>2, <3>1, <3>3
  <2>4. v[j] = w[i + j - 1] /\ v[k] = w[i + k - 1]
    BY <1>1, <2>1
  <2>5. QED
    BY <1>2, <2>3, <2>4 DEF Orderly
<1>3. ASSUME NEW j \in DOMAIN v
      PROVE  v[j].turn \notin U /\ (v[j].turn \in A => v[j].role = "user")
  <2>1. v[j] = w[i + j - 1] /\ i + j - 1 \in DOMAIN w
    BY <1>1
  <2>2. QED
    BY <2>1 DEF Orderly
<1>4. Orderly(v, U, A)
  BY <1>2, <1>3 DEF Orderly
<1>5. QED
  BY <1>4 DEF v

\* A list stays orderly while requests get on.
LEMMA OrderlyStays ==
  ASSUME NEW w, NEW U, NEW A, Orderly(w, U, A),
         NEW U2, NEW A2, U2 \subseteq U, A2 \subseteq U \cup A
  PROVE  Orderly(w, U2, A2)
BY DEF Orderly

\* A message that could not be in any list is added to one.
LEMMA AppendIsOrderly ==
  ASSUME NEW w \in Seq(Message), NEW U, NEW A, Orderly(w, U, A),
         NEW U2, NEW A2, U2 \subseteq U, A2 \subseteq U \cup A,
         NEW m \in Message, m.turn \notin U2,
         m.role = "user" => m.turn \in U,
         m.role = "assistant" => m.turn \in U \cup A /\ m.turn \notin A2
  PROVE  Orderly(Append(w, m), U2, A2)
<1> DEFINE v == Append(w, m)
<1>1. /\ Len(w) \in Nat /\ DOMAIN w = 1..Len(w) /\ DOMAIN v = 1..(Len(w) + 1)
      /\ v[Len(w) + 1] = m /\ \A i \in DOMAIN w : v[i] = w[i]
  OBVIOUS
<1>2. m.role \in {"user", "assistant"}
  BY DEF Message
<1> HIDE DEF v
<1>3. ASSUME NEW i \in DOMAIN v, NEW j \in DOMAIN v, i < j, v[i].turn = v[j].turn
      PROVE  v[i].role = "user" /\ v[j].role = "assistant"
  <2>1. i \in DOMAIN w /\ v[i] = w[i]
    BY <1>1, <1>3
  <2>2. CASE j \in DOMAIN w
    BY <1>1, <1>3, <2>1, <2>2 DEF Orderly
  <2>3. CASE j = Len(w) + 1
    BY <1>1, <1>2, <1>3, <2>1, <2>3 DEF Orderly
  <2>4. QED
    BY <1>1, <2>2, <2>3
<1>4. ASSUME NEW i \in DOMAIN v
      PROVE  v[i].turn \notin U2 /\ (v[i].turn \in A2 => v[i].role = "user")
  <2>1. CASE i \in DOMAIN w
    BY <1>1, <2>1 DEF Orderly
  <2>2. CASE i = Len(w) + 1
    BY <1>1, <1>2, <2>2
  <2>3. QED
    BY <1>1, <2>1, <2>2
<1>5. Orderly(v, U2, A2)
  BY <1>3, <1>4 DEF Orderly
<1>6. QED
  BY <1>5 DEF v

-----------------------------------------------------------------------------
(* Steps of one request.                                                    *)

\* Nothing of another request changes.
OnlyOf(r) ==
  /\ pc' = [pc EXCEPT ![r] = pc'[r]]
  /\ creating' = [creating EXCEPT ![r] = creating'[r]]
  /\ adding' = [adding EXCEPT ![r] = adding'[r]]
  /\ copy' = [copy EXCEPT ![r] = copy'[r]]
  /\ prompt' = [prompt EXCEPT ![r] = prompt'[r]]

\* The request does not go back to an earlier part of its turn.
GetsOn(r) ==
  /\ r \in Unasked' => r \in Unasked
  /\ r \in Unanswered' => r \in Unasked \cup Unanswered

\* What others have stored and not stored is as before.
LEMMA OnlyItGetsOn ==
  ASSUME TypeOK, NEW r \in Requests, OnlyOf(r), GetsOn(r)
  PROVE  Unasked' \subseteq Unasked /\ Unanswered' \subseteq Unasked \cup Unanswered
<1>1. \A q \in Requests : q # r => pc'[q] = pc[q] /\ adding'[q] = adding[q]
  BY DEF OnlyOf, TypeOK
<1>2. ASSUME NEW q \in Requests, q # r
      PROVE  (q \in Unasked' => q \in Unasked) /\ (q \in Unanswered' => q \in Unanswered)
  BY <1>1, <1>2 DEF Unasked, Unanswered
<1>3. QED
  BY <1>2 DEF GetsOn, Unasked, Unanswered

\* What is left to show for a step of one request.
LEMMA StepKeepsInv ==
  ASSUME MemoryInv, TypeOK', NEW r \in Requests, OnlyOf(r), GetsOn(r),
         pc'[r] \in TurnAwaits => adding'[r] \in Message /\ adding'[r].turn = r,
         pc'[r] \in {"readSummarised", "storeSummary", "storeRemaining"} =>
           Len(copy'[r]) >= 4,
         creating'[r] => pc'[r] \in WindowReads,
         Orderly(Window', Unasked', Unanswered'),
         Orderly(copy'[r], Unasked', Unanswered')
  PROVE  MemoryInv'
<1>1. \A q \in Requests : q # r =>
        /\ pc'[q] = pc[q] /\ creating'[q] = creating[q] /\ adding'[q] = adding[q]
        /\ copy'[q] = copy[q]
  BY DEF OnlyOf, MemoryInv, TypeOK
<1>2. Unasked' \subseteq Unasked /\ Unanswered' \subseteq Unasked \cup Unanswered
  BY OnlyItGetsOn DEF MemoryInv
<1>3. LocalsInv'
  BY <1>1 DEF MemoryInv, LocalsInv
<1>4. ListsInv'
  <2>1. ASSUME NEW q \in Requests, q # r PROVE Orderly(copy'[q], Unasked', Unanswered')
    <3>1. Orderly(copy[q], Unasked, Unanswered)
      BY DEF MemoryInv, ListsInv
    <3>2. QED
      BY <1>1, <1>2, <2>1, <3>1, OrderlyStays
  <2>2. QED
    BY <2>1 DEF ListsInv
<1>5. QED
  BY <1>3, <1>4 DEF MemoryInv

PcType == [Requests -> {"idle", "done"} \cup Awaits]

\* Going to an await moves the request there; ending it clears its locals.
LEMMA GotoProperties ==
  ASSUME TypeOK, NEW r \in Requests, NEW next \in {"done"} \cup Awaits, Goto(r, next)
  PROVE  /\ OnlyOf(r) /\ pc'[r] = next
         /\ pc' \in PcType
         /\ creating' \in [Requests -> BOOLEAN]
         /\ adding' \in [Requests -> Message \cup {NoMessage}]
         /\ {copy', older', prompt'} \subseteq [Requests -> Seq(Message)]
         /\ next # "done" => /\ adding'[r] = adding[r] /\ copy'[r] = copy[r]
                             /\ prompt'[r] = prompt[r] /\ creating'[r] = creating[r]
         /\ next = "done" => copy'[r] = <<>> /\ prompt'[r] = <<>> /\ ~creating'[r]
<1>1. pc' = [pc EXCEPT ![r] = next] /\ pc' \in PcType /\ pc'[r] = next
  BY DEF Goto, TypeOK, PcType
<1>2. CASE next = "done"
  <2>1. /\ creating' = [creating EXCEPT ![r] = FALSE]
        /\ adding' = [adding EXCEPT ![r] = NoMessage]
        /\ copy' = [copy EXCEPT ![r] = <<>>]
        /\ older' = [older EXCEPT ![r] = <<>>]
        /\ prompt' = [prompt EXCEPT ![r] = <<>>]
    BY <1>2 DEF Goto
  <2>2. <<>> \in Seq(Message)
    OBVIOUS
  <2>3. OnlyOf(r)
    BY <1>1, <2>1 DEF OnlyOf, TypeOK
  <2>4. /\ creating' \in [Requests -> BOOLEAN]
        /\ adding' \in [Requests -> Message \cup {NoMessage}]
        /\ {copy', older', prompt'} \subseteq [Requests -> Seq(Message)]
    BY <2>1, <2>2 DEF TypeOK
  <2>5. copy'[r] = <<>> /\ prompt'[r] = <<>> /\ ~creating'[r]
    BY <2>1 DEF TypeOK
  <2>6. QED
    BY <1>1, <1>2, <2>3, <2>4, <2>5
<1>3. CASE next # "done"
  <2>1. UNCHANGED <<creating, adding, copy, older, prompt>>
    BY <1>3 DEF Goto
  <2>2. QED
    BY <1>1, <1>3, <2>1 DEF OnlyOf, TypeOK
<1>4. QED
  BY <1>2, <1>3

\* A step that takes a request to an await, with the window it leaves.
LEMMA GotoKeepsInv ==
  ASSUME MemoryInv, NEW r \in Requests, NEW next \in {"done"} \cup Awaits, Goto(r, next),
         window' \in {Absent} \cup Seq(Message), summary' \in Seq(Message),
         log' \in Seq(Message), lapses' \in Nat, crashes' \in Nat,
         pc[r] # "done", GetsOn(r),
         next \in TurnAwaits => pc[r] \in TurnAwaits,
         next \in {"readSummarised", "storeSummary", "storeRemaining"} => Len(copy[r]) >= 4,
         creating[r] => next \in WindowReads \cup {"done"},
         Orderly(Window', Unasked', Unanswered')
  PROVE  MemoryInv'
<1>1. TypeOK
  BY DEF MemoryInv
<1>2. TypeOK'
  BY <1>1, GotoProperties DEF TypeOK, PcType
<1>3. OnlyOf(r) /\ pc'[r] = next
  BY <1>1, GotoProperties
<1>4. next # "done" => /\ adding'[r] = adding[r] /\ copy'[r] = copy[r]
                       /\ prompt'[r] = prompt[r] /\ creating'[r] = creating[r]
  BY <1>1, GotoProperties
<1>5. next = "done" => copy'[r] = <<>> /\ prompt'[r] = <<>> /\ ~creating'[r]
  BY <1>1, GotoProperties
<1>6. pc'[r] \in TurnAwaits => adding'[r] \in Message /\ adding'[r].turn = r
  BY <1>3, <1>4 DEF MemoryInv, LocalsInv, TurnAwaits, Awaits, ThrowingAwaits, AddAwaits
<1>7. Orderly(copy'[r], Unasked', Unanswered')
  <2>1. CASE next = "done"
    BY <1>5, <2>1, EmptyIsOrderly
  <2>2. CASE next # "done"
    <3>1. Orderly(copy[r], Unasked, Unanswered)
      BY DEF MemoryInv, ListsInv
    <3>2. QED
      BY <1>1, <1>3, <1>4, <2>2, <3>1, OnlyItGetsOn, OrderlyStays
  <2>3. QED
    BY <2>1, <2>2
<1>8. creating'[r] => pc'[r] \in WindowReads
  BY <1>3, <1>4, <1>5
<1>9. pc'[r] \in {"readSummarised", "storeSummary", "storeRemaining"} =>
         Len(copy'[r]) >= 4
  BY <1>3, <1>4
<1>10. QED
  BY <1>2, <1>3, <1>6, <1>7, <1>8, <1>9, StepKeepsInv

\* The window stays as it is, and orderly.
LEMMA WindowStays ==
  ASSUME MemoryInv, NEW r \in Requests, OnlyOf(r), GetsOn(r), window' = window
  PROVE  Orderly(Window', Unasked', Unanswered')
<1>1. Window' = Window /\ Orderly(Window, Unasked, Unanswered)
  BY DEF Window, MemoryInv, ListsInv
<1>2. QED
  BY <1>1, OnlyItGetsOn, OrderlyStays DEF MemoryInv

\* The awaits are compared by name throughout.
USE DEF TurnAwaits, Awaits, ThrowingAwaits, AddAwaits, WindowReads

\* The window has become a copy, or an end of one, that a request held.
LEMMA CopyIsOrderly ==
  ASSUME MemoryInv, NEW r \in Requests, OnlyOf(r), GetsOn(r),
         NEW i \in 1..(Len(copy[r]) + 1), window' = From(copy[r], i)
  PROVE  Orderly(Window', Unasked', Unanswered') /\ window' \in Seq(Message)
<1>1. copy[r] \in Seq(Message)
  BY DEF MemoryInv, TypeOK
<1>2. window' \in Seq(Message) /\ Orderly(window', Unasked, Unanswered)
  BY <1>1, FromProperties, FromIsOrderly DEF MemoryInv, ListsInv
<1>3. Window' = window' \/ Window' = <<>>
  BY DEF Window
<1>4. QED
  BY <1>2, <1>3, EmptyIsOrderly, OnlyItGetsOn, OrderlyStays DEF MemoryInv

-----------------------------------------------------------------------------
(* One lemma for each action.                                               *)

\* A turn begins before its question is anywhere.
LEMMA ArriveKeepsInv ==
  ASSUME MemoryInv, NEW r \in Requests, Arrive(r)
  PROVE  MemoryInv'
<1>1. TypeOK /\ pc[r] = "idle" /\ UNCHANGED <<stored, creating, copy, older, prompt, crashes>>
  BY DEF MemoryInv, Arrive
<1>2. \/ /\ pc' = [pc EXCEPT ![r] = "readSummary"]
         /\ \E n \in Sizes : adding' = [adding EXCEPT
              ![r] = [turn |-> r, role |-> "user", tokens |-> n]]
      \/ pc' = [pc EXCEPT ![r] = "clearWindow"] /\ adding' = adding
  BY DEF Arrive
<1>3. \A n \in Sizes : [turn |-> r, role |-> "user", tokens |-> n] \in Message
  BY DEF Message
<1>4. TypeOK'
  <2>1. pc' \in [Requests -> {"idle", "done"} \cup Awaits]
    BY <1>1, <1>2 DEF TypeOK, Awaits, ThrowingAwaits, AddAwaits
  <2>2. adding' \in [Requests -> Message \cup {NoMessage}]
    <3>1. adding \in [Requests -> Message \cup {NoMessage}]
      BY <1>1 DEF TypeOK
    <3>2. CASE adding' = adding
      BY <3>1, <3>2
    <3>3. CASE \E n \in Sizes : adding' = [adding EXCEPT
                 ![r] = [turn |-> r, role |-> "user", tokens |-> n]]
      <4>1. PICK m \in Message : adding' = [adding EXCEPT ![r] = m]
        BY <1>3, <3>3
      <4>2. QED
        BY <3>1, <4>1
    <3>4. QED
      BY <1>2, <3>2, <3>3
  <2>3. QED
    BY <1>1, <2>1, <2>2 DEF TypeOK, stored
<1>5. pc'[r] \in {"readSummary", "clearWindow"}
      /\ (pc'[r] = "readSummary" => adding'[r] \in Message /\ adding'[r].turn = r)
  <2>1. DOMAIN pc = Requests /\ DOMAIN adding = Requests
    BY <1>1 DEF TypeOK
  <2>2. QED
    BY <1>2, <1>3, <2>1
<1>6. OnlyOf(r)
  BY <1>1, <1>2 DEF OnlyOf, TypeOK
<1>7. GetsOn(r)
  BY <1>1, <1>5 DEF GetsOn, Unasked, Unanswered
<1>8. ~creating'[r]
  BY <1>1 DEF MemoryInv, LocalsInv
<1>9. Orderly(Window', Unasked', Unanswered')
  BY <1>1, <1>6, <1>7, WindowStays DEF stored
<1>10. Orderly(copy'[r], Unasked', Unanswered')
  BY <1>1, <1>6, <1>7, OnlyItGetsOn, OrderlyStays DEF MemoryInv, ListsInv
<1>11. QED
  BY <1>4, <1>5, <1>6, <1>7, <1>8, <1>9, <1>10, StepKeepsInv

\* A step that leaves the keys alone and takes the request elsewhere.
LEMMA GotoWithoutStoring ==
  ASSUME MemoryInv, NEW r \in Requests, NEW next \in {"done", "readActive"}, Goto(r, next),
         UNCHANGED <<window, summary, log, lapses, crashes>>,
         pc[r] \notin {"idle", "done"}, next = "readActive" => pc[r] = "readSummary"
  PROVE  MemoryInv'
<1>1. OnlyOf(r) /\ pc'[r] = next /\ (next # "done" => adding'[r] = adding[r])
  BY GotoProperties DEF MemoryInv
<1>2. GetsOn(r)
  BY <1>1 DEF GetsOn, Unasked, Unanswered
<1>3. Orderly(Window', Unasked', Unanswered')
  BY <1>1, <1>2, WindowStays
<1>4. creating[r] => next \in WindowReads \cup {"done"}
  BY DEF MemoryInv, LocalsInv
<1>5. /\ window' \in {Absent} \cup Seq(Message) /\ summary' \in Seq(Message)
      /\ log' \in Seq(Message) /\ lapses' \in Nat /\ crashes' \in Nat
  BY DEF MemoryInv, TypeOK
<1>6. QED
  BY <1>2, <1>3, <1>4, <1>5, GotoKeepsInv

\* The summary only enters the prompt.
LEMMA ReadSummaryKeepsInv ==
  ASSUME MemoryInv, NEW r \in Requests, ReadSummary(r) PROVE MemoryInv'
BY GotoWithoutStoring DEF ReadSummary, stored

\* A request that throws leaves the keys as they are.
LEMMA ThrowKeepsInv ==
  ASSUME MemoryInv, NEW r \in Requests, Throw(r) PROVE MemoryInv'
BY GotoWithoutStoring DEF Throw, stored

\* A request continues with the window, or with the empty one it has stored: what
\* it keeps is the window or an end of it.
LEMMA ContinueKeepsInv ==
  ASSUME MemoryInv, NEW r \in Requests, NEW w \in Seq(Message), Continue(r, w),
         pc[r] \in WindowReads, Orderly(w, Unasked, Unanswered),
         window' \in {window, <<>>}, UNCHANGED <<summary, log, lapses, crashes>>
  PROVE  MemoryInv'
<1> DEFINE next == AfterRead(r, w)
           kept == IF pc[r] = "readActive" THEN Trimmed(w) ELSE w
<1>1. TypeOK /\ adding[r] \in Message /\ adding[r].turn = r
  BY DEF MemoryInv, LocalsInv
<1>2. adding[r].role \in {"user", "assistant"} /\ Len(w) \in Nat
  BY <1>1 DEF Message
<1>3. \/ pc[r] = "readActive" /\ next \in {"storeTrimmed", "readToAdd"}
      \/ pc[r] = "readToAdd" /\ next = "storeAdded"
      \/ pc[r] = "readToSummarise" /\ next = "readSummarised" /\ Len(w) >= 4
      \/ pc[r] = "readToSummarise" /\ next = "agent" /\ adding[r].role = "user"
      \/ pc[r] = "readToSummarise" /\ next = "done"
  <2>1. CASE pc[r] = "readActive"
    BY <2>1 DEF AfterRead
  <2>2. CASE pc[r] = "readToAdd"
    BY <2>2 DEF AfterRead
  <2>3. CASE pc[r] = "readToSummarise"
    BY <1>2, <2>3 DEF AfterRead, AfterAdd
  <2>4. QED
    BY <2>1, <2>2, <2>3
<1>4. window' \in {Absent} \cup Seq(Message)
  <2>1. <<>> \in Seq(Message)
    OBVIOUS
  <2>2. QED
    BY <1>1, <2>1 DEF TypeOK
<1>5. Orderly(Window', Unasked, Unanswered)
  <2>1. Window' = Window \/ Window' = <<>>
    BY DEF Window
  <2>2. QED
    BY <2>1, EmptyIsOrderly DEF MemoryInv, ListsInv
<1>6. CASE next = "done"
  <2>1. Goto(r, "done")
    BY <1>6 DEF Continue
  <2>2. OnlyOf(r) /\ pc'[r] = "done"
    BY <1>1, <2>1, GotoProperties
  <2>3. GetsOn(r)
    BY <2>2 DEF GetsOn, Unasked, Unanswered
  <2>4. Orderly(Window', Unasked', Unanswered')
    BY <1>1, <1>5, <2>2, <2>3, OnlyItGetsOn, OrderlyStays
  <2>5. summary' \in Seq(Message) /\ log' \in Seq(Message) /\ lapses' \in Nat /\ crashes' \in Nat
    BY <1>1 DEF TypeOK
  <2>6. QED
    BY <1>3, <1>4, <1>6, <2>1, <2>3, <2>4, <2>5, GotoKeepsInv
<1>7. CASE next # "done"
  <2>1. /\ creating' = [creating EXCEPT ![r] = FALSE]
        /\ pc' = [pc EXCEPT ![r] = next]
        /\ copy' = [copy EXCEPT ![r] = kept]
        /\ prompt' = [prompt EXCEPT ![r] = IF pc[r] = "readActive" THEN kept ELSE @]
        /\ UNCHANGED <<adding, older>>
    BY <1>7 DEF Continue
  <2>2. kept \in Seq(Message) /\ Orderly(kept, Unasked, Unanswered)
    <3>1. PICK i \in 1..(Len(w) + 1) : Trimmed(w) = From(w, i)
      BY TrimmedProperties
    <3>2. Trimmed(w) \in Seq(Message) /\ Orderly(Trimmed(w), Unasked, Unanswered)
      BY <3>1, FromProperties, FromIsOrderly
    <3>3. QED
      BY <3>2
  <2>3. pc[r] # "readActive" => kept = w
    OBVIOUS
  <2>4. next \in Awaits
    BY <1>3, <1>7
  <2> HIDE DEF next, kept
  <2>5. TypeOK'
    BY <1>1, <1>4, <2>1, <2>2, <2>4 DEF TypeOK
  <2>6. /\ pc'[r] = next /\ ~creating'[r] /\ adding'[r] = adding[r] /\ copy'[r] = kept
        /\ OnlyOf(r)
    BY <1>1, <2>1 DEF OnlyOf, TypeOK
  <2>7. GetsOn(r)
    BY <1>1, <1>2, <1>3, <2>6 DEF GetsOn, Unasked, Unanswered
  <2>8. Unasked' \subseteq Unasked /\ Unanswered' \subseteq Unasked \cup Unanswered
    BY <1>1, <2>6, <2>7, OnlyItGetsOn
  <2>9. Orderly(Window', Unasked', Unanswered') /\ Orderly(copy'[r], Unasked', Unanswered')
    BY <1>5, <2>2, <2>6, <2>8, OrderlyStays
  <2>10. pc'[r] \in {"readSummarised", "storeSummary", "storeRemaining"} =>
           Len(copy'[r]) >= 4
    BY <1>3, <2>3, <2>6
  <2>11. QED
    BY <1>1, <2>5, <2>6, <2>7, <2>9, <2>10, StepKeepsInv
<1>8. QED
  BY <1>6, <1>7

\* A request that finds no window will store an empty one.
LEMMA ReadWindowKeepsInv ==
  ASSUME MemoryInv, NEW r \in Requests, ReadWindow(r) PROVE MemoryInv'
<1>1. pc[r] \in WindowReads /\ UNCHANGED <<window, summary, log, lapses, crashes>> /\ TypeOK
  BY DEF ReadWindow, stored, MemoryInv
<1>2. CASE window = Absent
  <2>1. creating' = [creating EXCEPT ![r] = TRUE] /\ UNCHANGED <<pc, adding, copy, older, prompt>>
    BY <1>2 DEF ReadWindow
  <2>2. TypeOK'
    BY <1>1, <2>1 DEF TypeOK
  <2>3. OnlyOf(r)
    BY <1>1, <2>1 DEF OnlyOf, TypeOK
  <2>4. GetsOn(r)
    BY <2>1 DEF GetsOn, Unasked, Unanswered
  <2>5. Orderly(Window', Unasked', Unanswered')
    BY <1>1, <2>3, <2>4, WindowStays
  <2>6. Orderly(copy'[r], Unasked', Unanswered')
    BY <1>1, <2>1, <2>3, <2>4, OnlyItGetsOn, OrderlyStays DEF MemoryInv, ListsInv
  <2>7. adding'[r] \in Message /\ adding'[r].turn = r /\ pc'[r] \in WindowReads
    BY <1>1, <2>1 DEF MemoryInv, LocalsInv
  <2>8. QED
    BY <2>2, <2>3, <2>4, <2>5, <2>6, <2>7, StepKeepsInv
<1>3. CASE window # Absent
  <2>1. Continue(r, window)
    BY <1>3 DEF ReadWindow
  <2>2. window \in Seq(Message) /\ Window = window
    BY <1>1, <1>3 DEF TypeOK, Window
  <2>3. Orderly(window, Unasked, Unanswered)
    BY <2>2 DEF MemoryInv, ListsInv
  <2>4. QED
    BY <1>1, <2>1, <2>2, <2>3, ContinueKeepsInv
<1>4. QED
  BY <1>2, <1>3

\* An empty window overwrites another.
LEMMA CreateWindowKeepsInv ==
  ASSUME MemoryInv, NEW r \in Requests, CreateWindow(r) PROVE MemoryInv'
<1>1. <<>> \in Seq(Message) /\ pc[r] \in WindowReads
  BY DEF CreateWindow, MemoryInv, LocalsInv
<1>2. QED
  BY <1>1, EmptyIsOrderly, ContinueKeepsInv DEF CreateWindow

\* The trimmed copy overwrites the window.
LEMMA StoreTrimmedKeepsInv ==
  ASSUME MemoryInv, NEW r \in Requests, StoreTrimmed(r) PROVE MemoryInv'
<1>1. /\ pc[r] = "storeTrimmed" /\ Goto(r, "readToAdd") /\ window' = copy[r]
      /\ UNCHANGED <<summary, log, lapses, crashes>> /\ TypeOK
  BY DEF StoreTrimmed, MemoryInv
<1>2. OnlyOf(r) /\ pc'[r] = "readToAdd"
  BY <1>1, GotoProperties
<1>3. GetsOn(r)
  BY <1>1, <1>2 DEF GetsOn, Unasked
<1>4. copy[r] \in Seq(Message) /\ 1 \in 1..(Len(copy[r]) + 1) /\ window' = From(copy[r], 1)
  BY <1>1, WholeIsFromFirst DEF TypeOK
<1>5. Orderly(Window', Unasked', Unanswered') /\ window' \in Seq(Message)
  BY <1>2, <1>3, <1>4, CopyIsOrderly
<1>6. summary' \in Seq(Message) /\ log' \in Seq(Message) /\ lapses' \in Nat /\ crashes' \in Nat
  BY <1>1 DEF TypeOK
<1>7. QED
  BY <1>1, <1>3, <1>5, <1>6, GotoKeepsInv

\* The message that is added was in no copy of the window before.
LEMMA StoreAddedKeepsInv ==
  ASSUME MemoryInv, NEW r \in Requests, StoreAdded(r) PROVE MemoryInv'
<1> DEFINE m == adding[r]
           w == Append(copy[r], m)
           next == IF WindowTokens(w) >= SummariseAt THEN "readToSummarise" ELSE AfterAdd(r)
<1>1. /\ pc[r] = "storeAdded" /\ Goto(r, next) /\ window' = w /\ log' = Append(log, m)
      /\ UNCHANGED <<summary, lapses, crashes>> /\ TypeOK
  BY DEF StoreAdded, Pushed, MemoryInv
<1>2. m \in Message /\ m.turn = r
  BY <1>1 DEF MemoryInv, LocalsInv
<1>3. m.role \in {"user", "assistant"}
  BY <1>2 DEF Message
<1>4. /\ next \in {"readToSummarise", "agent", "done"}
      /\ next = "agent" => m.role = "user"
      /\ next = "done" => m.role = "assistant"
  BY <1>3 DEF AfterAdd
<1>5. copy[r] \in Seq(Message) /\ w \in Seq(Message) /\ log' \in Seq(Message)
  BY <1>1, <1>2 DEF TypeOK
<1> HIDE DEF next, w
<1>6. OnlyOf(r) /\ pc'[r] = next /\ (next # "done" => adding'[r] = m)
  BY <1>1, <1>4, GotoProperties
<1>7. GetsOn(r)
  BY <1>1, <1>3, <1>4, <1>6 DEF GetsOn, Unasked, Unanswered
<1>8. /\ r \notin Unasked'
      /\ m.role = "user" => r \in Unasked
      /\ m.role = "assistant" => r \in Unanswered /\ r \notin Unanswered'
  BY <1>1, <1>4, <1>6 DEF Unasked, Unanswered
<1>9. Orderly(window', Unasked', Unanswered')
  <2>1. Orderly(copy[r], Unasked, Unanswered)
    BY DEF MemoryInv, ListsInv
  <2>2. Unasked' \subseteq Unasked /\ Unanswered' \subseteq Unasked \cup Unanswered
    BY <1>1, <1>6, <1>7, OnlyItGetsOn
  <2>3. QED
    BY <1>1, <1>2, <1>5, <1>8, <2>1, <2>2, AppendIsOrderly DEF w
<1>10. Orderly(Window', Unasked', Unanswered')
  <2>1. Window' = window' \/ Window' = <<>>
    BY DEF Window
  <2>2. QED
    BY <1>9, <2>1, EmptyIsOrderly
<1>11. ~creating[r]
  BY <1>1 DEF MemoryInv, LocalsInv
<1>12. summary' \in Seq(Message) /\ lapses' \in Nat /\ crashes' \in Nat
  BY <1>1 DEF TypeOK
<1>13. QED
  BY <1>1, <1>4, <1>5, <1>7, <1>10, <1>11, <1>12, GotoKeepsInv

\* summarise has the existing summary.
LEMMA ReadSummarisedKeepsInv ==
  ASSUME MemoryInv, NEW r \in Requests, ReadSummarised(r) PROVE MemoryInv'
<1>1. /\ pc[r] = "readSummarised" /\ pc' = [pc EXCEPT ![r] = "storeSummary"]
      /\ older' = [older EXCEPT ![r] = summary] /\ TypeOK
      /\ UNCHANGED <<window, summary, log, lapses, creating, adding, copy, prompt, crashes>>
  BY DEF ReadSummarised, stored, MemoryInv
<1>2. TypeOK'
  BY <1>1 DEF TypeOK
<1>3. OnlyOf(r) /\ pc'[r] = "storeSummary"
  BY <1>1 DEF OnlyOf, TypeOK
<1>4. GetsOn(r)
  BY <1>1, <1>3 DEF GetsOn, Unasked, Unanswered
<1>5. Orderly(Window', Unasked', Unanswered')
  BY <1>1, <1>3, <1>4, WindowStays
<1>6. Orderly(copy'[r], Unasked', Unanswered')
  BY <1>1, <1>3, <1>4, OnlyItGetsOn, OrderlyStays DEF MemoryInv, ListsInv
<1>7. /\ adding'[r] \in Message /\ adding'[r].turn = r /\ ~creating'[r]
      /\ Len(copy'[r]) >= 4
  BY <1>1 DEF MemoryInv, LocalsInv
<1>8. QED
  BY <1>2, <1>3, <1>4, <1>5, <1>6, <1>7, StepKeepsInv

\* Where summarise ends, and what the request still has to store then.
LEMMA AfterAddProperties ==
  ASSUME MemoryInv, NEW r \in Requests, pc[r] \in {"storeSummary", "storeRemaining"}
  PROVE  /\ AfterAdd(r) \in {"agent", "done"}
         /\ AfterAdd(r) = "agent" => r \in Unanswered
         /\ copy[r] \in Seq(Message) /\ Len(copy[r]) >= 4
         /\ SplitIndex(copy[r]) \in 0..Len(copy[r])
         /\ older[r] \in Seq(Message) /\ ~creating[r]
<1>1. copy[r] \in Seq(Message) /\ older[r] \in Seq(Message)
  BY DEF MemoryInv, TypeOK
<1>2. Len(copy[r]) >= 4 /\ Len(copy[r]) \in Nat /\ ~creating[r]
  BY <1>1 DEF MemoryInv, LocalsInv
<1>3. SplitIndex(copy[r]) \in 0..Len(copy[r])
  BY <1>1, <1>2, SplitProperties
<1>4. AfterAdd(r) \in {"agent", "done"} /\ (AfterAdd(r) = "agent" => r \in Unanswered)
  BY DEF AfterAdd, Unanswered
<1>5. QED
  BY <1>1, <1>2, <1>3, <1>4

\* A new summary is a list of messages.
LEMMA CondensedType ==
  ASSUME MemoryInv, NEW r \in Requests, pc[r] = "storeSummary"
  PROVE  Condensed(older[r], copy[r]) \in Seq(Message)
<1> DEFINE k == SplitIndex(copy[r])
<1>1. copy[r] \in Seq(Message) /\ older[r] \in Seq(Message) /\ k \in 0..Len(copy[r])
  BY AfterAddProperties
<1> HIDE DEF k
<1>2. SubSeq(copy[r], 1, k) \in Seq(Message)
  BY <1>1
<1>3. QED
  BY <1>1, <1>2 DEF Condensed, k

\* The summary is stored; windows are as before.
LEMMA StoreSummaryKeepsInv ==
  ASSUME MemoryInv, NEW r \in Requests, StoreSummary(r) PROVE MemoryInv'
<1>1. /\ pc[r] = "storeSummary" /\ Goto(r, "storeRemaining") /\ TypeOK
      /\ summary' = Condensed(older[r], copy[r])
      /\ UNCHANGED <<window, log, lapses, crashes>>
  BY DEF StoreSummary, MemoryInv
<1>2. OnlyOf(r) /\ pc'[r] = "storeRemaining" /\ adding'[r] = adding[r]
  BY <1>1, GotoProperties
<1>3. GetsOn(r)
  BY <1>1, <1>2 DEF GetsOn, Unasked, Unanswered
<1>4. Orderly(Window', Unasked', Unanswered')
  BY <1>1, <1>2, <1>3, WindowStays
<1>5. /\ window' \in {Absent} \cup Seq(Message) /\ summary' \in Seq(Message)
      /\ log' \in Seq(Message) /\ lapses' \in Nat /\ crashes' \in Nat
  BY <1>1, CondensedType DEF TypeOK
<1>6. QED
  BY <1>1, <1>3, <1>4, <1>5, AfterAddProperties, GotoKeepsInv

\* The window becomes the end of the copy that was split.
LEMMA StoreRemainingKeepsInv ==
  ASSUME MemoryInv, NEW r \in Requests, StoreRemaining(r) PROVE MemoryInv'
<1>1. /\ pc[r] = "storeRemaining" /\ Goto(r, AfterAdd(r)) /\ TypeOK
      /\ window' = Remaining(copy[r])
      /\ UNCHANGED <<summary, log, lapses, crashes>>
  BY DEF StoreRemaining, MemoryInv
<1>2. /\ AfterAdd(r) \in {"agent", "done"}
      /\ AfterAdd(r) = "agent" => r \in Unanswered
      /\ ~creating[r]
  BY <1>1, AfterAddProperties
<1>3. OnlyOf(r) /\ pc'[r] = AfterAdd(r)
  BY <1>1, <1>2, GotoProperties
<1>4. GetsOn(r)
  BY <1>2, <1>3 DEF GetsOn, Unasked, Unanswered
<1>5. SplitIndex(copy[r]) + 1 \in 1..(Len(copy[r]) + 1)
  <2>1. copy[r] \in Seq(Message) /\ SplitIndex(copy[r]) \in 0..Len(copy[r])
    BY <1>1, AfterAddProperties
  <2>2. Len(copy[r]) \in Nat
    BY <2>1
  <2>3. QED
    BY <2>1, <2>2
<1>6. Orderly(Window', Unasked', Unanswered') /\ window' \in Seq(Message)
  BY <1>1, <1>3, <1>4, <1>5, CopyIsOrderly DEF Remaining
<1>7. summary' \in Seq(Message) /\ log' \in Seq(Message) /\ lapses' \in Nat /\ crashes' \in Nat
  BY <1>1 DEF TypeOK
<1>8. QED
  BY <1>1, <1>2, <1>4, <1>6, <1>7, GotoKeepsInv

\* A summarisation that fails may have stored the summary.
LEMMA SummariseFailsKeepsInv ==
  ASSUME MemoryInv, NEW r \in Requests, SummariseFails(r) PROVE MemoryInv'
<1>1. /\ pc[r] \in {"storeSummary", "storeRemaining"} /\ Goto(r, AfterAdd(r)) /\ TypeOK
      /\ UNCHANGED <<window, log, lapses, crashes>>
      /\ \/ summary' = summary
         \/ pc[r] = "storeSummary" /\ summary' = Condensed(older[r], copy[r])
  BY DEF SummariseFails, MemoryInv
<1>2. /\ AfterAdd(r) \in {"agent", "done"}
      /\ AfterAdd(r) = "agent" => r \in Unanswered
      /\ ~creating[r]
  BY <1>1, AfterAddProperties
<1>3. OnlyOf(r) /\ pc'[r] = AfterAdd(r)
  BY <1>1, <1>2, GotoProperties
<1>4. GetsOn(r)
  BY <1>2, <1>3 DEF GetsOn, Unasked, Unanswered
<1>5. Orderly(Window', Unasked', Unanswered')
  BY <1>1, <1>3, <1>4, WindowStays
<1>6. /\ window' \in {Absent} \cup Seq(Message) /\ summary' \in Seq(Message)
      /\ log' \in Seq(Message) /\ lapses' \in Nat /\ crashes' \in Nat
  BY <1>1, CondensedType DEF TypeOK
<1>7. QED
  BY <1>1, <1>2, <1>4, <1>5, <1>6, GotoKeepsInv

\* The answer to be stored was in no list before.
LEMMA AnswerKeepsInv ==
  ASSUME MemoryInv, NEW r \in Requests, Answer(r) PROVE MemoryInv'
<1>1. pc[r] = "agent" /\ UNCHANGED <<window, summary, log, lapses, crashes>> /\ TypeOK
  BY DEF Answer, stored, MemoryInv
<1>2. CASE Goto(r, "done")
  BY <1>1, <1>2, GotoWithoutStoring
<1>3. ASSUME NEW n \in Sizes,
             pc' = [pc EXCEPT ![r] = "readToAdd"],
             adding' = [adding EXCEPT
               ![r] = [turn |-> r, role |-> "assistant", tokens |-> n]],
             UNCHANGED <<creating, copy, older, prompt>>
      PROVE  MemoryInv'
  <2> DEFINE m == [turn |-> r, role |-> "assistant", tokens |-> n]
  <2>1. m \in Message
    BY DEF Message
  <2>2. TypeOK'
    BY <1>1, <1>3, <2>1 DEF TypeOK
  <2>3. pc'[r] = "readToAdd" /\ adding'[r] = m
    BY <1>1, <1>3 DEF TypeOK
  <2>4. OnlyOf(r)
    BY <1>1, <1>3 DEF OnlyOf, TypeOK
  <2>5. GetsOn(r)
    BY <1>1, <2>3 DEF GetsOn, Unasked, Unanswered
  <2>6. Orderly(Window', Unasked', Unanswered')
    BY <1>1, <2>4, <2>5, WindowStays
  <2>7. Orderly(copy'[r], Unasked', Unanswered')
    BY <1>1, <1>3, <2>4, <2>5, OnlyItGetsOn, OrderlyStays DEF MemoryInv, ListsInv
  <2>8. QED
    BY <2>1, <2>2, <2>3, <2>4, <2>5, <2>6, <2>7, StepKeepsInv
<1>4. QED
  BY <1>2, <1>3 DEF Answer

\* A clearing empties the keys, one by one.
LEMMA ClearKeepsInv ==
  ASSUME MemoryInv, NEW r \in Requests, ClearWindow(r) \/ ClearSummary(r) PROVE MemoryInv'
<1> DEFINE next == IF pc[r] = "clearWindow" THEN "clearSummary" ELSE "done"
<1>1. /\ pc[r] \in {"clearWindow", "clearSummary"} /\ Goto(r, next) /\ TypeOK
      /\ lapses' = lapses + 1 /\ UNCHANGED <<log, crashes>>
      /\ \/ window' = window /\ summary' = <<>>
         \/ window' = Absent /\ summary' = summary
  BY DEF ClearWindow, ClearSummary, MemoryInv
<1>2. next \in {"clearSummary", "done"}
  OBVIOUS
<1>3. OnlyOf(r) /\ pc'[r] = next
  BY <1>1, <1>2, GotoProperties
<1> HIDE DEF next
<1>4. GetsOn(r)
  BY <1>2, <1>3 DEF GetsOn, Unasked, Unanswered
<1>5. Orderly(Window', Unasked', Unanswered')
  <2>1. CASE window' = window
    BY <1>3, <1>4, <2>1, WindowStays
  <2>2. CASE window' = Absent
    BY <2>2, EmptyIsOrderly DEF Window
  <2>3. QED
    BY <1>1, <2>1, <2>2
<1>6. /\ window' \in {Absent} \cup Seq(Message) /\ summary' \in Seq(Message)
      /\ log' \in Seq(Message) /\ lapses' \in Nat /\ crashes' \in Nat
  <2>1. <<>> \in Seq(Message)
    OBVIOUS
  <2>2. window \in {Absent} \cup Seq(Message) /\ summary \in Seq(Message)
        /\ log \in Seq(Message) /\ lapses \in Nat /\ crashes \in Nat
    BY <1>1 DEF TypeOK
  <2>3. window' \in {Absent} \cup Seq(Message) /\ summary' \in Seq(Message)
    BY <1>1, <2>1, <2>2, Zenon
  <2>4. QED
    BY <1>1, <2>2, <2>3
<1>7. ~creating[r]
  BY <1>1 DEF MemoryInv, LocalsInv
<1>8. QED
  BY <1>1, <1>2, <1>4, <1>5, <1>6, <1>7, GotoKeepsInv

\* A crash ends what is in progress.
LEMMA CrashKeepsInv ==
  ASSUME MemoryInv, Crash PROVE MemoryInv'
<1>1. <<>> \in Seq(Message) /\ Len(<<>>) = 0
  OBVIOUS
<1>2. /\ crashes' = crashes + 1 /\ TypeOK
      /\ pc' = [r \in Requests |-> IF Active(r) THEN "done" ELSE pc[r]]
      /\ creating' = [r \in Requests |-> FALSE]
      /\ adding' = [r \in Requests |-> NoMessage]
      /\ copy' = [r \in Requests |-> <<>>]
      /\ older' = [r \in Requests |-> <<>>]
      /\ prompt' = [r \in Requests |-> <<>>]
      /\ \/ UNCHANGED <<window, summary, lapses>>
         \/ window' = Absent /\ summary' = <<>> /\ lapses' = lapses + 1
      /\ log' = log
  BY DEF Crash, MemoryInv
<1>3. pc' \in PcType
  BY <1>2 DEF TypeOK, PcType
<1>4. TypeOK'
  <2>1. /\ window' \in {Absent} \cup Seq(Message) /\ summary' \in Seq(Message)
        /\ lapses' \in Nat /\ crashes' \in Nat /\ log' \in Seq(Message)
    <3>1. /\ window \in {Absent} \cup Seq(Message) /\ summary \in Seq(Message)
          /\ lapses \in Nat /\ crashes \in Nat /\ log \in Seq(Message)
      BY <1>2 DEF TypeOK
    <3>2. lapses + 1 \in Nat /\ crashes + 1 \in Nat
      BY <3>1
    <3>3. QED
      BY <1>1, <1>2, <3>1, <3>2, Zenon
  <2>2. /\ creating' \in [Requests -> BOOLEAN]
        /\ adding' \in [Requests -> Message \cup {NoMessage}]
        /\ copy' \in [Requests -> Seq(Message)] /\ older' \in [Requests -> Seq(Message)]
        /\ prompt' \in [Requests -> Seq(Message)]
    BY <1>1, <1>2
  <2>3. QED
    BY <1>3, <2>1, <2>2 DEF TypeOK, PcType
<1>5. \A r \in Requests : pc'[r] = "done" \/ (pc'[r] = "idle" /\ pc[r] = "idle")
  BY <1>2 DEF Active
<1>6. Unasked' \subseteq Unasked /\ Unanswered' = {}
  BY <1>5 DEF Unasked, Unanswered
<1>7. LocalsInv'
  BY <1>2, <1>5 DEF LocalsInv
<1>8. ListsInv'
  <2>1. Window' = Window \/ Window' = <<>>
    BY <1>2 DEF Window
  <2>2. Orderly(Window', Unasked', Unanswered')
    BY <1>6, <2>1, OrderlyStays, EmptyIsOrderly DEF MemoryInv, ListsInv
  <2>3. \A r \in Requests : copy'[r] = <<>>
    BY <1>2
  <2>4. QED
    BY <2>2, <2>3, EmptyIsOrderly DEF ListsInv
<1>9. QED
  BY <1>4, <1>7, <1>8 DEF MemoryInv

\* A key that expires is gone.
LEMMA ExpireKeepsInv ==
  ASSUME MemoryInv, Expire PROVE MemoryInv'
<1>1. /\ lapses' = lapses + 1 /\ UNCHANGED <<pc, creating, adding, copy, older, prompt, log, crashes>>
      /\ \/ window' = Absent /\ summary' = summary
         \/ window' = window /\ summary' = <<>>
      /\ TypeOK
  BY DEF Expire, locals, MemoryInv
<1>2. TypeOK'
  <2>1. <<>> \in Seq(Message)
    OBVIOUS
  <2>2. window \in {Absent} \cup Seq(Message) /\ summary \in Seq(Message) /\ lapses \in Nat
    BY <1>1 DEF TypeOK
  <2>3. window' \in {Absent} \cup Seq(Message) /\ summary' \in Seq(Message)
    BY <1>1, <2>1, <2>2, Zenon
  <2>4. lapses' \in Nat
    BY <1>1, <2>2
  <2>5. QED
    BY <1>1, <2>3, <2>4 DEF TypeOK
<1>3. Unasked' = Unasked /\ Unanswered' = Unanswered
  BY <1>1 DEF Unasked, Unanswered
<1>4. Window' = Window \/ Window' = <<>>
  BY <1>1 DEF Window
<1>5. ListsInv'
  BY <1>1, <1>3, <1>4, EmptyIsOrderly DEF MemoryInv, ListsInv
<1>6. LocalsInv'
  BY <1>1 DEF MemoryInv, LocalsInv
<1>7. QED
  BY <1>2, <1>5, <1>6 DEF MemoryInv

\* Nothing is stored and nobody has come.
LEMMA InitEstablishesInv ==
  ASSUME Init PROVE MemoryInv
<1>1. <<>> \in Seq(Message) /\ Len(<<>>) = 0
  OBVIOUS
<1>2. TypeOK
  BY <1>1 DEF Init, TypeOK
<1>3. Window = <<>> /\ \A r \in Requests : copy[r] = <<>>
  BY DEF Init, Window
<1>4. ListsInv
  BY <1>3, EmptyIsOrderly DEF ListsInv
<1>5. LocalsInv
  BY DEF Init, LocalsInv
<1>6. QED
  BY <1>2, <1>4, <1>5 DEF MemoryInv

\* Every step.
LEMMA NextKeepsInv ==
  ASSUME MemoryInv, [Next]_vars PROVE MemoryInv'
<1>1. CASE UNCHANGED vars
  <2>1. UNCHANGED <<window, summary, log, lapses, pc, creating, adding, copy, older,
                    prompt, crashes>>
    BY <1>1 DEF vars, stored, locals
  <2>2. Window' = Window /\ Unasked' = Unasked /\ Unanswered' = Unanswered
    BY <2>1 DEF Window, Unasked, Unanswered
  <2>3. QED
    BY <2>1, <2>2 DEF MemoryInv, TypeOK, LocalsInv, ListsInv
<1>2. ASSUME NEW r \in Requests, Arrive(r) \/ ReadSummary(r) \/ ReadWindow(r) \/ CreateWindow(r)
      PROVE  MemoryInv'
  BY <1>2, ArriveKeepsInv, ReadSummaryKeepsInv, ReadWindowKeepsInv, CreateWindowKeepsInv
<1>3. ASSUME NEW r \in Requests,
             StoreTrimmed(r) \/ StoreAdded(r) \/ ReadSummarised(r) \/ StoreSummary(r)
      PROVE  MemoryInv'
  BY <1>3, StoreTrimmedKeepsInv, StoreAddedKeepsInv, ReadSummarisedKeepsInv,
     StoreSummaryKeepsInv
<1>4. ASSUME NEW r \in Requests,
             StoreRemaining(r) \/ SummariseFails(r) \/ Answer(r) \/ Throw(r)
      PROVE  MemoryInv'
  BY <1>4, StoreRemainingKeepsInv, SummariseFailsKeepsInv, AnswerKeepsInv, ThrowKeepsInv
<1>5. ASSUME NEW r \in Requests, ClearWindow(r) \/ ClearSummary(r) PROVE MemoryInv'
  BY <1>5, ClearKeepsInv
<1>6. QED
  BY <1>1, <1>2, <1>3, <1>4, <1>5, CrashKeepsInv, ExpireKeepsInv DEF Next, Done

-----------------------------------------------------------------------------
(* What is sent.                                                            *)

\* A head of a list is the head before it and one message more.
LEMMA HeadGrows ==
  ASSUME NEW S, NEW s \in Seq(S), NEW i \in 1..Len(s)
  PROVE  SubSeq(s, 1, i) = Append(SubSeq(s, 1, i - 1), s[i])
<1> DEFINE a == SubSeq(s, 1, i)
           b == Append(SubSeq(s, 1, i - 1), s[i])
<1>1. /\ SubSeq(s, 1, i - 1) \in Seq(S) /\ Len(SubSeq(s, 1, i - 1)) = i - 1
      /\ \A j \in 1..(i - 1) : SubSeq(s, 1, i - 1)[j] = s[j]
  OBVIOUS
<1>2. a \in Seq(S) /\ Len(a) = i /\ \A j \in 1..i : a[j] = s[j]
  OBVIOUS
<1>3. b \in Seq(S) /\ Len(b) = i /\ \A j \in 1..i : b[j] = s[j]
  BY <1>1
<1> HIDE DEF a, b
<1>4. \A j \in 1..i : a[j] = b[j]
  BY <1>2, <1>3
<1>5. QED
  BY <1>2, <1>3, <1>4, SeqEqual DEF a, b

\* Among messages of users and assistants only, the filters of both conversions
\* find nothing to leave out.  (The recursive function is the one that gives the heads
\* of the list: where another one differed first, it could not differ.)
LEMMA OfRolesKeepsAll ==
  ASSUME NEW s \in Seq(Message), NEW roles, {"user", "assistant"} \subseteq roles
  PROVE  OfRoles(s, roles) = s
<1> DEFINE next(g, i) ==
             IF i = 0 THEN <<>>
             ELSE IF s[i].role \in roles THEN Append(g[i - 1], s[i]) ELSE g[i - 1]
           Kept(g) == g = [i \in 0..Len(s) |-> next(g, i)]
           heads == [i \in 0..Len(s) |-> SubSeq(s, 1, i)]
           kept == CHOOSE g : Kept(g)
<1>1. Len(s) \in Nat /\ \A i \in 1..Len(s) : s[i].role \in roles
  <2>1. \A i \in 1..Len(s) : s[i] \in Message
    OBVIOUS
  <2>2. \A m \in Message : m.role \in {"user", "assistant"}
    BY DEF Message
  <2>3. QED
    BY <2>1, <2>2
<1>2. Kept(heads)
  <2>1. ASSUME NEW i \in 0..Len(s) PROVE heads[i] = next(heads, i)
    <3>1. CASE i = 0
      BY <3>1
    <3>2. CASE i # 0
      <4>1. i \in 1..Len(s) /\ i - 1 \in 0..Len(s)
        BY <1>1, <3>2
      <4>2. SubSeq(s, 1, i) = Append(SubSeq(s, 1, i - 1), s[i])
        BY <4>1, HeadGrows
      <4>3. QED
        BY <1>1, <3>2, <4>1, <4>2
    <3>3. QED
      BY <3>1, <3>2
  <2> HIDE DEF next
  <2>2. QED
    BY <2>1
<1>3. Kept(kept)
  <2> HIDE DEF Kept, heads
  <2>1. QED
    BY <1>2
<1>4. \A i \in 0..Len(s) : kept[i] = next(kept, i)
  <2> HIDE DEF next, kept
  <2>1. QED
    BY <1>3
<1>5. \A i \in 0..Len(s) : kept[i] = SubSeq(s, 1, i)
  <2> DEFINE S == {i \in 0..Len(s) : kept[i] # SubSeq(s, 1, i)}
  <2> HIDE DEF kept
  <2>1. SUFFICES ASSUME S # {} PROVE FALSE
    OBVIOUS
  <2>2. PICK i \in S : \A j \in S : i <= j
    <3>1. S \in SUBSET Nat
      BY <1>1
    <3> HIDE DEF S
    <3>2. QED
      BY <2>1, <3>1, LeastExists
  <2>3. i # 0
    <3>1. 0 \in 0..Len(s) /\ SubSeq(s, 1, 0) = <<>>
      BY <1>1
    <3>2. kept[0] = <<>>
      BY <1>4, <3>1
    <3>3. kept[i] # SubSeq(s, 1, i)
      BY <2>2
    <3>4. QED
      BY <3>1, <3>2, <3>3
  <2>4. i \in 1..Len(s) /\ i - 1 \in 0..Len(s) /\ i - 1 \notin S
    BY <1>1, <2>2, <2>3
  <2>5. kept[i] = Append(SubSeq(s, 1, i - 1), s[i])
    BY <1>1, <1>4, <2>3, <2>4
  <2>6. QED
    BY <2>2, <2>4, <2>5, HeadGrows
<1>6. OfRoles(s, roles) = kept[Len(s)]
  BY DEF OfRoles
<1>7. SubSeq(s, 1, Len(s)) = s
  OBVIOUS
<1> HIDE DEF kept
<1>8. QED
  BY <1>1, <1>5, <1>6, <1>7

-----------------------------------------------------------------------------
(* Where the lists come from.                                               *)

\* v is what is left of w from some message on.
EndOf(v, w) == \E i \in 1..(Len(w) + 1) : v = From(w, i)

\* The window of a request becomes the stored one, or what trimming leaves of it;
\* the one its prompt is built from does only where the turn begins.
LocalWindowsStep ==
  \A q \in Requests :
    /\ copy'[q] \in {copy[q], <<>>} \/ EndOf(copy'[q], Window)
    /\ \/ prompt'[q] \in {prompt[q], <<>>}
       \/ pc[q] = "readActive" /\ EndOf(prompt'[q], Window)

\* The stored window becomes an end of a request's copy, or that copy with the
\* message that is logged.
StoredWindowStep ==
  \/ /\ log' = log
     /\ Window' \in {Window, <<>>} \/ \E q \in Requests : EndOf(Window', copy[q])
  \/ \E q \in Requests :
       /\ adding[q] \in Message /\ log' = Append(log, adding[q])
       /\ Window' \in {<<>>, Append(copy[q], adding[q])}

\* Going to an await leaves the windows of requests as they are, or forgets them.
LEMMA GotoLeavesLocalWindows ==
  ASSUME TypeOK, NEW r \in Requests, NEW next \in {"done"} \cup Awaits, Goto(r, next)
  PROVE  LocalWindowsStep
<1>1. OnlyOf(r)
  BY GotoProperties
<1>2. copy'[r] \in {copy[r], <<>>} /\ prompt'[r] \in {prompt[r], <<>>}
  BY GotoProperties
<1>3. \A q \in Requests : q # r => copy'[q] = copy[q] /\ prompt'[q] = prompt[q]
  BY <1>1 DEF OnlyOf, TypeOK
<1>4. QED
  BY <1>2, <1>3 DEF LocalWindowsStep

\* A request continues with the stored window, or with none.
LEMMA ContinueTakesTheWindow ==
  ASSUME TypeOK, NEW r \in Requests, NEW w \in Seq(Message), Continue(r, w),
         pc[r] \in WindowReads, w \in {Window, <<>>}
  PROVE  LocalWindowsStep
<1> DEFINE next == AfterRead(r, w)
           kept == IF pc[r] = "readActive" THEN Trimmed(w) ELSE w
<1>1. CASE next = "done"
  <2>1. Goto(r, "done")
    BY <1>1 DEF Continue
  <2>2. QED
    BY <2>1, GotoLeavesLocalWindows
<1>2. CASE next # "done"
  <2>1. /\ copy' = [copy EXCEPT ![r] = kept]
        /\ prompt' = [prompt EXCEPT ![r] = IF pc[r] = "readActive" THEN kept ELSE @]
    BY <1>2 DEF Continue
  <2>2. EndOf(kept, w)
    <3>1. EndOf(Trimmed(w), w)
      BY TrimmedProperties DEF EndOf
    <3>2. w = From(w, 1) /\ 1 \in 1..(Len(w) + 1)
      BY WholeIsFromFirst
    <3>3. QED
      BY <3>1, <3>2 DEF EndOf
  <2>3. kept = <<>> \/ EndOf(kept, Window)
    <3>1. CASE w = Window
      BY <2>2, <3>1
    <3>2. CASE w = <<>>
      BY <3>2, TrimmedOfNone
    <3>3. QED
      BY <3>1, <3>2
  <2> HIDE DEF kept
  <2>4. /\ copy'[r] = kept
        /\ prompt'[r] = prompt[r] \/ (pc[r] = "readActive" /\ prompt'[r] = kept)
    BY <2>1 DEF TypeOK
  <2>5. \A q \in Requests : q # r => copy'[q] = copy[q] /\ prompt'[q] = prompt[q]
    BY <2>1 DEF TypeOK
  <2>6. QED
    BY <2>3, <2>4, <2>5 DEF LocalWindowsStep
<1>3. QED
  BY <1>1, <1>2

\* Reading the window takes a copy of it.
LEMMA ReadingTakesTheWindow ==
  ASSUME MemoryInv, NEW r \in Requests, ReadWindow(r) \/ CreateWindow(r)
  PROVE  LocalWindowsStep /\ StoredWindowStep
<1>1. TypeOK /\ pc[r] \in WindowReads /\ <<>> \in Seq(Message)
  BY DEF MemoryInv, LocalsInv, ReadWindow, CreateWindow
<1>2. StoredWindowStep
  <2>1. log' = log /\ window' \in {window, <<>>}
    BY DEF ReadWindow, CreateWindow, stored
  <2>2. Window' \in {Window, <<>>}
    BY <2>1 DEF Window
  <2>3. QED
    BY <2>1, <2>2 DEF StoredWindowStep
<1>3. CASE ReadWindow(r) /\ window = Absent
  BY <1>2, <1>3 DEF ReadWindow, LocalWindowsStep
<1>4. CASE ReadWindow(r) /\ window # Absent
  <2>1. Continue(r, window) /\ window \in Seq(Message) /\ Window = window
    BY <1>1, <1>4 DEF ReadWindow, TypeOK, Window
  <2>2. QED
    BY <1>1, <1>2, <2>1, ContinueTakesTheWindow
<1>5. CASE CreateWindow(r)
  <2>1. Continue(r, <<>>)
    BY <1>5 DEF CreateWindow
  <2>2. QED
    BY <1>1, <1>2, <2>1, ContinueTakesTheWindow
<1>6. QED
  BY <1>2, <1>3, <1>4, <1>5

\* A store of the window stores an end of the request's copy, or that copy with its
\* message.
LEMMA StoresTakeTheCopy ==
  ASSUME MemoryInv, NEW r \in Requests,
         StoreTrimmed(r) \/ StoreAdded(r) \/ StoreRemaining(r)
  PROVE  LocalWindowsStep /\ StoredWindowStep
<1>1. TypeOK /\ copy[r] \in Seq(Message)
  BY DEF MemoryInv, TypeOK
<1>2. CASE StoreTrimmed(r)
  <2>1. Goto(r, "readToAdd") /\ window' = copy[r] /\ log' = log
    BY <1>2 DEF StoreTrimmed
  <2>2. copy[r] = From(copy[r], 1) /\ 1 \in 1..(Len(copy[r]) + 1)
    BY <1>1, WholeIsFromFirst
  <2>3. Window' = <<>> \/ EndOf(Window', copy[r])
    BY <2>1, <2>2 DEF Window, EndOf
  <2>4. LocalWindowsStep
    BY <1>1, <2>1, GotoLeavesLocalWindows
  <2>5. QED
    BY <2>1, <2>3, <2>4 DEF StoredWindowStep
<1>3. CASE StoreAdded(r)
  <2>1. PICK next \in {"readToSummarise", AfterAdd(r)} : Goto(r, next)
    BY <1>3 DEF StoreAdded
  <2>2. next \in {"done"} \cup Awaits
    BY DEF AfterAdd
  <2>3. LocalWindowsStep
    BY <1>1, <2>1, <2>2, GotoLeavesLocalWindows
  <2>4. /\ adding[r] \in Message /\ log' = Append(log, adding[r])
        /\ window' = Append(copy[r], adding[r])
    BY <1>3 DEF StoreAdded, Pushed, MemoryInv, LocalsInv
  <2>5. QED
    BY <2>3, <2>4 DEF StoredWindowStep, Window
<1>4. CASE StoreRemaining(r)
  <2>1. /\ pc[r] = "storeRemaining" /\ Goto(r, AfterAdd(r)) /\ log' = log
        /\ window' = From(copy[r], SplitIndex(copy[r]) + 1)
    BY <1>4 DEF StoreRemaining, Remaining
  <2>2. SplitIndex(copy[r]) \in 0..Len(copy[r]) /\ AfterAdd(r) \in {"agent", "done"}
    BY <2>1, AfterAddProperties
  <2>3. SplitIndex(copy[r]) + 1 \in 1..(Len(copy[r]) + 1)
    BY <1>1, <2>2
  <2>4. Window' = <<>> \/ EndOf(Window', copy[r])
    BY <2>1, <2>3 DEF Window, EndOf
  <2>5. LocalWindowsStep
    BY <1>1, <2>1, <2>2, GotoLeavesLocalWindows
  <2>6. QED
    BY <2>1, <2>4, <2>5 DEF StoredWindowStep
<1>5. QED
  BY <1>2, <1>3, <1>4

\* Every other step of a request leaves the windows, or empties the stored one.
LEMMA OthersLeaveTheWindows ==
  ASSUME MemoryInv, NEW r \in Requests,
         \/ Arrive(r) \/ ReadSummary(r) \/ ReadSummarised(r) \/ StoreSummary(r)
         \/ SummariseFails(r) \/ Answer(r) \/ ClearWindow(r) \/ ClearSummary(r) \/ Throw(r)
  PROVE  LocalWindowsStep /\ StoredWindowStep
<1>1. TypeOK
  BY DEF MemoryInv
<1>2. StoredWindowStep
  <2>1. log' = log /\ window' \in {window, Absent}
    BY DEF Arrive, ReadSummary, ReadSummarised, StoreSummary, SummariseFails, Answer,
           ClearWindow, ClearSummary, Throw, stored
  <2>2. Window' \in {Window, <<>>}
    BY <2>1 DEF Window
  <2>3. QED
    BY <2>1, <2>2 DEF StoredWindowStep
<1>3. \/ UNCHANGED <<copy, prompt>>
      \/ \E next \in {"done"} \cup Awaits : Goto(r, next)
  <2>1. AfterAdd(r) \in {"done"} \cup Awaits
    BY DEF AfterAdd
  <2>2. CASE Arrive(r) \/ ReadSummarised(r)
    BY <2>2 DEF Arrive, ReadSummarised
  <2>3. CASE ReadSummary(r) \/ StoreSummary(r) \/ SummariseFails(r)
    BY <2>1, <2>3 DEF ReadSummary, StoreSummary, SummariseFails
  <2>4. CASE Answer(r)
    BY <2>4 DEF Answer
  <2>5. CASE ClearWindow(r) \/ ClearSummary(r) \/ Throw(r)
    BY <2>5 DEF ClearWindow, ClearSummary, Throw
  <2>6. QED
    BY <2>2, <2>3, <2>4, <2>5
<1>4. LocalWindowsStep
  <2>1. CASE UNCHANGED <<copy, prompt>>
    BY <2>1 DEF LocalWindowsStep
  <2>2. QED
    BY <1>1, <1>3, <2>1, GotoLeavesLocalWindows
<1>5. QED
  BY <1>2, <1>4

\* Every step.
LEMMA StepsOfTheWindows ==
  ASSUME MemoryInv, [Next]_vars
  PROVE  LocalWindowsStep /\ StoredWindowStep
<1>1. CASE UNCHANGED vars
  <2>1. UNCHANGED <<window, log, copy, prompt>>
    BY <1>1 DEF vars, stored, locals
  <2>2. QED
    BY <2>1 DEF LocalWindowsStep, StoredWindowStep, Window
<1>2. CASE Crash
  <2>1. /\ log' = log /\ window' \in {window, Absent}
        /\ \A q \in Requests : copy'[q] = <<>> /\ prompt'[q] = <<>>
    BY <1>2 DEF Crash
  <2>2. QED
    BY <2>1 DEF LocalWindowsStep, StoredWindowStep, Window
<1>3. CASE Expire
  <2>1. UNCHANGED <<log, copy, prompt>> /\ window' \in {window, Absent}
    BY <1>3 DEF Expire, locals
  <2>2. QED
    BY <2>1 DEF LocalWindowsStep, StoredWindowStep, Window
<1>4. ASSUME NEW r \in Requests, ReadWindow(r) \/ CreateWindow(r)
      PROVE  LocalWindowsStep /\ StoredWindowStep
  BY <1>4, ReadingTakesTheWindow
<1>5. ASSUME NEW r \in Requests, StoreTrimmed(r) \/ StoreAdded(r) \/ StoreRemaining(r)
      PROVE  LocalWindowsStep /\ StoredWindowStep
  BY <1>5, StoresTakeTheCopy
<1>6. ASSUME NEW r \in Requests,
             \/ Arrive(r) \/ ReadSummary(r) \/ ReadSummarised(r) \/ StoreSummary(r)
             \/ SummariseFails(r) \/ Answer(r) \/ ClearWindow(r) \/ ClearSummary(r)
             \/ Throw(r)
      PROVE  LocalWindowsStep /\ StoredWindowStep
  BY <1>6, OthersLeaveTheWindows
<1>7. QED
  BY <1>1, <1>2, <1>3, <1>4, <1>5, <1>6 DEF Next, Done

-----------------------------------------------------------------------------
(* The order of the log.                                                    *)

\* The inductive invariant of WindowFollowsLog: the copies follow the log as well,
\* since one of them may be stored.
FollowInv ==
  /\ Follows(Window, log)
  /\ \A r \in Requests : Follows(copy[r], log) /\ Follows(prompt[r], log)

\* A list without messages follows every other.
LEMMA EmptyFollows ==
  ASSUME NEW l PROVE Follows(<<>>, l)
BY DEF Follows, Elements

\* An end of a list has its messages, from one on.
LEMMA EndProperties ==
  ASSUME NEW w \in Seq(Message), NEW v, EndOf(v, w)
  PROVE  /\ v \in Seq(Message)
         /\ \E i \in 1..(Len(w) + 1) : \A j \in DOMAIN v :
              v[j] = w[i + j - 1] /\ i + j - 1 \in DOMAIN w
<1>1. PICK i \in 1..(Len(w) + 1) : v = From(w, i)
  BY DEF EndOf
<1> DEFINE u == From(w, i)
<1>2. /\ u \in Seq(Message) /\ Len(u) = Len(w) - i + 1
      /\ \A j \in 1..Len(u) : u[j] = w[i + j - 1]
  BY FromProperties
<1> HIDE DEF u
<1>3. ASSUME NEW j \in DOMAIN u
      PROVE  u[j] = w[i + j - 1] /\ i + j - 1 \in DOMAIN w
  <2>1. DOMAIN u = 1..Len(u) /\ DOMAIN w = 1..Len(w) /\ Len(w) \in Nat
    BY <1>2
  <2>2. j \in 1..Len(u)
    BY <2>1
  <2>3. u[j] = w[i + j - 1]
    BY <1>2, <2>2
  <2>4. i + j - 1 \in 1..Len(w)
    <3> DEFINE n == Len(w)
               m == Len(u)
    <3>1. n \in Nat /\ m = n - i + 1 /\ j \in 1..m /\ i \in 1..(n + 1)
      BY <1>2, <2>1, <2>2
    <3> HIDE DEF n, m
    <3>2. i + j - 1 \in 1..n
      BY <3>1
    <3>3. QED
      BY <3>2 DEF n
  <2>5. QED
    BY <2>1, <2>3, <2>4
<1>4. v = u
  BY <1>1 DEF u
<1>5. QED
  BY <1>2, <1>3, <1>4

\* An end of a list follows what the list follows.
LEMMA EndFollows ==
  ASSUME NEW w \in Seq(Message), NEW v, NEW l, Follows(w, l), EndOf(v, w)
  PROVE  Follows(v, l)
<1>1. v \in Seq(Message)
  BY EndProperties
<1>2. PICK i \in 1..(Len(w) + 1) :
        \A j \in DOMAIN v : v[j] = w[i + j - 1] /\ i + j - 1 \in DOMAIN w
  BY EndProperties
<1>3. \A j \in DOMAIN v : v[j] = w[i + j - 1] /\ i + j - 1 \in DOMAIN w
  BY <1>2
<1>4. Elements(v) \subseteq Elements(w)
  BY <1>3 DEF Elements
<1>5. ASSUME NEW j \in DOMAIN v, NEW k \in DOMAIN v, j < k
      PROVE  \E a, b \in DOMAIN l : a < b /\ v[j] = l[a] /\ v[k] = l[b]
  <2>1. j \in Int /\ k \in Int /\ i \in Int
    BY <1>1
  <2>2. i + j - 1 < i + k - 1
    BY <1>5, <2>1
  <2>3. \E a, b \in DOMAIN l : a < b /\ w[i + j - 1] = l[a] /\ w[i + k - 1] = l[b]
    BY <1>3, <2>2 DEF Follows
  <2>4. QED
    BY <1>3, <2>3
<1>6. QED
  BY <1>4, <1>5 DEF Follows

\* A list follows a longer log as it followed the log.
LEMMA FollowsLongerLog ==
  ASSUME NEW w, NEW l \in Seq(Message), NEW m \in Message, Follows(w, l)
  PROVE  Follows(w, Append(l, m))
<1> DEFINE k == Append(l, m)
<1>1. DOMAIN l \subseteq DOMAIN k /\ \A i \in DOMAIN l : k[i] = l[i]
  OBVIOUS
<1> HIDE DEF k
<1>2. Elements(w) \subseteq Elements(k)
  <2>1. Elements(l) \subseteq Elements(k)
    BY <1>1 DEF Elements
  <2>2. QED
    BY <2>1 DEF Follows
<1>3. Follows(w, k)
  BY <1>1, <1>2 DEF Follows
<1>4. QED
  BY <1>3 DEF k

\* A list and the log grow by the same message.
LEMMA BothGrow ==
  ASSUME NEW w \in Seq(Message), NEW l \in Seq(Message), NEW m \in Message, Follows(w, l)
  PROVE  Follows(Append(w, m), Append(l, m))
<1> DEFINE v == Append(w, m)
           k == Append(l, m)
<1>1. /\ Len(w) \in Nat /\ DOMAIN w = 1..Len(w) /\ DOMAIN v = 1..(Len(w) + 1)
      /\ v[Len(w) + 1] = m /\ \A i \in DOMAIN w : v[i] = w[i]
  OBVIOUS
<1>2. /\ Len(l) \in Nat /\ DOMAIN l = 1..Len(l) /\ DOMAIN k = 1..(Len(l) + 1)
      /\ k[Len(l) + 1] = m /\ \A i \in DOMAIN l : k[i] = l[i]
  OBVIOUS
<1> HIDE DEF v, k
<1>3. \A i \in DOMAIN w : \E a \in DOMAIN l : w[i] = l[a]
  BY DEF Follows, Elements
<1>4. Elements(v) \subseteq Elements(k)
  <2>1. ASSUME NEW i \in DOMAIN v PROVE \E a \in DOMAIN k : v[i] = k[a]
    <3>1. CASE i \in DOMAIN w
      BY <1>1, <1>2, <1>3, <3>1
    <3>2. CASE i = Len(w) + 1
      BY <1>1, <1>2, <3>2
    <3>3. QED
      BY <1>1, <2>1, <3>1, <3>2
  <2>2. QED
    BY <2>1 DEF Elements
<1>5. ASSUME NEW i \in DOMAIN v, NEW j \in DOMAIN v, i < j
      PROVE  \E a, b \in DOMAIN k : a < b /\ v[i] = k[a] /\ v[j] = k[b]
  <2>1. i \in DOMAIN w
    BY <1>1, <1>5
  <2>2. CASE j \in DOMAIN w
    <3>1. PICK a, b \in DOMAIN l : a < b /\ w[i] = l[a] /\ w[j] = l[b]
      BY <1>5, <2>1, <2>2 DEF Follows
    <3>2. a \in DOMAIN k /\ b \in DOMAIN k /\ k[a] = l[a] /\ k[b] = l[b]
      BY <1>2
    <3>3. QED
      BY <1>1, <2>1, <2>2, <3>1, <3>2
  <2>3. CASE j = Len(w) + 1
    <3>1. PICK a \in DOMAIN l : w[i] = l[a]
      BY <1>3, <2>1
    <3>2. a \in DOMAIN k /\ Len(l) + 1 \in DOMAIN k /\ a < Len(l) + 1 /\ k[a] = l[a]
      BY <1>2
    <3>3. v[i] = k[a] /\ v[j] = k[Len(l) + 1]
      BY <1>1, <1>2, <2>1, <2>3, <3>1, <3>2
    <3>4. QED
      BY <3>2, <3>3
  <2>4. QED
    BY <1>1, <1>5, <2>2, <2>3
<1>6. Follows(v, k)
  BY <1>4, <1>5 DEF Follows
<1>7. QED
  BY <1>6 DEF v, k

\* Every step: what becomes of a window was a window or a copy of one, and a message
\* is added where it is logged.
LEMMA StepKeepsOrder ==
  ASSUME MemoryInv, FollowInv, [Next]_vars
  PROVE  FollowInv'
<1>1. LocalWindowsStep /\ StoredWindowStep
  BY StepsOfTheWindows
<1>2. /\ Window \in Seq(Message) /\ log \in Seq(Message)
      /\ \A r \in Requests : copy[r] \in Seq(Message)
  <2>1. <<>> \in Seq(Message)
    OBVIOUS
  <2>2. QED
    BY <2>1 DEF MemoryInv, TypeOK, Window
<1>3. ASSUME NEW w, Follows(w, log) PROVE Follows(w, log')
  BY <1>1, <1>2, <1>3, FollowsLongerLog DEF StoredWindowStep
<1>4. Follows(Window', log')
  <2>1. CASE log' = log /\ Window' \in {Window, <<>>}
    BY <2>1, EmptyFollows DEF FollowInv
  <2>2. ASSUME NEW q \in Requests, log' = log, EndOf(Window', copy[q])
        PROVE  Follows(Window', log')
    BY <1>2, <2>2, EndFollows DEF FollowInv
  <2>3. ASSUME NEW q \in Requests, adding[q] \in Message, log' = Append(log, adding[q]),
               Window' \in {<<>>, Append(copy[q], adding[q])}
        PROVE  Follows(Window', log')
    <3>1. Follows(Append(copy[q], adding[q]), Append(log, adding[q]))
      BY <1>2, <2>3, BothGrow DEF FollowInv
    <3>2. QED
      BY <2>3, <3>1, EmptyFollows
  <2>4. QED
    BY <1>1, <2>1, <2>2, <2>3 DEF StoredWindowStep
<1>5. ASSUME NEW q \in Requests PROVE Follows(copy'[q], log') /\ Follows(prompt'[q], log')
  <2>1. Follows(Window, log) /\ Follows(copy[q], log) /\ Follows(prompt[q], log)
    BY DEF FollowInv
  <2>2. Follows(copy'[q], log)
    BY <1>1, <1>2, <2>1, EmptyFollows, EndFollows DEF LocalWindowsStep
  <2>3. Follows(prompt'[q], log)
    BY <1>1, <1>2, <2>1, EmptyFollows, EndFollows DEF LocalWindowsStep
  <2>4. QED
    BY <1>3, <2>2, <2>3
<1>6. QED
  BY <1>4, <1>5 DEF FollowInv

-----------------------------------------------------------------------------
(* Nobody is told its own question twice.                                   *)

\* The inductive invariant of PromptAsksOnce: the window a prompt is built from was
\* read before its request had stored anything.
OwnsNothing == \A r \in Requests : \A i \in DOMAIN prompt[r] : prompt[r][i].turn # r

\* Every step.
LEMMA StepOwnsNothing ==
  ASSUME MemoryInv, OwnsNothing, [Next]_vars
  PROVE  OwnsNothing'
<1>1. LocalWindowsStep
  BY StepsOfTheWindows
<1>2. ASSUME NEW q \in Requests, pc[q] = "readActive", EndOf(prompt'[q], Window),
             NEW i \in DOMAIN prompt'[q]
      PROVE  prompt'[q][i].turn # q
  <2>1. PICK k \in 1..(Len(Window) + 1) : prompt'[q] = From(Window, k)
    BY <1>2 DEF EndOf
  <2>2. Window \in Seq(Message)
    <3>1. <<>> \in Seq(Message)
      OBVIOUS
    <3>2. QED
      BY <3>1 DEF MemoryInv, TypeOK, Window
  <2>3. Orderly(prompt'[q], Unasked, Unanswered)
    BY <2>1, <2>2, FromIsOrderly DEF MemoryInv, ListsInv
  <2>4. q \in Unasked
    BY <1>2 DEF Unasked
  <2>5. QED
    BY <1>2, <2>3, <2>4 DEF Orderly
<1>3. QED
  BY <1>1, <1>2 DEF LocalWindowsStep, OwnsNothing

\* A list between the system message and a question is found again.
LEMMA BetweenIsTheMiddle ==
  ASSUME NEW w \in Seq(Message), NEW m \in Message
  PROVE  /\ Between(<<SystemMessage>> \o w \o <<m>>) = w
         /\ Head(<<SystemMessage>> \o w \o <<m>>) = SystemMessage
         /\ <<SystemMessage>> \o w \o <<m>> # <<>>
<1> DEFINE S == Message \cup {SystemMessage}
           front == <<SystemMessage>> \o w
           whole == front \o <<m>>
<1>1. w \in Seq(S) /\ Len(w) \in Nat /\ \A i \in 1..Len(w) : w[i] \in S
  OBVIOUS
<1>2. <<SystemMessage>> \in Seq(S) /\ <<m>> \in Seq(S)
  OBVIOUS
<1> HIDE DEF S
<1>3. /\ front \in Seq(S) /\ Len(front) = Len(w) + 1 /\ front[1] = SystemMessage
      /\ \A i \in 1..Len(w) : front[i + 1] = w[i]
  BY <1>1, <1>2
<1> HIDE DEF front
<1>4. /\ whole \in Seq(S) /\ Len(whole) = Len(w) + 2
      /\ \A i \in 1..(Len(w) + 1) : whole[i] = front[i]
  BY <1>1, <1>2, <1>3
<1> HIDE DEF whole
<1>5. Between(whole) = SubSeq(whole, 2, Len(w) + 1)
  BY <1>1, <1>4 DEF Between
<1> DEFINE b == SubSeq(whole, 2, Len(w) + 1)
<1>6. b \in Seq(S) /\ Len(b) = Len(w) /\ \A i \in 1..Len(w) : b[i] = whole[i + 1]
  BY <1>1, <1>4
<1> HIDE DEF b
<1>7. \A i \in 1..Len(w) : b[i] = w[i]
  BY <1>1, <1>3, <1>4, <1>6
<1>8. b = w
  BY <1>1, <1>6, <1>7, SeqEqual
<1>9. Head(whole) = SystemMessage /\ whole # <<>>
  BY <1>1, <1>3, <1>4
<1>10. QED
  BY <1>5, <1>8, <1>9 DEF b, whole, front

\* As many of the newest messages as the limit allows.
Kept(w, limit) == IF limit \in 1..Len(w) THEN limit ELSE Len(w)

Newest(w, limit) == From(w, Len(w) - Kept(w, limit) + 1)

\* What a node sends: the conversions take apart by position what they put together.
LEMMA WhatIsSent ==
  ASSUME NEW w \in Seq(Message), NEW m \in Message, NEW limit \in Nat
  PROVE  /\ BuildMessages(ToMessageArray(w, m), m, limit) =
              <<SystemMessage>> \o Newest(w, limit) \o <<m>>
         /\ EndOf(Newest(w, limit), w) /\ Newest(w, limit) \in Seq(Message)
<1> DEFINE memory == ToMessageArray(w, m)
           history == IF limit > 0 THEN LastOf(Between(memory), limit) ELSE Between(memory)
<1>1. /\ Len(w) \in Nat /\ Kept(w, limit) \in 0..Len(w)
      /\ limit = 0 \/ limit >= Len(w) => Kept(w, limit) = Len(w)
      /\ limit > 0 /\ limit < Len(w) => Kept(w, limit) = limit
  BY DEF Kept
<1>2. memory = <<SystemMessage>> \o w \o <<m>>
  <2>1. {"user", "assistant"} \subseteq Roles \ {"system"}
    BY DEF Roles
  <2>2. OfRoles(w, Roles \ {"system"}) = w
    BY <2>1, OfRolesKeepsAll
  <2>3. QED
    BY <2>2 DEF ToMessageArray
<1> HIDE DEF memory
<1>3. Between(memory) = w /\ Head(memory) = SystemMessage /\ memory # <<>>
  BY <1>2, BetweenIsTheMiddle
<1>4. history = Newest(w, limit)
  <2>1. CASE limit = 0
    <3>1. history = w /\ Newest(w, limit) = From(w, 1)
      BY <1>1, <1>3, <2>1 DEF Newest
    <3>2. QED
      BY <3>1, WholeIsFromFirst
  <2>2. CASE limit > 0 /\ limit < Len(w)
    <3>1. history = LastOf(w, limit)
      BY <1>3, <2>2
    <3>2. LastOf(w, limit) = SubSeq(w, Len(w) - limit + 1, Len(w))
      BY <2>2 DEF LastOf
    <3>3. QED
      BY <1>1, <2>2, <3>1, <3>2 DEF Newest, From
  <2>3. CASE limit > 0 /\ limit >= Len(w)
    <3>1. history = LastOf(w, limit)
      BY <1>3, <2>3
    <3>2. LastOf(w, limit) = SubSeq(w, 1, Len(w))
      <4>1. ~(limit < Len(w))
        BY <1>1, <2>3
      <4>2. QED
        BY <4>1 DEF LastOf
    <3>3. Kept(w, limit) = Len(w)
      BY <1>1, <2>3
    <3>4. Len(w) - Kept(w, limit) + 1 = 1
      BY <1>1, <3>3
    <3>5. QED
      BY <3>1, <3>2, <3>4 DEF Newest, From
  <2>4. QED
    BY <1>1, <2>1, <2>2, <2>3
<1> HIDE DEF history
<1>5. EndOf(Newest(w, limit), w) /\ Newest(w, limit) \in Seq(Message)
  <2>1. Len(w) - Kept(w, limit) + 1 \in 1..(Len(w) + 1)
    BY <1>1
  <2>2. QED
    BY <2>1, FromProperties DEF Newest, EndOf
<1>6. OfRoles(history, {"user", "assistant"}) = history
  BY <1>4, <1>5, OfRolesKeepsAll
<1>7. BuildMessages(memory, m, limit) = <<SystemMessage>> \o history \o <<m>>
  BY <1>3, <1>6 DEF BuildMessages, history
<1>8. QED
  BY <1>4, <1>5, <1>7 DEF memory

\* Where the agent runs, what it sends asks its question once.
LEMMA SentAsksOnce ==
  ASSUME MemoryInv, OwnsNothing PROVE PromptAsksOnce
<1>1. SUFFICES ASSUME NEW r \in Requests, NEW limit \in HistoryLimits, pc[r] = "agent"
      PROVE  LET sent    == BuildMessages(ToMessageArray(prompt[r], adding[r]), adding[r], limit)
                 history == SubSeq(sent, 2, Len(sent) - 1)
             IN /\ sent = <<SystemMessage>> \o history \o <<adding[r]>>
                /\ \A i \in DOMAIN history : history[i].turn # r
                /\ history = Newest(prompt[r], limit)
  BY DEF PromptAsksOnce, Newest, Kept
<1> DEFINE w == prompt[r]
           m == adding[r]
           sent == BuildMessages(ToMessageArray(w, m), m, limit)
           history == Newest(w, limit)
<1>2. w \in Seq(Message) /\ m \in Message /\ limit \in Nat
  BY <1>1, MemoryAssumption DEF MemoryInv, TypeOK, LocalsInv
<1> HIDE DEF w, m
<1>3. /\ sent = <<SystemMessage>> \o history \o <<m>>
      /\ EndOf(history, w) /\ history \in Seq(Message)
  BY <1>2, WhatIsSent
<1> HIDE DEF sent, history
<1>4. SubSeq(sent, 2, Len(sent) - 1) = history
  BY <1>2, <1>3, BetweenIsTheMiddle DEF Between
<1>5. ASSUME NEW i \in DOMAIN history PROVE history[i].turn # r
  <2>1. PICK k \in 1..(Len(w) + 1) : \A j \in DOMAIN history :
               history[j] = w[k + j - 1] /\ k + j - 1 \in DOMAIN w
    BY <1>2, <1>3, EndProperties
  <2>2. QED
    BY <1>5, <2>1 DEF OwnsNothing, w
<1>6. QED
  BY <1>3, <1>4, <1>5 DEF sent, history, w, m

-----------------------------------------------------------------------------
(* Theorems.                                                                *)

\* The inductive invariant: what each request has at each await, and what no copy
\* of the window can hold.
THEOREM MemoryInvariant == Spec => []MemoryInv
<1>1. Init => MemoryInv
  BY InitEstablishesInv
<1>2. MemoryInv /\ [Next]_vars => MemoryInv'
  BY NextKeepsInv
<1>3. QED
  BY <1>1, <1>2, PTL DEF Spec

\* Type correctness: what the trimming and the splitting of a window leave are
\* lists of messages.
THEOREM MemoryTypeCorrect == Spec => []TypeOK
<1>1. MemoryInv => TypeOK
  BY DEF MemoryInv
<1>2. QED
  BY <1>1, MemoryInvariant, PTL

\* However requests store stale copies of the window over one another, the messages
\* of a turn are in order and none is there twice.
THEOREM TurnsStayInOrder == Spec => []TurnsInOrder
<1>1. MemoryInv => TurnsInOrder
  BY DEF MemoryInv, ListsInv, Orderly, TurnsInOrder
<1>2. QED
  BY <1>1, MemoryInvariant, PTL

\* However requests store stale copies of the window over one another, the window
\* and the window of every prompt tell the messages in the order they were stored.
THEOREM WindowsFollowTheLog == Spec => []WindowFollowsLog
<1>1. Init => FollowInv
  <2>1. Init => Window = <<>> /\ \A r \in Requests : copy[r] = <<>> /\ prompt[r] = <<>>
    BY DEF Init, Window
  <2>2. QED
    BY <2>1, EmptyFollows DEF FollowInv
<1>2. MemoryInv /\ FollowInv /\ [Next]_vars => FollowInv'
  BY StepKeepsOrder
<1>3. FollowInv => WindowFollowsLog
  BY DEF FollowInv, WindowFollowsLog
<1>4. QED
  BY <1>1, <1>2, <1>3, MemoryInvariant, PTL DEF Spec

\* Whatever a node sends its model has the system text first and the question last
\* and once, and between them the newest messages of the window, without a gap.
THEOREM PromptsAskOnce == Spec => []PromptAsksOnce
<1>1. Init => OwnsNothing
  BY DEF Init, OwnsNothing
<1>2. MemoryInv /\ OwnsNothing /\ [Next]_vars => OwnsNothing'
  BY StepOwnsNothing
<1>3. MemoryInv /\ OwnsNothing => PromptAsksOnce
  BY SentAsksOnce
<1>4. QED
  BY <1>1, <1>2, <1>3, MemoryInvariant, PTL DEF Spec

=============================================================================
