---------------------------- MODULE ConversationLog ----------------------------
(***************************************************************************)
(* What the short-term memory promises about one user's conversation: the   *)
(* newest messages word for word, the older ones in a summary.  A message   *)
(* leaves the verbatim part only after it entered the summary, or because   *)
(* the verbatim part was too large; nothing else is lost but by a lapse,    *)
(* the user's clearing of the memory, the expiry of a key or a crash.       *)
(***************************************************************************)
EXTENDS Integers, Sequences

CONSTANTS
  Message,       \* the messages of a conversation
  TooLarge(_)    \* whether a verbatim part exceeds its cap

VARIABLES
  log,      \* every message stored so far, oldest first
  recent,   \* the verbatim part
  gist,     \* the messages the summary was made from, in that order
  lapses    \* clearings and expiries so far

vars == <<log, recent, gist, lapses>>

Elements(s) == {s[i] : i \in DOMAIN s}

From(s, i) == SubSeq(s, i, Len(s))

Init ==
  /\ log = <<>> /\ recent = <<>> /\ gist = <<>>
  /\ lapses = 0

\* A message is stored.
Say(m) ==
  /\ log' = Append(log, m)
  /\ recent' = Append(recent, m)
  /\ UNCHANGED <<gist, lapses>>

\* The oldest verbatim messages enter the summary, beside what it holds.
Condense ==
  /\ \E k \in 1..Len(recent) : gist' = gist \o SubSeq(recent, 1, k)
  /\ UNCHANGED <<log, recent, lapses>>

\* The oldest verbatim messages leave: summarised ones, or, as long as what they
\* stand at the head of is too large, any but the last.
Drop ==
  /\ \E k \in 1..Len(recent) :
       /\ \/ Elements(SubSeq(recent, 1, k)) \subseteq Elements(gist)
          \/ k < Len(recent) /\ \A i \in 1..k : TooLarge(From(recent, i))
       /\ recent' = From(recent, k + 1)
  /\ UNCHANGED <<log, gist, lapses>>

\* One of the two parts is cleared or expires, or both are lost with the process.
Lapse ==
  /\ lapses' = lapses + 1
  /\ <<recent', gist'>> \in {<<<<>>, gist>>, <<recent, <<>>>>, <<<<>>, <<>>>>}
  /\ UNCHANGED log

Next == (\E m \in Message : Say(m)) \/ Condense \/ Drop \/ Lapse

Spec == Init /\ [][Next]_vars

=============================================================================
