-------------------------------- MODULE Prompts --------------------------------
(***************************************************************************)
(* What the models read: toMessageArray (memory-orchestrator.service.ts)    *)
(* makes a list of the user's memory, which travels with the graph's input, *)
(* and buildMessagesFromMemory (message-builder.ts) makes of it the         *)
(* messages a node sends.  Both know their parts by position only.          *)
(*                                                                         *)
(* A message has a role; the system message stands for the system text with *)
(* what was recalled, the summary and the documents in it.                  *)
(***************************************************************************)
EXTENDS Integers, Sequences

SystemMessage == [role |-> "system"]

Roles == {"system", "user", "assistant"}

\* The messages of s with one of the roles.  (SelectSeq, written as a function:
\* the proof system cannot expand SelectSeq.)
OfRoles(s, roles) ==
  LET kept[i \in 0..Len(s)] ==
        IF i = 0 THEN <<>>
        ELSE IF s[i].role \in roles THEN Append(kept[i - 1], s[i]) ELSE kept[i - 1]
  IN kept[Len(s)]

\* The system block, the window without system messages, the question.
ToMessageArray(window, question) ==
  <<SystemMessage>> \o OfRoles(window, Roles \ {"system"}) \o <<question>>

\* Array.prototype.slice(-n).
LastOf(s, n) == SubSeq(s, IF n < Len(s) THEN Len(s) - n + 1 ELSE 1, Len(s))

\* Mutated: slice(1), the list is taken to end with the history.
BetweenToTheEnd(s) == SubSeq(s, 2, Len(s))

\* slice(1, -1): all but the system message and the question.
Between(s) == SubSeq(s, 2, Len(s) - 1)

\* What a node sends, of a history of at most limit messages, 0 being no limit.
BuildMessages(memory, question, limit) ==
  IF memory = <<>>
    THEN <<>>
    ELSE LET history == IF limit > 0 THEN LastOf(Between(memory), limit)
                                     ELSE Between(memory)
         IN <<Head(memory)>>
              \o OfRoles(history, {"user", "assistant"})
              \o <<question>>

=============================================================================
