------------------------------ MODULE AgentProofs ------------------------------
(***************************************************************************)
(* Proofs about AgentService, for every set of requests, threads and tools, *)
(* every list of tool calls a model may return, and any number of failures, *)
(* crashes and requests at once on a thread.                                *)
(*                                                                         *)
(* A checkpoint satisfies CheckpointInv; a superstep leads from one such    *)
(* checkpoint to another (SuperstepKeepsInv), and so does the input that    *)
(* starts a run (StartKeepsInv).  Whoever stores it, whenever, every        *)
(* checkpoint of a thread or of a run then satisfies it.                    *)
(***************************************************************************)
EXTENDS AgentService, SequenceTheorems, WellFoundedInduction, TLAPS

\* The turn a checkpoint is about: everything in it stems from its question.
OneTurn(c) ==
  /\ {c.documents, c.sources, c.answer.turn, c.answer.basis}
       \subseteq {NoTurn, c.question}

\* Before the tools run and after, the last message is one of this turn.
ToolTurn(cp) ==
  cp.next \in {"tools_executor", "tools_result"} =>
    /\ Len(cp.chan.messages) > 0
    /\ LastMessage(cp.chan).turn = cp.chan.question

\* On the way to an answer, the plan says whether there are documents.
Planned(cp) ==
  cp.next \in {"generator", "grader"} =>
    cp.chan.plan = "direct" \/ cp.chan.documents = cp.chan.question

\* retryCount bounds the generations made so far, from below.
Counted(cp) ==
  /\ cp.next \notin {"generator", "grader", END} => cp.gens = 0
  /\ cp.next = "generator" =>
       cp.gens = 0 \/ (cp.gens <= cp.chan.retryCount
                       /\ cp.chan.retryCount < MaxRetries)
  /\ cp.next = "grader" =>
       cp.gens = 1 \/ (cp.gens <= cp.chan.retryCount + 1
                       /\ cp.chan.retryCount < MaxRetries)
  /\ cp.gens <= MaxRetries

CheckpointInv(cp) ==
  OneTurn(cp.chan) /\ ToolTurn(cp) /\ Planned(cp) /\ Counted(cp)

-----------------------------------------------------------------------------
(* The channels.                                                            *)

\* A note in steps keeps the channels well formed and changes nothing else.
LEMMA NotedType ==
  ASSUME NEW c \in Channels
  PROVE  /\ Noted(c) \in Channels
         /\ \A f \in DOMAIN c : f # "steps" => Noted(c)[f] = c[f]
BY DEF Noted, Channels

\* The results of a list of calls are messages of the turn of the call.
LEMMA ToolResultsType ==
  ASSUME NEW m \in Message
  PROVE  /\ ToolResults(m) \in Seq(Message)
         /\ Len(ToolResults(m)) = Len(m.calls)
         /\ \A i \in 1..Len(m.calls) : ToolResults(m)[i].turn = m.turn
<1>1. Len(m.calls) \in Nat
  BY DEF Message
<1>2. \A i \in 1..Len(m.calls) :
         [role |-> "tool", turn |-> m.turn, calls |-> <<>>] \in Message
  BY DEF Message
<1>3. QED
  BY <1>1, <1>2 DEF ToolResults

\* The last message of a non-empty list is a message.
LEMMA LastMessageType ==
  ASSUME NEW c \in Channels, Len(c.messages) > 0
  PROVE  LastMessage(c) \in Message
<1>1. c.messages \in Seq(Message)
  BY DEF Channels
<1>2. QED
  BY <1>1 DEF LastMessage

\* The channels of a thread nobody has written to.
LEMMA EmptyChannelsType == EmptyChannels \in Channels /\ OneTurn(EmptyChannels)
<1>1. NoAnswer \in Answer /\ NoQuery \in Query
  BY DEF NoAnswer, Answer, NoQuery, Query, Turn
<1>2. <<>> \in Seq(Message)
  OBVIOUS
<1>3. QED
  BY <1>1, <1>2
  DEF EmptyChannels, Channels, Turn, Plans, OneTurn, NoAnswer

-----------------------------------------------------------------------------
(* Supersteps.                                                              *)

\* Which operator gives the results of which node.
LEMMA NodeResultsAt ==
  ASSUME NEW c
  PROVE  /\ NodeResults("planner", c) = Planner(c)
         /\ NodeResults("query_rewriter", c) = QueryRewriter(c)
         /\ NodeResults("search", c) = Search(c)
         /\ NodeResults("relevance_check", c) = RelevanceCheck(c)
         /\ NodeResults("generator", c) = Generator(c)
         /\ NodeResults("grader", c) = Grader(c)
         /\ NodeResults("tools_caller", c) = ToolsCaller(c)
         /\ NodeResults("tools_executor", c) = ToolsExecutor(c)
         /\ NodeResults("tools_result", c) = ToolsResult(c)
BY DEF NodeResults

\* Each node leaves channels that are well formed.
LEMMA PlannerType ==
  ASSUME NEW c \in Channels, NEW d \in Planner(c)
  PROVE  d \in Channels
<1>1. PICK p \in {"tools", "search", "direct"} : d = [Noted(c) EXCEPT !.plan = p]
  BY DEF Planner
<1>2. QED
  BY <1>1, NotedType DEF Channels, Plans

\* The rewriter writes a query about turns of the messages, and a note.
LEMMA QueryRewriterType ==
  ASSUME NEW c \in Channels, NEW d \in QueryRewriter(c)
  PROVE  d \in Channels
<1> DEFINE seen == {c.messages[i].turn : i \in DOMAIN c.messages}
<1>1. c.messages \in Seq(Message)
  BY DEF Channels
<1>2. seen \in SUBSET Turn
  <2>1. \A i \in DOMAIN c.messages : c.messages[i] \in Message
    BY <1>1
  <2>2. \A i \in DOMAIN c.messages : c.messages[i].turn \in Turn
    BY <2>1 DEF Message
  <2>3. QED
    BY <2>2
<1>3. [empty |-> FALSE, about |-> seen] \in Query /\ NoQuery \in Query
  BY <1>2 DEF Query, NoQuery
<1>4. PICK q \in {NoQuery, [empty |-> FALSE, about |-> seen]} :
         d = [Noted(c) EXCEPT !.searchQuery = q]
  BY DEF QueryRewriter
<1>5. QED
  BY <1>3, <1>4, NotedType DEF Channels

\* The search writes documents and sources, and a note.
LEMMA SearchType ==
  ASSUME NEW c \in Channels, NEW d \in Search(c)
  PROVE  d \in Channels
<1>1. PICK x \in {c.question, NoTurn} :
         d = [Noted(c) EXCEPT !.documents = x, !.sources = x]
  BY DEF Search
<1>2. x \in Turn
  BY DEF Channels, Turn
<1>3. QED
  BY <1>1, <1>2, NotedType DEF Channels

\* The relevance check may switch the plan, and writes a note.
LEMMA RelevanceCheckType ==
  ASSUME NEW c \in Channels, NEW d \in RelevanceCheck(c)
  PROVE  d \in Channels
<1>1. d = Noted(c) \/ d = [Noted(c) EXCEPT !.plan = "direct"]
  BY DEF RelevanceCheck
<1>2. QED
  BY <1>1, NotedType DEF Channels, Plans

\* An answer of a turn of the channels is an answer.
LEMMA AnswerType ==
  ASSUME NEW c \in Channels, NEW t \in Turn,
         NEW a \in {NoAnswer, [turn |-> c.question, basis |-> t]}
  PROVE  a \in Answer
BY DEF Channels, Answer, NoAnswer, Turn

\* The generator writes an answer and a note.
LEMMA GeneratorType ==
  ASSUME NEW c \in Channels, NEW d \in Generator(c)
  PROVE  d \in Channels
<1>1. PICK a \in {NoAnswer, [turn |-> c.question, basis |-> c.documents]} :
         d = [Noted(c) EXCEPT !.answer = a]
  BY DEF Generator
<1>2. c.documents \in Turn
  BY DEF Channels
<1>3. a \in Answer
  BY <1>2, AnswerType
<1>4. QED
  BY <1>1, <1>3, NotedType DEF Channels

\* The grader writes a verdict, counts it, and writes a note.
LEMMA GraderType ==
  ASSUME NEW c \in Channels, NEW d \in Grader(c)
  PROVE  d \in Channels
<1> DEFINE e == Noted(c)
<1>1. \E fail \in BOOLEAN :
         \/ d = [e EXCEPT !.gradingFeedback = fail, !.retryCount = @ + 1]
         \/ d = [e EXCEPT !.gradingFeedback = fail]
  BY DEF Grader
<1>2. e \in Channels /\ e.retryCount + 1 \in Nat
  BY NotedType DEF Channels
<1>3. QED
  BY <1>1, <1>2 DEF Channels

\* The tool-calling node appends a message and a note.
LEMMA ToolsCallerType ==
  ASSUME NEW c \in Channels, NEW d \in ToolsCaller(c)
  PROVE  d \in Channels
<1> DEFINE e == Noted(c)
           msg(calls) == [role |-> "ai", turn |-> c.question, calls |-> calls]
<1>1. PICK calls \in ToolCalls :
         d = [e EXCEPT !.messages = Append(e.messages, msg(calls))]
  BY DEF ToolsCaller
<1>2. msg(calls) \in Message
  BY ChannelAssumption DEF Message, Channels
<1>3. e \in Channels /\ e.messages \in Seq(Message)
  BY NotedType DEF Channels
<1>4. Append(e.messages, msg(calls)) \in Seq(Message)
  BY <1>2, <1>3
<1>5. QED
  BY <1>1, <1>3, <1>4 DEF Channels

\* The executor appends the results of the calls of the last message.
LEMMA ToolsExecutorType ==
  ASSUME NEW c \in Channels, Len(c.messages) > 0, NEW d \in ToolsExecutor(c)
  PROVE  d \in Channels
<1>1. d = [c EXCEPT !.messages = @ \o ToolResults(LastMessage(c))]
  BY DEF ToolsExecutor
<1>2. ToolResults(LastMessage(c)) \in Seq(Message)
  BY LastMessageType, ToolResultsType
<1>3. c.messages \o ToolResults(LastMessage(c)) \in Seq(Message)
  BY <1>2 DEF Channels
<1>4. QED
  BY <1>1, <1>3 DEF Channels

\* The result node writes an answer and a note.
LEMMA ToolsResultType ==
  ASSUME NEW c \in Channels, Len(c.messages) > 0, NEW d \in ToolsResult(c)
  PROVE  d \in Channels
<1>1. PICK a \in {NoAnswer, [turn |-> c.question, basis |-> LastMessage(c).turn]} :
         d = [Noted(c) EXCEPT !.answer = a]
  BY DEF ToolsResult
<1>2. LastMessage(c).turn \in Turn
  BY LastMessageType DEF Message
<1>3. a \in Answer
  BY <1>2, AnswerType
<1>4. QED
  BY <1>1, <1>3, NotedType DEF Channels

\* Every node, given channels of the right type, leaves such channels.
LEMMA NodeResultType ==
  ASSUME NEW n \in Nodes, NEW c \in Channels, NEW d \in NodeResults(n, c),
         n \in {"tools_executor", "tools_result"} => Len(c.messages) > 0
  PROVE  d \in Channels
<1>1. CASE n \in {"planner", "query_rewriter", "search"}
  BY <1>1, NodeResultsAt, PlannerType, QueryRewriterType, SearchType
<1>2. CASE n \in {"relevance_check", "generator", "grader"}
  BY <1>2, NodeResultsAt, RelevanceCheckType, GeneratorType, GraderType
<1>3. CASE n \in {"tools_caller", "tools_executor", "tools_result"}
  BY <1>3, NodeResultsAt, ToolsCallerType, ToolsExecutorType, ToolsResultType
<1>4. QED
  BY <1>1, <1>2, <1>3 DEF Nodes

\* Every edge leads to a node or to the end.
LEMMA SuccessorType ==
  ASSUME NEW n \in Nodes, NEW c \in Channels
  PROVE  Successor(n, c) \in Nodes \cup {END}
BY DEF Successor, RouteAfterPlan, RouteAfterGrading, Nodes, END

\* The checkpoint of a superstep is well formed.
LEMMA AdvancedType ==
  ASSUME NEW cp \in Checkpoint, cp.next \in Nodes, ToolTurn(cp),
         NEW d \in NodeResults(cp.next, cp.chan)
  PROVE  d \in Channels /\ Advanced(cp, cp.next, d) \in Checkpoint
<1>1. cp.chan \in Channels /\ cp.gens \in Nat
  BY DEF Checkpoint
<1>2. d \in Channels
  BY <1>1, NodeResultType DEF ToolTurn
<1>3. Successor(cp.next, d) \in Nodes \cup {END}
  BY <1>2, SuccessorType
<1>4. QED
  BY <1>1, <1>2, <1>3 DEF Advanced, Checkpoint

\* What a superstep of node n may change, channel by channel.
NodeEffect(n, c, d) ==
  /\ d.question = c.question
  /\ IF n = "search"
       THEN d.documents \in {c.question, NoTurn} /\ d.sources = d.documents
       ELSE d.documents = c.documents /\ d.sources = c.sources
  /\ CASE n = "generator" ->
            d.answer \in {NoAnswer, [turn |-> c.question, basis |-> c.documents]}
       [] n = "tools_result" ->
            d.answer \in {NoAnswer,
                          [turn |-> c.question, basis |-> LastMessage(c).turn]}
       [] OTHER -> d.answer = c.answer
  /\ CASE n = "tools_caller" ->
            Len(d.messages) > 0 /\ LastMessage(d).turn = c.question
       [] n = "tools_executor" ->
            Len(d.messages) > 0 /\ LastMessage(d).turn = LastMessage(c).turn
       [] OTHER -> d.messages = c.messages
  /\ CASE n = "planner" -> d.plan \in {"tools", "search", "direct"}
       [] n = "relevance_check" ->
            d.plan = "direct" \/ (d.plan = c.plan /\ c.documents # NoTurn)
       [] OTHER -> d.plan = c.plan
  /\ IF n = "grader"
       THEN \/ d.retryCount = c.retryCount + 1
            \/ d.retryCount = c.retryCount /\ d.gradingFeedback = FALSE
       ELSE d.retryCount = c.retryCount

\* The last of the results of some calls, or the message before them.
LEMMA ToolsExecutorEffect ==
  ASSUME NEW c \in Channels, Len(c.messages) > 0, NEW d \in ToolsExecutor(c)
  PROVE  Len(d.messages) > 0 /\ LastMessage(d).turn = LastMessage(c).turn
<1> DEFINE m == LastMessage(c)
           results == ToolResults(m)
<1>1. m \in Message /\ results \in Seq(Message)
  BY LastMessageType, ToolResultsType
<1>2. c.messages \in Seq(Message) /\ d.messages = c.messages \o results
  BY DEF ToolsExecutor, Channels
<1>3. Len(d.messages) = Len(c.messages) + Len(results)
  BY <1>1, <1>2
<1>4. Len(c.messages) \in Nat /\ Len(results) \in Nat
  BY <1>1, <1>2
<1>5. CASE Len(results) = 0
  <2>1. d.messages[Len(d.messages)] = c.messages[Len(c.messages)]
    BY <1>1, <1>2, <1>3, <1>4, <1>5
  <2>2. QED
    BY <1>3, <1>4, <1>5, <2>1 DEF LastMessage
<1>6. CASE Len(results) > 0
  <2>1. d.messages[Len(c.messages) + Len(results)] = results[Len(results)]
    BY <1>1, <1>2, <1>4, <1>6
  <2>2. Len(results) \in 1..Len(m.calls)
    BY <1>1, <1>4, <1>6, ToolResultsType
  <2>3. results[Len(results)].turn = m.turn
    BY <1>1, <2>2, ToolResultsType
  <2>4. QED
    <3>1. LastMessage(d) = results[Len(results)]
      BY <1>3, <2>1 DEF LastMessage
    <3>2. QED
      BY <1>3, <1>4, <1>6, <2>3, <3>1
<1>7. QED
  BY <1>4, <1>5, <1>6

\* After tools_caller the last message is the one it appended, of this turn.
LEMMA ToolsCallerEffect ==
  ASSUME NEW c \in Channels, NEW d \in ToolsCaller(c)
  PROVE  Len(d.messages) > 0 /\ LastMessage(d).turn = c.question
<1> DEFINE e == Noted(c)
           msg(calls) == [role |-> "ai", turn |-> c.question, calls |-> calls]
<1>1. PICK calls \in ToolCalls :
         d = [e EXCEPT !.messages = Append(e.messages, msg(calls))]
  BY DEF ToolsCaller
<1>2. e \in Channels /\ e.messages \in Seq(Message)
  BY NotedType DEF Channels
<1>3. d.messages = Append(e.messages, msg(calls))
  BY <1>1, <1>2 DEF Channels
<1>4. /\ Len(d.messages) = Len(e.messages) + 1
      /\ d.messages[Len(e.messages) + 1] = msg(calls)
      /\ Len(e.messages) \in Nat
  BY <1>2, <1>3
<1>5. QED
  BY <1>4 DEF LastMessage

\* A superstep has the effect of its node.
LEMMA NodeHasEffect ==
  ASSUME NEW n \in Nodes, NEW c \in Channels, NEW d \in NodeResults(n, c),
         n \in {"tools_executor", "tools_result"} => Len(c.messages) > 0
  PROVE  NodeEffect(n, c, d)
<1> DEFINE e == Noted(c)
<1>1. e \in Channels
  BY NotedType
<1>2. /\ e.question = c.question /\ e.documents = c.documents
      /\ e.sources = c.sources /\ e.answer = c.answer
      /\ e.messages = c.messages /\ e.plan = c.plan
      /\ e.retryCount = c.retryCount
  BY NotedType DEF Channels
<1>3. CASE n = "planner"
  <2>1. d \in Planner(c)
    BY <1>3, NodeResultsAt
  <2>2. PICK p \in {"tools", "search", "direct"} : d = [e EXCEPT !.plan = p]
    BY <2>1 DEF Planner
  <2>3. QED
    BY <1>1, <1>2, <1>3, <2>2 DEF NodeEffect, Channels
<1>4. CASE n = "query_rewriter"
  <2>1. d \in QueryRewriter(c)
    BY <1>4, NodeResultsAt
  <2>2. PICK q : d = [e EXCEPT !.searchQuery = q]
    BY <2>1 DEF QueryRewriter
  <2>3. QED
    BY <1>1, <1>2, <1>4, <2>2 DEF NodeEffect, Channels
<1>5. CASE n = "search"
  <2>1. d \in Search(c)
    BY <1>5, NodeResultsAt
  <2>2. PICK x \in {c.question, NoTurn} :
           d = [e EXCEPT !.documents = x, !.sources = x]
    BY <2>1 DEF Search
  <2>3. QED
    BY <1>1, <1>2, <1>5, <2>2 DEF NodeEffect, Channels
<1>6. CASE n = "relevance_check"
  <2>1. d \in RelevanceCheck(c)
    BY <1>6, NodeResultsAt
  <2>2. d = [e EXCEPT !.plan = "direct"] \/ (d = e /\ c.documents # NoTurn)
    BY <2>1 DEF RelevanceCheck
  <2>3. QED
    BY <1>1, <1>2, <1>6, <2>2 DEF NodeEffect, Channels
<1>7. CASE n = "generator"
  <2>1. d \in Generator(c)
    BY <1>7, NodeResultsAt
  <2>2. PICK a \in {NoAnswer, [turn |-> c.question, basis |-> c.documents]} :
           d = [e EXCEPT !.answer = a]
    BY <2>1 DEF Generator
  <2>3. QED
    BY <1>1, <1>2, <1>7, <2>2 DEF NodeEffect, Channels
<1>8. CASE n = "grader"
  <2>1. d \in Grader(c)
    BY <1>8, NodeResultsAt
  <2>2. PICK fail \in BOOLEAN :
           \/ d = [e EXCEPT !.gradingFeedback = fail, !.retryCount = @ + 1]
           \/ d = [e EXCEPT !.gradingFeedback = FALSE]
    BY <2>1 DEF Grader
  <2>3. QED
    BY <1>1, <1>2, <1>8, <2>2 DEF NodeEffect, Channels
<1>9. CASE n = "tools_caller"
  <2>1. d \in ToolsCaller(c)
    BY <1>9, NodeResultsAt
  <2>2. PICK m : d = [e EXCEPT !.messages = m]
    BY <2>1 DEF ToolsCaller
  <2>3. Len(d.messages) > 0 /\ LastMessage(d).turn = c.question
    BY <2>1, ToolsCallerEffect
  <2>4. QED
    BY <1>1, <1>2, <1>9, <2>2, <2>3 DEF NodeEffect, Channels
<1>10. CASE n = "tools_executor"
  <2>1. d \in ToolsExecutor(c)
    BY <1>10, NodeResultsAt
  <2>2. PICK m : d = [c EXCEPT !.messages = m]
    BY <2>1 DEF ToolsExecutor
  <2>3. Len(d.messages) > 0 /\ LastMessage(d).turn = LastMessage(c).turn
    BY <1>10, <2>1, ToolsExecutorEffect
  <2>4. QED
    BY <1>10, <2>2, <2>3 DEF NodeEffect, Channels
<1>11. CASE n = "tools_result"
  <2>1. d \in ToolsResult(c)
    BY <1>11, NodeResultsAt
  <2>2. PICK a \in {NoAnswer,
                    [turn |-> c.question, basis |-> LastMessage(c).turn]} :
           d = [e EXCEPT !.answer = a]
    BY <2>1 DEF ToolsResult
  <2>3. QED
    BY <1>1, <1>2, <1>11, <2>2 DEF NodeEffect, Channels
<1>12. QED
  BY <1>3, <1>4, <1>5, <1>6, <1>7, <1>8, <1>9, <1>10, <1>11 DEF Nodes

\* A superstep leads from a good checkpoint to a good checkpoint, of the same turn.
LEMMA SuperstepKeepsInv ==
  ASSUME NEW cp \in Checkpoint, CheckpointInv(cp), cp.next \in Nodes,
         NEW d \in NodeResults(cp.next, cp.chan)
  PROVE  /\ Advanced(cp, cp.next, d) \in Checkpoint
         /\ CheckpointInv(Advanced(cp, cp.next, d))
         /\ d \in Channels
         /\ d.question = cp.chan.question
<1> DEFINE n == cp.next
           c == cp.chan
           next == Successor(n, d)
           cp2 == Advanced(cp, n, d)
<1>1. c \in Channels /\ cp.gens \in Nat
  BY DEF Checkpoint
<1>2. d \in Channels /\ cp2 \in Checkpoint
  BY AdvancedType DEF CheckpointInv
<1>3. NodeEffect(n, c, d)
  BY <1>1, NodeHasEffect DEF CheckpointInv, ToolTurn
<1>4. /\ cp2.chan = d /\ cp2.next = next
      /\ cp2.gens = IF n = "generator" THEN cp.gens + 1 ELSE cp.gens
  BY DEF Advanced, CheckpointInv, Counted
<1>5. OneTurn(d)
  <2>1. OneTurn(c)
    BY DEF CheckpointInv
  <2>2. n = "tools_result" => LastMessage(c).turn = c.question
    BY DEF CheckpointInv, ToolTurn
  <2>3. {d.documents, d.sources} \subseteq {NoTurn, d.question}
    BY <1>3, <2>1 DEF NodeEffect, OneTurn
  <2>4. \/ d.answer = c.answer
        \/ d.answer = NoAnswer
        \/ d.answer = [turn |-> c.question, basis |-> c.documents]
        \/ d.answer = [turn |-> c.question, basis |-> c.question]
    BY <1>3, <2>2 DEF NodeEffect
  <2>5. {d.answer.turn, d.answer.basis} \subseteq {NoTurn, d.question}
    BY <1>3, <2>1, <2>4 DEF NodeEffect, OneTurn, NoAnswer
  <2>6. QED
    BY <2>3, <2>5 DEF OneTurn
<1>6. ToolTurn(cp2)
  <2>1. next = "tools_executor" => n = "tools_caller"
    BY DEF Successor, RouteAfterPlan, RouteAfterGrading, Nodes, END
  <2>2. next = "tools_result" => n = "tools_executor"
    BY DEF Successor, RouteAfterPlan, RouteAfterGrading, Nodes, END
  <2>3. CASE n = "tools_caller"
    BY <1>3, <1>4, <2>3 DEF NodeEffect, ToolTurn
  <2>4. CASE n = "tools_executor"
    BY <1>3, <1>4, <2>4 DEF NodeEffect, ToolTurn, CheckpointInv
  <2>5. QED
    BY <1>4, <2>1, <2>2, <2>3, <2>4 DEF ToolTurn
<1>7. Planned(cp2)
  <2>1. next = "generator" => n \in {"planner", "relevance_check", "grader"}
    BY DEF Successor, RouteAfterPlan, RouteAfterGrading, Nodes, END
  <2>2. next = "grader" => n = "generator"
    BY DEF Successor, RouteAfterPlan, RouteAfterGrading, Nodes, END
  <2>3. CASE n = "planner"
    <3>1. next = "generator" => d.plan = "direct"
      BY <1>3, <2>3 DEF NodeEffect, Successor, RouteAfterPlan
    <3>2. QED
      BY <1>4, <2>2, <2>3, <3>1 DEF Planned
  <2>4. CASE n = "relevance_check"
    <3>1. d.plan = "direct" \/ d.documents = d.question
      BY <1>3, <2>4 DEF NodeEffect, CheckpointInv, OneTurn
    <3>2. QED
      BY <1>4, <3>1 DEF Planned
  <2>5. CASE n \in {"generator", "grader"}
    BY <1>3, <1>4, <2>5 DEF NodeEffect, CheckpointInv, Planned
  <2>6. QED
    BY <1>4, <2>1, <2>2, <2>3, <2>4, <2>5 DEF Planned
<1>8. Counted(cp2)
  <2> MaxRetries \in Nat \ {0}
    BY ChannelAssumption
  <2>1. c.retryCount \in Nat /\ d.retryCount \in Nat
    BY <1>1, <1>2 DEF Channels
  <2>2. Counted(cp)
    BY DEF CheckpointInv
  <2>3. CASE n = "generator"
    <3>1. next = "grader" /\ d.retryCount = c.retryCount
      BY <1>3, <2>3 DEF Successor, NodeEffect
    <3>2. QED
      BY <1>1, <1>4, <2>1, <2>2, <2>3, <3>1 DEF Counted, END
  <2>4. CASE n = "grader"
    <3>1. \/ next = "generator" /\ d.retryCount < MaxRetries /\ d.gradingFeedback
          \/ next = END
      BY <2>4 DEF Successor, RouteAfterGrading
    <3>2. next = "generator" => d.retryCount = c.retryCount + 1
      BY <1>3, <2>4, <3>1 DEF NodeEffect, END
    <3>3. QED
      BY <1>1, <1>4, <2>1, <2>2, <2>4, <3>1, <3>2 DEF Counted, END
  <2>5. CASE n \notin {"generator", "grader"}
    <3>1. next # "grader"
      BY <2>5 DEF Successor, RouteAfterPlan, Nodes, END
    <3>2. cp2.gens = 0
      BY <1>4, <2>2, <2>5 DEF Counted, Nodes, END
    <3>3. QED
      BY <1>4, <3>1, <3>2 DEF Counted
  <2>6. QED
    BY <2>3, <2>4, <2>5
<1>9. QED
  BY <1>2, <1>3, <1>4, <1>5, <1>6, <1>7, <1>8 DEF CheckpointInv, NodeEffect

-----------------------------------------------------------------------------
(* What a client is shown.                                                  *)

\* A non-empty set of positions in a list has a last one.
LEMMA LastPosition ==
  ASSUME NEW n \in Nat, NEW S \in SUBSET (1..n), S # {}
  PROVE  \E i \in S : \A j \in S : j <= i
<1> DEFINE fromEnd == {n - i : i \in S}
<1>1. fromEnd \subseteq Nat /\ fromEnd # {}
  <2>1. \A i \in S : n - i \in Nat
    OBVIOUS
  <2>2. QED
    BY <2>1
<1>2. \E x \in fromEnd : \A y \in fromEnd : ~(<<y, x>> \in OpToRel(<, Nat))
  <2> HIDE DEF fromEnd
  <2>1. QED
    BY <1>1, NatLessThanWellFounded, WFMin
<1>3. PICK x \in fromEnd : \A y \in fromEnd : x <= y
  <2>1. PICK x \in fromEnd : \A y \in fromEnd : ~(<<y, x>> \in OpToRel(<, Nat))
    BY <1>2
  <2>2. ASSUME NEW y \in fromEnd PROVE ~(y < x)
    <3> HIDE DEF fromEnd
    <3>1. <<y, x>> \in Nat \X Nat
      BY <1>1
    <3>2. y < x => <<y, x>> \in OpToRel(<, Nat)
      BY <3>1 DEF OpToRel
    <3>3. QED
      BY <2>1, <3>2
  <2>3. x \in Nat /\ \A y \in fromEnd : y \in Nat
    BY <1>1
  <2>4. QED
    <3> HIDE DEF fromEnd
    <3>1. QED
      BY <2>2, <2>3
<1>4. PICK i \in S : x = n - i
  BY <1>1
<1>5. \A j \in S : j <= i
  BY <1>3, <1>4
<1>6. QED
  BY <1>5

\* The pending action is well formed, whatever the messages are.
LEMMA PendingActionType ==
  ASSUME NEW c \in Channels
  PROVE  PendingAction(c) \in Pending
<1> DEFINE calling == {i \in DOMAIN c.messages : c.messages[i].calls # <<>>}
           pos == CHOOSE i \in calling : \A j \in calling : j <= i
<1>1. c.messages \in Seq(Message)
  BY DEF Channels
<1>2. calling \in SUBSET (1..Len(c.messages)) /\ Len(c.messages) \in Nat
  BY <1>1
<1>3. CASE calling = {}
  BY <1>3 DEF PendingAction, NoPending, Pending, Turn
<1>4. CASE calling # {}
  <2>1. pos \in calling
    BY <1>2, <1>4, LastPosition
  <2>2. c.messages[pos] \in Message /\ c.messages[pos].calls # <<>>
    <3> HIDE DEF pos
    <3>1. QED
      BY <1>1, <2>1
  <2>3. Head(c.messages[pos].calls) \in Tools /\ c.messages[pos].turn \in Turn
    BY <2>2 DEF Message
  <2>4. PendingAction(c) = [turn |-> c.messages[pos].turn,
                            tool |-> Head(c.messages[pos].calls)]
    BY <1>4, Zenon DEF PendingAction
  <2>5. QED
    BY <2>3, <2>4 DEF Pending
<1>5. QED
  BY <1>3, <1>4

\* The calls of a non-empty list of messages are well formed.
LEMMA CallsType ==
  ASSUME NEW c \in Channels, Len(c.messages) > 0
  PROVE  Calls(c) \subseteq Pending
<1>1. LastMessage(c) \in Message
  BY LastMessageType
<1>2. \A i \in DOMAIN LastMessage(c).calls : LastMessage(c).calls[i] \in Tools
  BY <1>1 DEF Message
<1>3. QED
  BY <1>1, <1>2 DEF Calls, Pending, Message

-----------------------------------------------------------------------------
(* The inductive invariant.                                                 *)

\* A checkpoint waiting for the tools has announced its calls.
CallsAsked(cp) == cp.next = "tools_executor" => Calls(cp.chan) \subseteq Asked

\* Turns stay on the thread they were asked on.
TurnAt(turn, t) == turn \in Requests => on[turn] = t

StoredInv ==
  \A t \in Threads :
    /\ CheckpointInv(thread[t])
    /\ CallsAsked(thread[t])
    /\ TurnAt(thread[t].chan.question, t)

\* The checkpoints a run holds: its copy, and those that are to be put.
Copies(loc) == {loc.cp} \cup {loc.unstored[i] : i \in DOMAIN loc.unstored}

\* What a run on thread t holds is good and of the thread; until its first superstep
\* it stands where the thread stood, before tools that were asked for.
GoodRun(loc, t) ==
  /\ \A cp \in Copies(loc) : CheckpointInv(cp) /\ TurnAt(cp.chan.question, t)
  /\ ~loc.stepped => CallsAsked(loc.cp)
  /\ {loc.answer.turn, loc.answer.basis, loc.sources}
       \subseteq {NoTurn, loc.cp.chan.question}

RunInv == \A r \in Requests : GoodRun(run[r], on[r])

\* A chat's run is about its own turn and stands before the tools only to stop.
ChatInv ==
  \A r \in Requests :
    kind[r] \in ChatKinds =>
      /\ pc[r] \in {"running", "getState", "record"} =>
           run[r].cp.chan.question = r
      /\ pc[r] = "running" /\ run[r].cp.next = "tools_executor" => run[r].stepped

ServiceInv ==
  TypeOK /\ StoredInv /\ RunInv /\ ChatInv /\ GatedExecution /\ ReplyIsOneTurn

\* The empty thread and the locals of a request that is not running.
LEMMA EmptyThreadInv ==
  /\ EmptyThread \in Checkpoint /\ CheckpointInv(EmptyThread)
  /\ EmptyThread.next # "tools_executor"
  /\ EmptyThread.chan.question = NoTurn
<1>1. EmptyChannels \in Channels /\ OneTurn(EmptyChannels)
  BY EmptyChannelsType
<1>2. /\ EmptyThread.chan = EmptyChannels /\ EmptyThread.next = END
      /\ EmptyThread.gens = 0
  BY DEF EmptyThread
<1>3. EmptyThread \in Checkpoint
  BY <1>1 DEF EmptyThread, Checkpoint
<1>4. CheckpointInv(EmptyThread)
  <2>1. MaxRetries \in Nat
    BY ChannelAssumption
  <2>2. Counted(EmptyThread)
    BY <1>2, <2>1 DEF Counted, END
  <2>3. ToolTurn(EmptyThread) /\ Planned(EmptyThread)
    BY <1>2 DEF ToolTurn, Planned, END
  <2>4. QED
    BY <1>1, <1>2, <2>2, <2>3 DEF CheckpointInv
<1>5. EmptyThread.chan.question = NoTurn
  <2>1. EmptyChannels.question = NoTurn
    BY Zenon DEF EmptyChannels
  <2>2. QED
    BY <1>2, <2>1
<1>6. EmptyThread.next # "tools_executor"
  BY <1>2 DEF END
<1>7. QED
  BY <1>3, <1>4, <1>5, <1>6

\* The locals of a request without a graph run.
LEMMA NullRunInv ==
  /\ NullRun \in Run /\ NullRun.cp = EmptyThread
  /\ NullRun.unstored = <<>> /\ ~NullRun.stepped
  /\ {NullRun.answer.turn, NullRun.answer.basis, NullRun.sources} = {NoTurn}
<1>1. EmptyThread \in Checkpoint /\ <<>> \in Seq(Checkpoint)
  BY EmptyThreadInv
<1>2. QED
  BY <1>1 DEF NullRun, Run, NoAnswer, Answer, Turn

\* A run that is over, or has not begun, is good.
LEMMA NullRunIsGood ==
  ASSUME NEW t
  PROVE  GoodRun(NullRun, t)
<1>1. Copies(NullRun) = {EmptyThread}
  BY NullRunInv DEF Copies
<1>2. CallsAsked(EmptyThread) /\ TurnAt(EmptyThread.chan.question, t)
  BY EmptyThreadInv, ChannelAssumption DEF CallsAsked, TurnAt
<1>3. QED
  BY <1>1, <1>2, NullRunInv, EmptyThreadInv DEF GoodRun

\* Calls that were asked for stay so.
LEMMA StaysGood ==
  ASSUME NEW loc, NEW t, GoodRun(loc, t), UNCHANGED on, Asked \subseteq Asked'
  PROVE  GoodRun(loc, t)'
BY DEF GoodRun, CallsAsked, TurnAt

\* One request's run changes, to a good one.
LEMMA OneRunChanges ==
  ASSUME TypeOK, RunInv, NEW r \in Requests, NEW loc, UNCHANGED on,
         run' = [run EXCEPT ![r] = loc], Asked \subseteq Asked',
         GoodRun(loc, on[r])
  PROVE  RunInv'
<1> SUFFICES ASSUME NEW q \in Requests
             PROVE  GoodRun(run[q], on[q])'
  BY DEF RunInv
<1>1. CASE q = r
  <2>1. run'[q] = loc /\ on'[q] = on[r]
    BY <1>1 DEF TypeOK
  <2>2. QED
    BY <2>1, StaysGood DEF GoodRun, CallsAsked, TurnAt
<1>2. CASE q # r
  <2>1. run'[q] = run[q] /\ on'[q] = on[q]
    BY <1>2 DEF TypeOK
  <2>2. GoodRun(run[q], on[q])
    BY DEF RunInv
  <2>3. QED
    BY <2>1, <2>2, StaysGood DEF GoodRun, CallsAsked, TurnAt
<1>3. QED
  BY <1>1, <1>2

\* Steps that leave the threads and the runs alone.
LEMMA NothingStored ==
  ASSUME UNCHANGED <<thread, on, asked>>
  PROVE  /\ StoredInv => StoredInv'
         /\ UNCHANGED run /\ RunInv => RunInv'
         /\ Asked' = Asked
<1>1. Asked' = Asked
  BY DEF Asked
<1>2. StoredInv => StoredInv'
  BY <1>1 DEF StoredInv, CallsAsked, TurnAt
<1>3. UNCHANGED run /\ RunInv => RunInv'
  BY <1>1 DEF RunInv, GoodRun, CallsAsked, TurnAt
<1>4. QED
  BY <1>1, <1>2, <1>3

\* The reply before the reply, and the pending action of a thread without one.
LEMMA NoReplyType ==
  /\ NoPending \in Pending
  /\ NoReply \in Reply
  /\ {NoReply.answer.turn, NoReply.answer.basis, NoReply.sources} = {NoTurn}
<1>1. NoPending \in Pending
  BY DEF NoPending, Pending, Turn
<1>2. NoAnswer \in Answer /\ {} \in SUBSET Turn /\ NoTurn \in Turn
  BY DEF NoAnswer, Answer, Turn
<1>3. QED
  BY <1>1, <1>2 DEF NoReply, Reply, NoAnswer

\* The system starts in a good state.
LEMMA InitKeepsInv == Init => ServiceInv
<1> SUFFICES ASSUME Init PROVE ServiceInv
  OBVIOUS
<1>1. TypeOK
  BY EmptyThreadInv, NullRunInv, NoReplyType DEF Init, TypeOK, Awaits
<1>2. StoredInv
  BY EmptyThreadInv, ChannelAssumption DEF Init, StoredInv, CallsAsked, TurnAt
<1>3. RunInv
  <2>1. \A r \in Requests : run[r] = NullRun
    BY DEF Init
  <2>2. QED
    BY <2>1, NullRunIsGood DEF RunInv
<1>4. ChatInv /\ GatedExecution
  BY DEF Init, ChatInv, GatedExecution
<1>5. ReplyIsOneTurn
  BY NoReplyType DEF Init, ReplyIsOneTurn, AboutOneTurn
<1>6. QED
  BY <1>1, <1>2, <1>3, <1>4, <1>5 DEF ServiceInv

\* A request that ends, with a reply about one turn, keeps the invariant,
\* whatever it leaves in memory, stores and shows to clients.
LEMMA EndKeepsInv ==
  ASSUME ServiceInv, NEW r \in Requests, NEW rep \in Reply, AboutOneTurn(r, rep),
         End(r, rep), UNCHANGED <<kind, on, approved, ran, crashes>>,
         thread' \in [Threads -> Checkpoint], asked' \in [Requests -> SUBSET Pending],
         StoredInv', Asked \subseteq Asked',
         memory' \subseteq {"user", "assistant"} \X Requests,
         shown' \in [Threads -> Pending]
  PROVE  ServiceInv'
<1> USE DEF ServiceInv
<1>1. /\ pc' = [pc EXCEPT ![r] = "done"]
      /\ run' = [run EXCEPT ![r] = NullRun]
      /\ reply' = [reply EXCEPT ![r] = rep]
  BY DEF End
<1>2. TypeOK'
  BY <1>1, NullRunInv DEF TypeOK
<1>3. RunInv'
  <2>1. GoodRun(NullRun, on[r])
    BY NullRunIsGood
  <2>2. QED
    <3> HIDE DEF ServiceInv
    <3>1. TypeOK /\ RunInv
      BY DEF ServiceInv
    <3>2. QED
      BY <1>1, <2>1, <3>1, OneRunChanges
<1>4. ChatInv'
  BY <1>1 DEF ChatInv, TypeOK
<1>5. GatedExecution'
  BY DEF GatedExecution
<1>6. ReplyIsOneTurn'
  BY <1>1 DEF ReplyIsOneTurn, AboutOneTurn, TypeOK
<1>7. QED
  BY <1>2, <1>3, <1>4, <1>5, <1>6

\* The same for a request that stores nothing as it ends.
LEMMA EndStoringNothing ==
  ASSUME ServiceInv, NEW r \in Requests, NEW rep \in Reply, AboutOneTurn(r, rep),
         End(r, rep), UNCHANGED <<thread, kind, on, approved, asked, ran, crashes>>,
         memory' \subseteq {"user", "assistant"} \X Requests,
         shown' \in [Threads -> Pending]
  PROVE  ServiceInv'
<1>1. /\ thread' \in [Threads -> Checkpoint]
      /\ asked' \in [Requests -> SUBSET Pending]
  BY DEF ServiceInv, TypeOK
<1>2. StoredInv' /\ Asked' = Asked
  BY NothingStored DEF ServiceInv
<1>3. QED
  BY <1>1, <1>2, EndKeepsInv

\* The answer of a request that throws is about no turn.
LEMMA ErrorIsOneTurn ==
  ASSUME ServiceInv, NEW r \in Requests
  PROVE  LET rep == [NoReply EXCEPT !.status = "error", !.stepped = run[r].stepped]
         IN rep \in Reply /\ AboutOneTurn(r, rep)
<1> DEFINE rep == [NoReply EXCEPT !.status = "error", !.stepped = run[r].stepped]
<1>1. run[r].stepped \in BOOLEAN
  BY DEF ServiceInv, TypeOK, Run
<1>2. rep \in Reply
  BY <1>1, NoReplyType DEF Reply
<1>3. {rep.answer.turn, rep.answer.basis, rep.sources} = {NoTurn}
  BY NoReplyType DEF NoReply
<1>4. AboutOneTurn(r, rep)
  BY <1>3 DEF AboutOneTurn
<1>5. QED
  BY <1>2, <1>4

\* An error, whatever was already done, keeps the invariant.
LEMMA FailKeepsInv ==
  ASSUME ServiceInv, NEW r \in Requests, NEW point, Fail(r, point),
         memory' \subseteq {"user", "assistant"} \X Requests
  PROVE  ServiceInv'
<1> DEFINE rep == [NoReply EXCEPT !.status = "error", !.stepped = run[r].stepped]
<1>1. rep \in Reply /\ AboutOneTurn(r, rep)
  BY ErrorIsOneTurn
<1>2. End(r, rep) /\ UNCHANGED <<thread, kind, on, shown, approved, asked, ran, crashes>>
  BY DEF Fail
<1>3. shown' \in [Threads -> Pending]
  BY <1>2 DEF ServiceInv, TypeOK
<1> HIDE DEF rep
<1>4. QED
  BY <1>1, <1>2, <1>3, EndStoringNothing

\* A client's call changes nothing but where its request is.
LEMMA ArriveKeepsInv ==
  ASSUME ServiceInv, NEW r \in Requests, Arrive(r)
  PROVE  ServiceInv'
<1> USE DEF ServiceInv
<1>1. /\ pc' = [pc EXCEPT ![r] = IF kind[r] \in ChatKinds THEN "prompt" ELSE "begin"]
      /\ approved' = [approved EXCEPT ![r] = shown[on[r]]]
      /\ UNCHANGED <<thread, kind, on, run, reply, memory, shown, asked, ran, crashes>>
  BY DEF Arrive
<1>2. TypeOK'
  BY <1>1 DEF TypeOK, Awaits
<1>3. ChatInv'
  BY <1>1 DEF ChatInv, TypeOK
<1>4. StoredInv' /\ RunInv' /\ Asked' = Asked
  BY <1>1, NothingStored
<1>5. GatedExecution' /\ ReplyIsOneTurn'
  BY <1>1, <1>4 DEF GatedExecution, ReplyIsOneTurn, AboutOneTurn
<1>6. QED
  BY <1>2, <1>3, <1>4, <1>5

\* The question enters the memory, whatever comes after.
LEMMA BuildPromptKeepsInv ==
  ASSUME ServiceInv, NEW r \in Requests, BuildPrompt(r)
  PROVE  ServiceInv'
<1>1. memory' \subseteq {"user", "assistant"} \X Requests
  BY DEF BuildPrompt, ServiceInv, TypeOK
<1>2. CASE Fail(r, "prompt")
  BY <1>1, <1>2, FailKeepsInv
<1>3. CASE /\ pc' = [pc EXCEPT ![r] = "begin"]
           /\ UNCHANGED <<thread, kind, on, run, reply, shown, approved, asked,
                          ran, crashes>>
  <2> USE <1>3 DEF ServiceInv
  <2>1. TypeOK'
    BY <1>1 DEF TypeOK, Awaits
  <2>2. ChatInv'
    BY DEF ChatInv, TypeOK
  <2>3. StoredInv' /\ RunInv' /\ GatedExecution' /\ ReplyIsOneTurn'
    BY NothingStored DEF GatedExecution, ReplyIsOneTurn, AboutOneTurn
  <2>4. QED
    BY <2>1, <2>2, <2>3
<1>4. QED
  BY <1>2, <1>3 DEF BuildPrompt

\* The checkpoint a run starts from is good when the stored one is.
LEMMA StartKeepsInv ==
  ASSUME NEW k, NEW cp \in Checkpoint, CheckpointInv(cp), NEW r \in Requests
  PROVE  /\ Started(k, cp, r) \in Checkpoint
         /\ CheckpointInv(Started(k, cp, r))
         /\ k \in ChatKinds => /\ Started(k, cp, r).chan.question = r
                               /\ Started(k, cp, r).next = "planner"
         /\ k \notin ChatKinds =>
              /\ Started(k, cp, r).chan.question = cp.chan.question
              /\ Started(k, cp, r).next = cp.next
              /\ Started(k, cp, r).chan.messages = cp.chan.messages
<1> DEFINE new == Started(k, cp, r)
<1>1. /\ cp.chan \in Channels /\ cp.next \in Nodes \cup {END} /\ cp.gens \in Nat
      /\ MaxRetries \in Nat
  BY ChannelAssumption DEF Checkpoint
<1>2. CASE k \in ChatKinds
  <2> DEFINE fresh == FreshInput(cp.chan, r)
  <2>1. new = [chan |-> fresh, next |-> "planner", gens |-> 0]
    BY <1>2 DEF Started
  <2>2. /\ cp.chan.messages \in Seq(Message) /\ cp.chan.retryCount \in Nat
        /\ NoAnswer \in Answer /\ r \in Turn /\ NoTurn \in Turn /\ "" \in Plans
    BY <1>1 DEF Channels, NoAnswer, Answer, Turn, Plans
  <2>3. fresh \in Channels
    <3>1. cp.chan.messages \o <<>> = cp.chan.messages
      BY <2>2, ConcatEmptySeq
    <3>2. cp.chan.retryCount + 0 = cp.chan.retryCount
      <4>1. \A x \in Nat : x + 0 = x
        OBVIOUS
      <4>2. cp.chan.retryCount \in Nat
        BY <2>2
      <4>3. QED
        BY <4>1, <4>2, Zenon
    <3>3. QED
      BY <1>1, <2>2, <3>1, <3>2 DEF FreshInput, Channels
  <2>4. /\ fresh.question = r /\ fresh.documents = NoTurn
        /\ fresh.sources = NoTurn /\ fresh.answer = NoAnswer
    BY <1>1 DEF FreshInput, Channels
  <2>5. OneTurn(fresh)
    BY <2>4 DEF OneTurn, NoAnswer
  <2>6. ToolTurn(new) /\ Planned(new) /\ Counted(new)
    BY <1>1, <2>1 DEF ToolTurn, Planned, Counted, END
  <2>7. QED
    BY <1>2, <2>1, <2>3, <2>4, <2>5, <2>6 DEF Checkpoint, CheckpointInv, Nodes
<1>3. CASE k \notin ChatKinds
  <2> DEFINE c == CommandInput(cp.chan, k \in RejectKinds)
  <2>1. /\ new.chan = c /\ new.next = cp.next /\ new.gens = cp.gens
        /\ new = [cp EXCEPT !.chan = c]
    BY <1>1, <1>3 DEF Started, Checkpoint
  <2>2. /\ c \in Channels /\ c.question = cp.chan.question
        /\ c.documents = cp.chan.documents /\ c.sources = cp.chan.sources
        /\ c.answer = cp.chan.answer /\ c.messages = cp.chan.messages
        /\ c.retryCount = cp.chan.retryCount
        /\ c.plan = cp.chan.plan \/ c.plan = "direct"
    BY <1>1 DEF CommandInput, Channels, Plans
  <2>3. new \in Checkpoint
    BY <2>1, <2>2 DEF Checkpoint
  <2>4. CheckpointInv(new)
    BY <2>1, <2>2
    DEF CheckpointInv, OneTurn, ToolTurn, LastMessage, Planned, Counted
  <2>5. QED
    BY <1>3, <2>1, <2>2, <2>3, <2>4
<1>4. QED
  BY <1>2, <1>3

\* The calls of a checkpoint depend on its messages only.
LEMMA CallsOfMessages ==
  ASSUME NEW c, NEW d, c.messages = d.messages
  PROVE  Calls(c) = Calls(d)
BY DEF Calls, LastMessage

\* A graph run starts from a checkpoint that is good (StartKeepsInv), stored or to
\* be put.
LEMMA BeginKeepsInv ==
  ASSUME ServiceInv, NEW r \in Requests, Begin(r)
  PROVE  ServiceInv'
<1> USE DEF ServiceInv
<1> DEFINE cp  == Started(kind[r], thread[on[r]], r)
           chat == kind[r] \in ChatKinds
           loc == [NullRun EXCEPT !.cp = cp, !.unstored = IF chat THEN <<cp>> ELSE <<>>]
<1>1. CASE Fail(r, "begin") /\ UNCHANGED memory
  BY <1>1, FailKeepsInv DEF TypeOK
<1>2. CASE ~Fail(r, "begin")
  <2>1. /\ run' = [run EXCEPT ![r] = loc]
        /\ thread' = IF chat THEN thread ELSE [thread EXCEPT ![on[r]] = cp]
        /\ pc' = [pc EXCEPT ![r] = "running"]
        /\ UNCHANGED <<kind, on, reply, memory, shown, approved, asked, ran, crashes>>
    BY <1>2, Zenon DEF Begin
  <2>2. /\ on[r] \in Threads /\ thread[on[r]] \in Checkpoint
        /\ CheckpointInv(thread[on[r]]) /\ CallsAsked(thread[on[r]])
        /\ TurnAt(thread[on[r]].chan.question, on[r])
    BY DEF TypeOK, StoredInv
  <2>3. /\ cp \in Checkpoint /\ CheckpointInv(cp)
        /\ chat => cp.chan.question = r /\ cp.next = "planner"
        /\ ~chat => /\ cp.chan.question = thread[on[r]].chan.question
                    /\ cp.next = thread[on[r]].next
                    /\ cp.chan.messages = thread[on[r]].chan.messages
    <3> HIDE DEF ServiceInv
    <3>1. QED
      BY <2>2, StartKeepsInv
  <2> HIDE DEF cp
  <2>4. TurnAt(cp.chan.question, on[r]) /\ CallsAsked(cp)
    BY <2>2, <2>3, CallsOfMessages DEF TurnAt, CallsAsked
  <2>5. /\ loc \in Run /\ loc.cp = cp /\ ~loc.stepped
        /\ loc.unstored = IF chat THEN <<cp>> ELSE <<>>
        /\ loc.answer = NullRun.answer /\ loc.sources = NullRun.sources
    <3>1. <<cp>> \in Seq(Checkpoint) /\ <<>> \in Seq(Checkpoint)
      BY <2>3
    <3>2. QED
      BY <2>3, <3>1, NullRunInv DEF Run
  <2>6. GoodRun(loc, on[r])
    <3>1. Copies(loc) = {cp}
      BY <2>5 DEF Copies
    <3>2. QED
      BY <2>3, <2>4, <2>5, <3>1, NullRunInv DEF GoodRun
  <2> HIDE DEF loc
  <2>7. Asked' = Asked
    BY <2>1 DEF Asked
  <2>8. TypeOK'
    BY <2>1, <2>2, <2>3, <2>5 DEF TypeOK
  <2>9. StoredInv'
    BY <2>1, <2>2, <2>3, <2>4, <2>7 DEF StoredInv, TypeOK, CallsAsked, TurnAt
  <2>10. RunInv'
    <3>1. TypeOK /\ RunInv
      OBVIOUS
    <3> HIDE DEF ServiceInv
    <3>2. QED
      BY <2>1, <2>6, <2>7, <3>1, OneRunChanges
  <2>11. ChatInv'
    BY <2>1, <2>3, <2>5 DEF ChatInv, TypeOK
  <2>12. GatedExecution' /\ ReplyIsOneTurn'
    BY <2>1, <2>7 DEF GatedExecution, ReplyIsOneTurn, AboutOneTurn
  <2>13. QED
    BY <2>8, <2>9, <2>10, <2>11, <2>12
<1>3. QED
  BY <1>1, <1>2 DEF Begin

\* What a superstep leaves of its run.
LEMMA StreamedType ==
  ASSUME NEW loc \in Run, NEW n, NEW cp \in Checkpoint
  PROVE  /\ Streamed(loc, n, cp) \in Run
         /\ Streamed(loc, n, cp).cp = cp
         /\ Streamed(loc, n, cp).unstored = Append(loc.unstored, cp)
         /\ Streamed(loc, n, cp).stepped
         /\ Streamed(loc, n, cp).answer \in {cp.chan.answer, loc.answer}
         /\ Streamed(loc, n, cp).sources \in {cp.chan.sources, loc.sources}
         /\ Copies(Streamed(loc, n, cp)) \subseteq Copies(loc) \cup {cp}
<1> DEFINE new == Streamed(loc, n, cp)
<1>1. /\ loc.unstored \in Seq(Checkpoint) /\ cp.chan \in Channels
      /\ loc.answer \in Answer /\ loc.sources \in Turn
  BY DEF Run, Checkpoint
<1>2. /\ Append(loc.unstored, cp) \in Seq(Checkpoint)
      /\ Len(Append(loc.unstored, cp)) = Len(loc.unstored) + 1
      /\ \A i \in 1..Len(loc.unstored) : Append(loc.unstored, cp)[i] = loc.unstored[i]
      /\ Append(loc.unstored, cp)[Len(loc.unstored) + 1] = cp
  BY <1>1, AppendProperties
<1>3. /\ new.cp = cp /\ new.unstored = Append(loc.unstored, cp) /\ new.stepped
      /\ new.answer \in {cp.chan.answer, loc.answer}
      /\ new.sources \in {cp.chan.sources, loc.sources}
  BY DEF Streamed
<1>4. new \in Run
  <2>1. cp.chan.answer \in Answer /\ cp.chan.sources \in Turn
    BY <1>1 DEF Channels
  <2>2. QED
    BY <1>1, <1>2, <2>1 DEF Streamed, Run
<1>5. Copies(new) \subseteq Copies(loc) \cup {cp}
  <2> SUFFICES ASSUME NEW i \in DOMAIN new.unstored
               PROVE  new.unstored[i] \in Copies(loc) \cup {cp}
    BY <1>3 DEF Copies
  <2>1. DOMAIN new.unstored = 1..Len(loc.unstored) + 1 /\ Len(loc.unstored) \in Nat
    BY <1>1, <1>2, <1>3
  <2>2. CASE i \in 1..Len(loc.unstored)
    <3>1. new.unstored[i] = loc.unstored[i] /\ i \in DOMAIN loc.unstored
      BY <1>1, <1>2, <1>3, <2>2
    <3>2. QED
      BY <3>1 DEF Copies
  <2>3. CASE i \notin 1..Len(loc.unstored)
    <3>1. i = Len(loc.unstored) + 1
      BY <2>1, <2>3
    <3>2. QED
      BY <1>2, <1>3, <3>1
  <2>4. QED
    BY <2>2, <2>3
<1>6. QED
  BY <1>3, <1>4, <1>5

\* A node runs, a tool with its effects, and its checkpoint is to be put.
LEMMA RunNodeKeepsInv ==
  ASSUME ServiceInv, NEW r \in Requests, RunNode(r)
  PROVE  ServiceInv'
<1> USE DEF ServiceInv
<1> DEFINE old == run[r].cp
           n == old.next
<1>1. CASE Fail(r, n) /\ UNCHANGED memory
  BY <1>1, FailKeepsInv DEF TypeOK
<1>2. CASE ~Fail(r, n)
  <2>1. /\ pc[r] = "running" /\ n # END /\ ~Paused(r)
        /\ ran' = IF n = "tools_executor" THEN [ran EXCEPT ![r] = Calls(old.chan)]
                                          ELSE ran
        /\ UNCHANGED <<thread, kind, on, pc, reply, memory, shown, approved, asked,
                       crashes>>
        /\ \E c \in NodeResults(n, old.chan) :
             run' = [run EXCEPT ![r] = Streamed(run[r], n, Advanced(old, n, c))]
    BY <1>2 DEF RunNode
  <2>2. PICK c \in NodeResults(n, old.chan) :
          run' = [run EXCEPT ![r] = Streamed(run[r], n, Advanced(old, n, c))]
    BY <2>1
  <2> DEFINE cp  == Advanced(old, n, c)
             loc == Streamed(run[r], n, cp)
  <2>3. /\ old \in Checkpoint /\ run[r] \in Run /\ on[r] \in Threads
        /\ GoodRun(run[r], on[r]) /\ CheckpointInv(old)
        /\ TurnAt(old.chan.question, on[r]) /\ n \in Nodes
    BY <2>1 DEF TypeOK, RunInv, GoodRun, Copies, Run, Checkpoint
  <2>4. /\ cp \in Checkpoint /\ CheckpointInv(cp)
        /\ cp.chan = c /\ c.question = old.chan.question
    BY <2>3, SuperstepKeepsInv DEF Advanced
  <2> HIDE DEF cp
  <2>5. /\ loc \in Run /\ loc.cp = cp /\ loc.stepped
        /\ loc.answer \in {cp.chan.answer, run[r].answer}
        /\ loc.sources \in {cp.chan.sources, run[r].sources}
        /\ Copies(loc) \subseteq Copies(run[r]) \cup {cp}
    BY <2>3, <2>4, StreamedType
  <2>6. run' = [run EXCEPT ![r] = loc]
    BY <2>2 DEF cp
  <2> HIDE DEF loc
  <2>7. GoodRun(loc, on[r])
    <3>1. \A x \in Copies(loc) : CheckpointInv(x) /\ TurnAt(x.chan.question, on[r])
      BY <2>3, <2>4, <2>5 DEF GoodRun
    <3>2. OneTurn(cp.chan) /\ cp.chan.question = old.chan.question
      BY <2>4 DEF CheckpointInv
    <3>3. {loc.answer.turn, loc.answer.basis, loc.sources}
            \subseteq {NoTurn, loc.cp.chan.question}
      BY <2>3, <2>5, <3>2 DEF GoodRun, OneTurn
    <3>4. QED
      BY <2>5, <3>1, <3>3 DEF GoodRun
  <2>8. StoredInv' /\ Asked' = Asked
    BY <2>1, NothingStored
  <2>9. n = "tools_executor" =>
          /\ Calls(old.chan) \subseteq Asked /\ Calls(old.chan) \subseteq Pending
          /\ kind[r] \notin ChatKinds
    <3> SUFFICES ASSUME n = "tools_executor"
                 PROVE  /\ Calls(old.chan) \subseteq Asked
                        /\ Calls(old.chan) \subseteq Pending
                        /\ kind[r] \notin ChatKinds
      OBVIOUS
    <3>1. ~run[r].stepped
      BY <2>1 DEF Paused, InterruptBefore
    <3>2. old.chan \in Channels /\ Len(old.chan.messages) > 0
      BY <2>3 DEF Checkpoint, CheckpointInv, ToolTurn
    <3>3. QED
      BY <2>1, <2>3, <3>1, <3>2, CallsType DEF GoodRun, CallsAsked, ChatInv
  <2>10. TypeOK'
    BY <2>1, <2>5, <2>6, <2>9 DEF TypeOK
  <2>11. RunInv'
    <3>1. TypeOK /\ RunInv
      OBVIOUS
    <3> HIDE DEF ServiceInv
    <3>2. QED
      BY <2>1, <2>6, <2>7, <2>8, <3>1, OneRunChanges
  <2>12. ChatInv'
    BY <2>1, <2>4, <2>5, <2>6 DEF ChatInv, TypeOK
  <2>13. GatedExecution'
    BY <2>1, <2>8, <2>9 DEF GatedExecution, TypeOK
  <2>14. ReplyIsOneTurn'
    BY <2>1 DEF ReplyIsOneTurn, AboutOneTurn
  <2>15. QED
    BY <2>8, <2>10, <2>11, <2>12, <2>13, <2>14
<1>3. QED
  BY <1>1, <1>2 DEF RunNode

\* The checkpoint of a run that is put is good, and asks for its calls.
LEMMA StoreKeepsInv ==
  ASSUME ServiceInv, NEW r \in Requests, run[r].unstored # <<>>, Store(r),
         UNCHANGED on
  PROVE  /\ thread' \in [Threads -> Checkpoint]
         /\ asked' \in [Requests -> SUBSET Pending]
         /\ StoredInv' /\ Asked \subseteq Asked'
<1> DEFINE cp == Head(run[r].unstored)
<1>1. TypeOK /\ StoredInv /\ GoodRun(run[r], on[r]) /\ on[r] \in Threads
      /\ run[r].unstored \in Seq(Checkpoint)
  BY DEF ServiceInv, RunInv, TypeOK, Run
<1>2. cp \in Checkpoint /\ cp \in Copies(run[r])
  BY <1>1 DEF Copies
<1>3. CheckpointInv(cp) /\ TurnAt(cp.chan.question, on[r])
  BY <1>1, <1>2 DEF GoodRun
<1>4. /\ thread' = [thread EXCEPT ![on[r]] = cp]
      /\ asked' = IF cp.next = "tools_executor"
                    THEN [asked EXCEPT ![r] = @ \cup Calls(cp.chan)] ELSE asked
  BY DEF Store, InterruptBefore
<1> HIDE DEF cp
<1>5. cp.next = "tools_executor" => Calls(cp.chan) \subseteq Pending
  <2>1. cp.chan \in Channels
    BY <1>2 DEF Checkpoint
  <2>2. cp.next = "tools_executor" => Len(cp.chan.messages) > 0
    BY <1>3 DEF CheckpointInv, ToolTurn
  <2>3. QED
    BY <2>1, <2>2, CallsType
<1>6. thread' \in [Threads -> Checkpoint] /\ asked' \in [Requests -> SUBSET Pending]
  BY <1>1, <1>2, <1>4, <1>5 DEF TypeOK
<1>7. \A q \in Requests : asked[q] \subseteq asked'[q]
  BY <1>1, <1>4 DEF TypeOK
<1>8. Asked \subseteq Asked'
  BY <1>7 DEF Asked
<1>9. cp.next = "tools_executor" => Calls(cp.chan) \subseteq Asked'
  <2>1. cp.next = "tools_executor" => Calls(cp.chan) \subseteq asked'[r]
    BY <1>1, <1>4 DEF TypeOK
  <2>2. QED
    BY <2>1 DEF Asked
<1>10. StoredInv'
  <2> SUFFICES ASSUME NEW t \in Threads
               PROVE  /\ CheckpointInv(thread'[t])
                      /\ CallsAsked(thread[t])'
                      /\ TurnAt(thread[t].chan.question, t)'
    BY DEF StoredInv
  <2>1. CASE t = on[r]
    <3>1. thread'[t] = cp
      BY <1>1, <1>4, <2>1 DEF TypeOK
    <3>2. QED
      BY <1>3, <1>9, <2>1, <3>1 DEF CallsAsked, TurnAt
  <2>2. CASE t # on[r]
    <3>1. thread'[t] = thread[t]
      BY <1>1, <1>4, <2>2 DEF TypeOK
    <3>2. QED
      BY <1>1, <1>8, <3>1 DEF StoredInv, CallsAsked, TurnAt
  <2>3. QED
    BY <2>1, <2>2
<1>11. QED
  BY <1>6, <1>8, <1>10

\* A put, that ends or throws.
LEMMA PutKeepsInv ==
  ASSUME ServiceInv, NEW r \in Requests, Put(r)
  PROVE  ServiceInv'
<1> DEFINE rep == [NoReply EXCEPT !.status = "error", !.stepped = run[r].stepped]
<1>1. /\ run[r].unstored # <<>>
      /\ UNCHANGED <<kind, on, memory, shown, approved, ran, crashes>>
      /\ \/ /\ Store(r)
            /\ run' = [run EXCEPT ![r].unstored = Tail(@)]
            /\ UNCHANGED <<pc, reply>>
         \/ (Store(r) \/ UNCHANGED <<thread, asked>>) /\ End(r, rep)
  BY DEF Put
<1>2. /\ thread' \in [Threads -> Checkpoint]
      /\ asked' \in [Requests -> SUBSET Pending]
      /\ StoredInv' /\ Asked \subseteq Asked'
  <2>1. CASE Store(r)
    BY <1>1, <2>1, StoreKeepsInv
  <2>2. CASE UNCHANGED <<thread, asked>>
    BY <1>1, <2>2, NothingStored DEF ServiceInv, TypeOK
  <2>3. QED
    BY <1>1, <2>1, <2>2
<1>3. CASE End(r, rep)
  <2>1. rep \in Reply /\ AboutOneTurn(r, rep)
    BY ErrorIsOneTurn
  <2>2. /\ memory' \subseteq {"user", "assistant"} \X Requests
        /\ shown' \in [Threads -> Pending]
    BY <1>1 DEF ServiceInv, TypeOK
  <2> HIDE DEF rep
  <2>3. QED
    BY <1>1, <1>2, <1>3, <2>1, <2>2, EndKeepsInv
<1>4. CASE run' = [run EXCEPT ![r].unstored = Tail(@)] /\ UNCHANGED <<pc, reply>>
  <2> DEFINE loc == [run[r] EXCEPT !.unstored = Tail(run[r].unstored)]
  <2>1. /\ run[r] \in Run /\ run[r].unstored \in Seq(Checkpoint)
        /\ GoodRun(run[r], on[r]) /\ TypeOK /\ RunInv
    BY DEF ServiceInv, TypeOK, RunInv, Run
  <2>2. /\ Tail(run[r].unstored) \in Seq(Checkpoint)
        /\ \A i \in DOMAIN Tail(run[r].unstored) :
             /\ i + 1 \in DOMAIN run[r].unstored
             /\ Tail(run[r].unstored)[i] = run[r].unstored[i + 1]
    BY <1>1, <2>1
  <2>3. /\ loc \in Run /\ loc.cp = run[r].cp /\ loc.stepped = run[r].stepped
        /\ loc.answer = run[r].answer /\ loc.sources = run[r].sources
        /\ loc.unstored = Tail(run[r].unstored)
    BY <2>1, <2>2 DEF Run
  <2>4. Copies(loc) \subseteq Copies(run[r])
    BY <2>2, <2>3 DEF Copies
  <2>5. GoodRun(loc, on[r])
    BY <2>1, <2>3, <2>4 DEF GoodRun
  <2>6. run' = [run EXCEPT ![r] = loc]
    BY <1>4, <2>1 DEF TypeOK
  <2> HIDE DEF loc
  <2>7. TypeOK'
    BY <1>1, <1>2, <1>4, <2>1, <2>3, <2>6 DEF TypeOK
  <2>8. RunInv'
    BY <1>1, <1>2, <2>1, <2>5, <2>6, OneRunChanges
  <2>9. ChatInv'
    BY <1>1, <1>4, <2>1, <2>3, <2>6 DEF ServiceInv, ChatInv, TypeOK
  <2>10. GatedExecution' /\ ReplyIsOneTurn'
    BY <1>1, <1>2, <1>4
    DEF ServiceInv, GatedExecution, ReplyIsOneTurn, AboutOneTurn
  <2>11. QED
    BY <1>2, <2>7, <2>8, <2>9, <2>10 DEF ServiceInv
<1>5. QED
  BY <1>1, <1>3, <1>4

\* A noticed pause only moves the request on.
LEMMA NoticePauseKeepsInv ==
  ASSUME ServiceInv, NEW r \in Requests, NoticePause(r)
  PROVE  ServiceInv'
<1> USE DEF ServiceInv
<1>1. /\ pc[r] = "running" /\ pc' = [pc EXCEPT ![r] = "getState"]
      /\ UNCHANGED <<thread, kind, on, run, reply, memory, shown, approved, asked,
                     ran, crashes>>
  BY DEF NoticePause
<1>2. TypeOK'
  BY <1>1 DEF TypeOK, Awaits
<1>3. ChatInv'
  BY <1>1 DEF ChatInv, TypeOK
<1>4. StoredInv' /\ RunInv' /\ Asked' = Asked
  BY <1>1, NothingStored
<1>5. GatedExecution' /\ ReplyIsOneTurn'
  BY <1>1, <1>4 DEF GatedExecution, ReplyIsOneTurn, AboutOneTurn
<1>6. QED
  BY <1>2, <1>3, <1>4, <1>5

\* The report of a pause is an answer without an answer text, whatever pending
\* action the thread holds by then.
LEMMA ReportPendingKeepsInv ==
  ASSUME ServiceInv, NEW r \in Requests, ReportPending(r)
  PROVE  ServiceInv'
<1>1. memory' \subseteq {"user", "assistant"} \X Requests
  BY DEF ReportPending, Fail, ServiceInv, TypeOK
<1>2. CASE Fail(r, "getState")
  BY <1>1, <1>2, FailKeepsInv
<1>3. CASE ~Fail(r, "getState")
  <2> DEFINE p   == PendingAction(thread[on[r]].chan)
             rep == [NoReply EXCEPT !.status = "pending", !.shown = p,
                                    !.stepped = run[r].stepped]
  <2>1. /\ shown' = [shown EXCEPT ![on[r]] = p] /\ End(r, rep)
        /\ UNCHANGED <<thread, kind, on, approved, asked, ran, crashes>>
    BY <1>3 DEF ReportPending
  <2>2. /\ thread[on[r]].chan \in Channels /\ run[r].stepped \in BOOLEAN
        /\ shown \in [Threads -> Pending]
    BY DEF ServiceInv, TypeOK, Checkpoint, Run
  <2>3. p \in Pending
    BY <2>2, PendingActionType
  <2> HIDE DEF p
  <2>4. rep \in Reply /\ shown' \in [Threads -> Pending]
    BY <2>1, <2>2, <2>3, NoReplyType DEF Reply
  <2>5. {rep.answer.turn, rep.answer.basis, rep.sources} = {NoTurn}
    BY NoReplyType DEF NoReply
  <2>6. AboutOneTurn(r, rep)
    BY <2>5 DEF AboutOneTurn
  <2> HIDE DEF rep
  <2>7. QED
    BY <1>1, <2>1, <2>4, <2>6, EndStoringNothing
<1>4. QED
  BY <1>2, <1>3

\* The body of a final answer is well formed and about one turn: the channels
\* of the run and the outputs it streamed are about the question of its
\* checkpoint, which was asked on the same thread, and by a chat itself.
LEMMA CompletedIsOneTurn ==
  ASSUME ServiceInv, NEW r \in Requests, pc[r] \in {"running", "record"}
  PROVE  Completed(r) \in Reply /\ AboutOneTurn(r, Completed(r))
<1> DEFINE c   == run[r].cp.chan
           rep == Completed(r)
           q   == IF c.question \in Requests THEN c.question ELSE r
<1>1. /\ run[r] \in Run /\ run[r].cp \in Checkpoint /\ c \in Channels
      /\ OneTurn(c) /\ TurnAt(c.question, on[r])
      /\ {run[r].answer.turn, run[r].answer.basis, run[r].sources}
           \subseteq {NoTurn, c.question}
      /\ kind[r] \in ChatKinds => c.question = r
  BY DEF ServiceInv, TypeOK, RunInv, GoodRun, Copies, ChatInv, CheckpointInv, Run,
         Checkpoint
<1>2. /\ c.answer \in Answer /\ c.sources \in Turn /\ c.steps \in SUBSET Turn
      /\ c.question \in Turn /\ run[r].answer \in Answer
      /\ run[r].sources \in Turn /\ run[r].stepped \in BOOLEAN
  BY <1>1 DEF Channels, Run
<1> HIDE DEF c
<1>3. /\ rep.answer \in {c.answer, run[r].answer}
      /\ rep.sources \in {c.sources, run[r].sources}
      /\ rep.steps \in {c.steps, {c.question}}
      /\ rep \in [status : {"completed"}, answer : {c.answer, run[r].answer},
                  sources : {c.sources, run[r].sources},
                  steps : {c.steps, {c.question}}, shown : {NoPending},
                  stepped : {run[r].stepped}]
  BY DEF Completed, c
<1>4. rep \in Reply
  BY <1>2, <1>3, NoReplyType DEF Reply
<1>5. {rep.answer.turn, rep.answer.basis, rep.sources} \subseteq {NoTurn, c.question}
  BY <1>1, <1>3 DEF OneTurn
<1>6. /\ q \in Requests /\ on[q] = on[r]
      /\ kind[r] \in ChatKinds => q = r
      /\ {NoTurn, c.question} \subseteq {NoTurn, q}
  BY <1>1, <1>2 DEF TurnAt, Turn
<1> HIDE DEF rep, q
<1>7. AboutOneTurn(r, rep)
  BY <1>5, <1>6 DEF AboutOneTurn
<1>8. QED
  BY <1>4, <1>7 DEF rep

\* The end of a graph run.
LEMMA FinishKeepsInv ==
  ASSUME ServiceInv, NEW r \in Requests, Finish(r)
  PROVE  ServiceInv'
<1>1. pc[r] = "running"
      /\ UNCHANGED <<thread, kind, on, memory, shown, approved, asked, ran, crashes>>
  BY DEF Finish
<1>2. CASE kind[r] \notin ChatKinds
  <2>1. Completed(r) \in Reply /\ AboutOneTurn(r, Completed(r))
    BY <1>1, CompletedIsOneTurn
  <2>2. End(r, Completed(r))
    BY <1>2 DEF Finish
  <2>3. /\ memory' \subseteq {"user", "assistant"} \X Requests
        /\ shown' \in [Threads -> Pending]
    BY <1>1 DEF ServiceInv, TypeOK
  <2>4. QED
    BY <1>1, <2>1, <2>2, <2>3, EndStoringNothing
<1>3. CASE kind[r] \in ChatKinds
  <2>1. pc' = [pc EXCEPT ![r] = "record"] /\ UNCHANGED <<run, reply>>
    BY <1>3 DEF Finish
  <2> USE <1>1, <2>1 DEF ServiceInv
  <2>2. TypeOK'
    BY DEF TypeOK, Awaits
  <2>3. ChatInv'
    BY DEF ChatInv, TypeOK
  <2>4. StoredInv' /\ RunInv' /\ GatedExecution' /\ ReplyIsOneTurn'
    BY NothingStored DEF GatedExecution, ReplyIsOneTurn, AboutOneTurn
  <2>5. QED
    BY <2>2, <2>3, <2>4
<1>4. QED
  BY <1>2, <1>3

\* The answer of a chat, recorded or not.
LEMMA RecordKeepsInv ==
  ASSUME ServiceInv, NEW r \in Requests, Record(r)
  PROVE  ServiceInv'
<1>1. memory' \subseteq {"user", "assistant"} \X Requests
  BY DEF Record, ServiceInv, TypeOK
<1>2. CASE Fail(r, "record")
  BY <1>1, <1>2, FailKeepsInv
<1>3. CASE /\ End(r, Completed(r))
           /\ UNCHANGED <<thread, kind, on, shown, approved, asked, ran, crashes>>
  <2>1. Completed(r) \in Reply /\ AboutOneTurn(r, Completed(r))
    BY CompletedIsOneTurn DEF Record
  <2>2. shown' \in [Threads -> Pending]
    BY <1>3 DEF ServiceInv, TypeOK
  <2>3. QED
    BY <1>1, <1>3, <2>1, <2>2, EndStoringNothing
<1>4. QED
  BY <1>2, <1>3 DEF Record

\* A crash ends every request in progress and leaves the store as it is.
LEMMA CrashKeepsInv ==
  ASSUME ServiceInv, Crash
  PROVE  ServiceInv'
<1> DEFINE lost == [NoReply EXCEPT !.status = "lost"]
<1>1. lost \in Reply /\ {lost.answer.turn, lost.answer.basis, lost.sources} = {NoTurn}
  BY NoReplyType DEF Reply, NoReply
<1>2. /\ pc' = [r \in Requests |-> IF Active(r) THEN "done" ELSE pc[r]]
      /\ run' = [r \in Requests |-> NullRun]
      /\ reply' = [r \in Requests |-> IF Active(r) THEN lost ELSE reply[r]]
      /\ crashes' = crashes + 1
      /\ UNCHANGED <<thread, kind, on, memory, shown, approved, asked, ran>>
  BY DEF Crash
<1> HIDE DEF lost
<1> USE <1>2 DEF ServiceInv
<1>3. TypeOK'
  BY <1>1, NullRunInv DEF TypeOK
<1>4. StoredInv' /\ Asked' = Asked
  BY NothingStored
<1>5. RunInv'
  <2>1. \A r \in Requests : run'[r] = NullRun /\ GoodRun(NullRun, on[r])'
    BY <1>4, NullRunIsGood, StaysGood
  <2>2. QED
    BY <2>1 DEF RunInv, GoodRun, CallsAsked, TurnAt
<1>6. ChatInv'
  <2>1. \A r \in Requests : pc'[r] \in {"idle", "done"}
    BY DEF Active
  <2>2. QED
    BY <2>1 DEF ChatInv
<1>7. GatedExecution'
  BY <1>4 DEF GatedExecution
<1>8. ReplyIsOneTurn'
  <2> SUFFICES ASSUME NEW r \in Requests
               PROVE  AboutOneTurn(r, reply[r])'
    BY DEF ReplyIsOneTurn
  <2>1. CASE Active(r)
    <3>1. {reply'[r].answer.turn, reply'[r].answer.basis, reply'[r].sources} = {NoTurn}
      BY <1>1, <2>1
    <3>2. QED
      BY <3>1 DEF AboutOneTurn
  <2>2. CASE ~Active(r)
    BY <2>2 DEF ReplyIsOneTurn, AboutOneTurn
  <2>3. QED
    BY <2>1, <2>2
<1>9. QED
  BY <1>3, <1>4, <1>5, <1>6, <1>7, <1>8

-----------------------------------------------------------------------------
(* The theorems.                                                            *)

\* Every step of the service keeps the invariant.
LEMMA StepKeepsInv == ServiceInv /\ [Next]_vars => ServiceInv'
<1> SUFFICES ASSUME ServiceInv, [Next]_vars
             PROVE  ServiceInv'
  OBVIOUS
<1>1. ASSUME NEW r \in Requests, Arrive(r)
      PROVE  ServiceInv'
  BY <1>1, ArriveKeepsInv
<1>2. ASSUME NEW r \in Requests, Serve(r)
      PROVE  ServiceInv'
  <2>1. CASE BuildPrompt(r)
    BY <2>1, BuildPromptKeepsInv
  <2>2. CASE Begin(r)
    BY <2>2, BeginKeepsInv
  <2>3. CASE RunNode(r)
    BY <2>3, RunNodeKeepsInv
  <2>4. CASE Put(r)
    BY <2>4, PutKeepsInv
  <2>5. CASE NoticePause(r)
    BY <2>5, NoticePauseKeepsInv
  <2>6. CASE ReportPending(r)
    BY <2>6, ReportPendingKeepsInv
  <2>7. CASE Finish(r)
    BY <2>7, FinishKeepsInv
  <2>8. CASE Record(r)
    BY <2>8, RecordKeepsInv
  <2>9. QED
    BY <1>2, <2>1, <2>2, <2>3, <2>4, <2>5, <2>6, <2>7, <2>8 DEF Serve
<1>3. CASE Crash
  BY <1>3, CrashKeepsInv
<1>4. CASE UNCHANGED vars
  <2>1. StoredInv' /\ RunInv' /\ Asked' = Asked
    BY <1>4, NothingStored DEF vars, ServiceInv
  <2>2. QED
    BY <1>4, <2>1 DEF vars, ServiceInv, TypeOK, ChatInv, GatedExecution,
                      ReplyIsOneTurn, AboutOneTurn
<1>5. QED
  BY <1>1, <1>2, <1>3, <1>4 DEF Next, Quiescent

\* The inductive invariant holds in every behaviour of the service, however its
\* requests interleave, fail and crash.
THEOREM ServiceInvariant == Spec => []ServiceInv
<1>1. Init => ServiceInv
  BY InitKeepsInv
<1>2. ServiceInv /\ [Next]_vars => ServiceInv'
  BY StepKeepsInv
<1>3. QED
  BY <1>1, <1>2, PTL DEF Spec

\* Every variable keeps its type: no node, input or resumption leaves a channel
\* with a value the graph does not know, and no router names a node that is not
\* in the graph.
THEOREM TypeCorrect == Spec => []TypeOK
<1>1. ServiceInv => TypeOK
  BY DEF ServiceInv
<1>2. QED
  BY <1>1, ServiceInvariant, PTL

\* No tool runs without a stop at interruptBefore that came first, and never in
\* a chat request.
THEOREM ToolsAreGated == Spec => []GatedExecution
<1>1. ServiceInv => GatedExecution
  BY DEF ServiceInv
<1>2. QED
  BY <1>1, ServiceInvariant, PTL

\* No turn makes the generator run more than MaxRetries times.
THEOREM SelfCorrectionIsBounded == Spec => []BoundedSelfCorrection
<1>1. ServiceInv => BoundedSelfCorrection
  <2>1. ServiceInv => \A cp \in Snapshots : CheckpointInv(cp)
    BY DEF ServiceInv, StoredInv, RunInv, GoodRun, Copies, Snapshots
  <2>2. QED
    BY <2>1 DEF BoundedSelfCorrection, CheckpointInv, Counted
<1>2. QED
  BY <1>1, ServiceInvariant, PTL

\* The grader's model is only ever asked about documents found for the question.
THEOREM GradingIsGrounded == Spec => []GroundedGrading
<1>1. ServiceInv => GroundedGrading
  <2>1. ServiceInv => \A cp \in Snapshots : CheckpointInv(cp)
    BY DEF ServiceInv, StoredInv, RunInv, GoodRun, Copies, Snapshots
  <2>2. QED
    BY <2>1 DEF GroundedGrading, CheckpointInv, Planned, Grades
<1>2. QED
  BY <1>1, ServiceInvariant, PTL

\* Answer, basis and sources of every reply are about one turn of its thread.
THEOREM RepliesAreOneTurn == Spec => []ReplyIsOneTurn
<1>1. ServiceInv => ReplyIsOneTurn
  BY DEF ServiceInv
<1>2. QED
  BY <1>1, ServiceInvariant, PTL

=============================================================================
