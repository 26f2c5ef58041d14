---------------------------- MODULE AgentChannels ----------------------------
(***************************************************************************)
(* The agent graph (agent.graph.ts) as pure operators: the channels of     *)
(* agent.state.ts, what each node may write to them, and the routers that  *)
(* choose the next node.                                                   *)
(*                                                                         *)
(* Text is abstracted to its provenance.  A turn is the chat request that  *)
(* asked a question; the documents, sources and answers of the channels    *)
(* are represented by the turn they stem from, NoTurn standing for the     *)
(* empty value.  An answer also has a basis: the turn of the documents, or *)
(* of the tool result, that its prompt quoted.                             *)
(***************************************************************************)
EXTENDS Integers, Sequences

CONSTANTS
  Requests,     \* identities of client requests; a chat request is a turn
  NoTurn,       \* the absent turn: '', [] or null in the code
  Tools,        \* the names the tool-calling model can ask for
  ToolCalls,    \* the tool_calls lists the tool-calling model may return
  MaxRetries    \* MAX_RETRIES of routeAfterGrading

ASSUME ChannelAssumption ==
  /\ NoTurn \notin Requests
  /\ ToolCalls \subseteq Seq(Tools)
  /\ MaxRetries \in Nat \ {0}

Turn == Requests \cup {NoTurn}

Nodes == {"planner", "query_rewriter", "search", "relevance_check", "generator",
          "grader", "tools_caller", "tools_executor", "tools_result"}

END == "end"

Plans == {"", "search", "direct", "tools"}

Answer == [turn : Turn, basis : Turn]

NoAnswer == [turn |-> NoTurn, basis |-> NoTurn]

\* An AI message carries the calls its model asked for; a tool message none.
Message == [role : {"ai", "tool"}, turn : Turn, calls : Seq(Tools)]

\* A rewritten query is empty or a text; "about" is what the model could see.
Query == [empty : BOOLEAN, about : SUBSET Turn]

NoQuery == [empty |-> TRUE, about |-> {}]

Channels ==
  [question : Turn, plan : Plans, searchQuery : Query, documents : Turn,
   answer : Answer, sources : Turn, steps : SUBSET Turn,
   messages : Seq(Message), retryCount : Nat, gradingFeedback : BOOLEAN]

EmptyChannels ==
  [question |-> NoTurn, plan |-> "", searchQuery |-> NoQuery,
   documents |-> NoTurn, answer |-> NoAnswer, sources |-> NoTurn, steps |-> {},
   messages |-> <<>>, retryCount |-> 0, gradingFeedback |-> FALSE]

-----------------------------------------------------------------------------
(* Input.  run() and stream() write every channel but searchQuery; through  *)
(* the reducers [] appends nothing to steps and messages and 0 adds nothing *)
(* to retryCount.                                                           *)

\* Mutated: an input that leaves documents and sources to the reducers.
FreshInputKeepsDocuments(c, turn) ==
  [c EXCEPT !.question = turn, !.plan = "", !.answer = NoAnswer,
            !.gradingFeedback = FALSE]

\* Mutated: the reducer of question keeps the first one.
FreshInputKeepsQuestion(c, turn) ==
  [c EXCEPT !.question = IF @ = NoTurn THEN turn ELSE @, !.plan = "",
            !.documents = NoTurn, !.answer = NoAnswer, !.sources = NoTurn,
            !.gradingFeedback = FALSE]

FreshInput(c, turn) ==
  [c EXCEPT !.question = turn, !.plan = "", !.documents = NoTurn,
            !.answer = NoAnswer, !.sources = NoTurn,
            !.steps = @ \cup {}, !.messages = @ \o <<>>, !.retryCount = @ + 0,
            !.gradingFeedback = FALSE]

\* Command({ resume }) of an approval leaves the channels alone; that of a
\* rejection carries update: { plan: 'direct' }.
CommandInput(c, reject) == IF reject THEN [c EXCEPT !.plan = "direct"] ELSE c

-----------------------------------------------------------------------------
(* Nodes.  Each operator gives the channels a successful call may leave.    *)

\* The steps reducer appends; here the set of turns with an entry grows.
Noted(c) == [c EXCEPT !.steps = @ \cup {c.question}]

Planner(c) == {[Noted(c) EXCEPT !.plan = p] : p \in {"tools", "search", "direct"}}

\* The prompt holds the system text and state.messages, nothing else.
QueryRewriter(c) ==
  {[Noted(c) EXCEPT !.searchQuery = q] :
     q \in {NoQuery,
            [empty |-> FALSE,
             about |-> {c.messages[i].turn : i \in DOMAIN c.messages}]}}

\* Documents and sources are written together, both possibly empty.  They belong
\* to the turn that searched, by searchQuery || question, whatever that asks about.
Search(c) ==
  {[Noted(c) EXCEPT !.documents = d, !.sources = d] : d \in {c.question, NoTurn}}

\* Mutated: an empty result does not switch the plan.
RelevanceCheckKeepsPlan(c) == {Noted(c)}

RelevanceCheck(c) ==
  IF c.documents = NoTurn
    THEN {[Noted(c) EXCEPT !.plan = "direct"]}
    ELSE {Noted(c)}

\* The model may answer with an empty text.
Generator(c) ==
  {[Noted(c) EXCEPT !.answer = a] :
     a \in {NoAnswer, [turn |-> c.question, basis |-> c.documents]}}

\* The grader calls its model only for a non-empty, planned answer.
Grades(c) == c.plan # "direct" /\ c.answer # NoAnswer

\* Mutated: the verdict is not counted.
GraderUncounted(c) ==
  IF Grades(c) THEN {[Noted(c) EXCEPT !.gradingFeedback = fail] : fail \in BOOLEAN}
               ELSE {[Noted(c) EXCEPT !.gradingFeedback = FALSE]}

Grader(c) ==
  IF Grades(c)
    THEN {[Noted(c) EXCEPT !.gradingFeedback = fail, !.retryCount = @ + 1] :
            fail \in BOOLEAN}
    ELSE {[Noted(c) EXCEPT !.gradingFeedback = FALSE]}

ToolsCaller(c) ==
  {[Noted(c) EXCEPT !.messages =
      Append(@, [role |-> "ai", turn |-> c.question, calls |-> calls])] :
     calls \in ToolCalls}

LastMessage(c) == c.messages[Len(c.messages)]

\* ToolNode runs the calls of the last message in parallel and appends one tool
\* message for each, also for a tool that failed; it notes no step.
ToolResults(m) ==
  [i \in 1..Len(m.calls) |-> [role |-> "tool", turn |-> m.turn, calls |-> <<>>]]

ToolsExecutor(c) == {[c EXCEPT !.messages = @ \o ToolResults(LastMessage(c))]}

\* The prompt quotes the last message only.
ToolsResult(c) ==
  {[Noted(c) EXCEPT !.answer = a] :
     a \in {NoAnswer, [turn |-> c.question, basis |-> LastMessage(c).turn]}}

NodeResults(n, c) ==
  CASE n = "planner"         -> Planner(c)
    [] n = "query_rewriter"  -> QueryRewriter(c)
    [] n = "search"          -> Search(c)
    [] n = "relevance_check" -> RelevanceCheck(c)
    [] n = "generator"       -> Generator(c)
    [] n = "grader"          -> Grader(c)
    [] n = "tools_caller"    -> ToolsCaller(c)
    [] n = "tools_executor"  -> ToolsExecutor(c)
    [] n = "tools_result"    -> ToolsResult(c)

-----------------------------------------------------------------------------
(* Routers and edges.                                                       *)

\* Mutated: the plan itself is taken for the next node.
RouteAfterPlanUnmapped(c) == c.plan

RouteAfterPlan(c) ==
  CASE c.plan = "search" -> "query_rewriter"
    [] c.plan = "tools"  -> "tools_caller"
    [] OTHER             -> "generator"

\* Mutated: one retry too many.
RouteAfterGradingOffByOne(c) ==
  IF c.retryCount <= MaxRetries /\ c.gradingFeedback THEN "generator" ELSE END

RouteAfterGrading(c) ==
  IF c.retryCount < MaxRetries /\ c.gradingFeedback THEN "generator" ELSE END

\* The node the graph runs after n has left the channels at c.
Successor(n, c) ==
  CASE n = "planner"         -> RouteAfterPlan(c)
    [] n = "query_rewriter"  -> "search"
    [] n = "search"          -> "relevance_check"
    [] n = "relevance_check" -> "generator"
    [] n = "generator"       -> "grader"
    [] n = "grader"          -> RouteAfterGrading(c)
    [] n = "tools_caller"    -> "tools_executor"
    [] n = "tools_executor"  -> "tools_result"
    [] n = "tools_result"    -> END

-----------------------------------------------------------------------------
(* What a client is shown of a paused thread: extractPendingAction.         *)

Pending == [turn : Turn, tool : Tools \cup {"unknown"}]

NoPending == [turn |-> NoTurn, tool |-> "unknown"]

\* Mutated: the messages are scanned from the front.
PendingActionFirst(c) ==
  LET calling == {i \in DOMAIN c.messages : c.messages[i].calls # <<>>}
      first   == c.messages[CHOOSE i \in calling : \A j \in calling : i <= j]
  IN IF calling = {} THEN NoPending
                     ELSE [turn |-> first.turn, tool |-> Head(first.calls)]

\* The first call of the last message that has any.
PendingAction(c) ==
  LET calling == {i \in DOMAIN c.messages : c.messages[i].calls # <<>>}
      last    == c.messages[CHOOSE i \in calling : \A j \in calling : j <= i]
  IN IF calling = {} THEN NoPending
                     ELSE [turn |-> last.turn, tool |-> Head(last.calls)]

=============================================================================
