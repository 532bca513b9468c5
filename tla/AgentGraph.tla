----------------------------- MODULE AgentGraph -----------------------------
(***************************************************************************)
(* The compiled LangGraph graph of backend/app/graph/builder.py and the    *)
(* agents of backend/app/agents/nodes.py, run on one thread for successive *)
(* user messages.  A step is one node: the model call it makes, the update *)
(* it returns, the reducers of graph/state.py that merge the update into   *)
(* the channels, and the routing function that names the next node.        *)
(***************************************************************************)
EXTENDS Integers, Sequences

CONSTANTS
  MaxIterations,   \* MAX_ITERATIONS
  ApprovalScore,   \* CRITIC_APPROVAL_SCORE, in tenths
  MalformedScore,  \* the score of a verdict that is not JSON or has none (0.5)
  Scores,          \* the scores a critic may give, in tenths
  Documents,       \* documents a retrieval may return
  HitLists,        \* results of a retrieval: sequences of documents
  Healthy,         \* whether models and retrieval always answer, and usably
  MaxTurns         \* bound: user messages put to the thread

ASSUME LoopAssumption ==
  /\ MaxIterations \in Nat \ {0}
  /\ ApprovalScore \in Int
  /\ MalformedScore \in Int
  /\ Scores \subseteq Int
ASSUME HitsAssumption == HitLists \subseteq Seq(Documents)
ASSUME ThreadAssumption ==
  /\ Healthy \in BOOLEAN
  /\ MaxTurns \in Nat

VARIABLES
  checkpointed, \* whether build_graph was given a checkpointer, once per process
  node,        \* the node that runs next; "START" before the first turn,
               \* "END" or "failed" after a turn
  needs,       \* the planner's needs_retrieval, needs_web and needs_tools
  notes,       \* length of research_notes
  citations,   \* the citations channel
  answer,      \* the answer channel: which draft, and the citation list that
               \* was numbered for it; number 0 when absent or empty
  critique,    \* the critique channel, as the turn and review it came from
  confidence,  \* the critic's last score; 0 when absent
  iterations,  \* the iterations channel
  \* The rest is history, for the properties only:
  turn,        \* user messages so far
  passes,      \* reviews in this turn
  drafts,      \* drafts written in this turn
  fed,         \* the critique the last draft was written against
  judged       \* the draft the last review was given

channels == <<needs, notes, citations, answer, critique, confidence, iterations>>
history  == <<turn, passes, drafts, fed, judged>>
vars     == <<checkpointed, node, channels, history>>

Capabilities == {"retrieval", "web", "tools"}
Agents       == {"planner", "researcher", "executor", "finalizer", "critic"}
NoAnswer     == [no |-> 0, cites |-> <<>>]
NoCritique   == <<0, 0>>

Running == node \in Agents
-----------------------------------------------------------------------------
\* The routing functions of builder.py.
RouteAfterPlanner(want) ==
  CASE "tools" \in want                            -> "executor"
    [] "tools" \notin want /\ want # {}            -> "researcher"
    [] OTHER                                       -> "finalizer"

\* Mutant of RouteAfterResearcher: plan anew until something is found.
RouteAfterResearcherReplans ==
  IF citations' = citations THEN "planner" ELSE "finalizer"
RouteAfterResearcher == IF "tools" \in needs THEN "executor" ELSE "finalizer"

\* Mutants of RouteAfterCritic: a rejection over the budget, and > for >=.
RouteAfterCriticOneMore(score, count) ==
  IF score >= ApprovalScore \/ count > MaxIterations THEN "END" ELSE "researcher"
RouteAfterCriticStrict(score, count) ==
  IF score > ApprovalScore \/ count >= MaxIterations THEN "END" ELSE "researcher"

RouteAfterCritic(score, count) ==
  IF score >= ApprovalScore \/ count >= MaxIterations THEN "END" ELSE "researcher"

\* Mutant of Accumulate: the list is appended as one element.
AccumulateNested(channel, update) == Append(channel, update)
\* The operator.add reducer of the annotated channels.
Accumulate(channel, update) == channel \o update
-----------------------------------------------------------------------------
\* get_checkpointer gives a PostgresSaver, or None when that raises.
GetCheckpointer == BOOLEAN

\* get_graph: what the first request is given, every later one of the process
\* uses.
Init ==
  /\ checkpointed \in GetCheckpointer
  /\ node = "START"
  /\ needs = {} /\ notes = 0 /\ citations = <<>> /\ answer = NoAnswer
  /\ critique = NoCritique /\ confidence = 0 /\ iterations = 0
  /\ turn = 0 /\ passes = 0 /\ drafts = 0 /\ fed = NoCritique /\ judged = 0

\* The graph is started with input, workspace_id and messages only.  Every
\* other channel is what the thread's checkpoint holds, or absent without one.
Invoke ==
  /\ ~Running
  /\ turn < MaxTurns
  /\ node' = "planner"
  /\ IF checkpointed
     THEN UNCHANGED channels
     ELSE /\ needs' = {} /\ notes' = 0 /\ citations' = <<>> /\ answer' = NoAnswer
          /\ critique' = NoCritique /\ confidence' = 0 /\ iterations' = 0
  /\ turn' = turn + 1
  /\ passes' = 0 /\ drafts' = 0 /\ fed' = NoCritique /\ judged' = 0
  /\ UNCHANGED checkpointed

\* A node raises: both model endpoints failed, retrieval failed, or the reply
\* was JSON of a shape the node cannot use.  The graph stops there and no
\* channel is written.
Stop  == node' = "failed" /\ UNCHANGED <<checkpointed, channels, history>>
Raise == ~Healthy /\ Stop

\* The reply is a JSON object with any flags; one that is not JSON counts as
\* a plan that needs retrieval.
Planner ==
  /\ node = "planner"
  /\ \/ \E want \in SUBSET Capabilities :
          /\ needs' = want
          /\ node' = RouteAfterPlanner(want)
          /\ UNCHANGED <<checkpointed, notes, citations, answer, critique, confidence, iterations, history>>
     \/ Raise

\* vectorstore.search, which is asked for six hits at most.
Search == {hits \in HitLists : Len(hits) <= 6}

\* _citations_from: one citation per hit, of the first six.
CitationsFrom(hits) == SubSeq(hits, 1, IF Len(hits) < 6 THEN Len(hits) ELSE 6)

\* Retrieval and the claims drawn from it.  A reply that is not JSON gives no
\* notes, but the citations of the hits are kept.
Researcher ==
  /\ node = "researcher"
  /\ \/ \E hits \in Search, found \in {0, 1} :
          /\ notes' = notes + found
          /\ citations' = Accumulate(citations, CitationsFrom(hits))
          /\ node' = RouteAfterResearcher
          /\ UNCHANGED <<checkpointed, needs, answer, critique, confidence, iterations, history>>
     \/ Raise

\* executor_node passes tools= to chat_with_fallback, which has no such
\* parameter (models/gateway.py:149): the call raises before it reaches a model.
Executor == node = "executor" /\ Stop

\* A draft from the accumulated citations and the critique channel; the model
\* may return an empty text, which leaves no answer.
Draft ==
  /\ \E text \in {"text", "empty"} :
       answer' = IF text = "text"
                 THEN [no |-> drafts + 1, cites |-> citations]
                 ELSE NoAnswer
  /\ drafts' = drafts + 1
  /\ fed' = critique
  /\ UNCHANGED <<checkpointed, needs, notes, citations, critique, confidence, iterations, turn,
                 passes, judged>>

\* Mutant of Finalizer: the last draft the budget allows goes out unreviewed.
FinalizerSkipsReview ==
  /\ node = "finalizer"
  /\ \/ Draft /\ node' = IF iterations + 1 >= MaxIterations THEN "END" ELSE "critic"
     \/ Raise
Finalizer ==
  /\ node = "finalizer"
  /\ \/ Draft /\ node' = "critic"
     \/ Raise

Judge(score) ==
  /\ confidence' = score
  /\ iterations' = iterations + 1
  /\ passes' = passes + 1
  /\ judged' = drafts
  /\ node' = RouteAfterCritic(score, iterations + 1)
  /\ UNCHANGED <<checkpointed, needs, notes, citations, answer, turn, drafts, fed>>

\* Mutant of Critic: a verdict that lists no issues leaves the old critique.
CriticKeepsCritique ==
  /\ node = "critic"
  /\ \/ /\ \E score \in Scores \cup {MalformedScore} : Judge(score)
        /\ critique' \in {critique, <<turn, passes + 1>>}
     \/ Raise
Critic ==
  /\ node = "critic"
  /\ \/ /\ \E score \in Scores \cup {MalformedScore} : Judge(score)
        /\ critique' = <<turn, passes + 1>>
     \/ Raise

Agent == Planner \/ Researcher \/ Executor \/ Finalizer \/ Critic

Next == Invoke \/ Agent

\* Every node returns or raises: model calls carry a timeout (gateway.py:70)
\* and the graph runs the next node without waiting for anyone.
Fairness == WF_vars(Agent)

Spec == Init /\ [][Next]_vars /\ Fairness
-----------------------------------------------------------------------------
TypeOK ==
  /\ checkpointed \in BOOLEAN
  /\ node \in Agents \cup {"START", "END", "failed"}
  /\ needs \subseteq Capabilities
  /\ notes \in Nat
  /\ citations \in Seq(Documents)
  /\ answer \in [no : Nat, cites : Seq(Documents)]
  /\ critique \in Nat \X Nat
  /\ confidence \in Int
  /\ iterations \in Nat
  /\ turn \in Nat /\ passes \in Nat /\ drafts \in Nat
  /\ fed \in Nat \X Nat
  /\ judged \in Nat

\* No turn is reviewed more than MAX_ITERATIONS times, whatever iteration
\* count an earlier turn left in the checkpoint (builder.py:23, 39-44); and on
\* a thread that has used up its count a turn is reviewed once at most.
LoopBudget ==
  /\ passes <= MaxIterations
  /\ iterations > MaxIterations => passes <= 1

\* On a thread whose turns start afresh, a draft the critic scored below the
\* approval score ends the turn only once the whole budget of this turn is
\* spent ("budget exhausted - ship best effort", builder.py:43).
BestEffortOnlyWhenSpent ==
  ~checkpointed /\ node = "END" /\ confidence < ApprovalScore => passes = MaxIterations

\* What a turn ends with is the very draft the critic's last verdict is about:
\* the confidence shown beside an answer is that answer's.
ShippedIsJudged ==
  node = "END" => /\ drafts > 0
                  /\ judged = drafts
                  /\ answer.no \in {0, judged}

\* Each revision is written against the critique of the draft before it in the
\* same turn (nodes.py:163-164), whatever the checkpoint holds; so is a first
\* draft, against none, on a thread whose turns start afresh.
FeedbackIsCurrent ==
  drafts > 1 \/ (drafts = 1 /\ ~checkpointed) => fed = IF drafts = 1 THEN NoCritique ELSE <<turn, drafts - 1>>

\* Every turn comes to an end, by an answer or by a failure.
Termination == node = "planner" ~> node \in {"END", "failed"}

\* The agents carry out the review loop: the last review of a turn is
\* reported in confidence, and the turn's reviews are its rounds.  Nothing is
\* claimed of a checkpointed thread, where one turn spends the next one's rounds.
Phase ==
  IF checkpointed THEN "idle" ELSE
  CASE node = "START"  -> "idle"
    [] node = "END"    -> "shipped"
    [] node = "failed" -> "aborted"
    [] node = "critic" -> "reviewing"
    [] OTHER           -> "drafting"

Loop == INSTANCE ReviewLoop WITH
  Rounds   <- MaxIterations,
  phase    <- Phase,
  round    <- IF checkpointed THEN 0 ELSE passes,
  approved <- ~checkpointed /\ passes > 0 /\ confidence >= ApprovalScore

\* Without a checkpointer the graph implements ReviewLoop, its liveness included.
ImplementsReviewLoop == Loop!Spec
-----------------------------------------------------------------------------
\* builder.py:4-6, the topology: every route, the one through the executor
\* included, leads to finalizer, critic and END.  Checked where models and
\* retrieval always answer, so that only the code can stop a turn.
EveryRouteEnds == node = "planner" ~> node = "END"
=============================================================================
