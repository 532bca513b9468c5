-------------------------- MODULE AgentGraphProofs --------------------------
(***************************************************************************)
(* AgentGraph for every budget, score range, document set and number of    *)
(* turns.  CountInv ties the reviews and drafts of a turn to the node that *)
(* runs next, and the critique to the last review, with and without a      *)
(* checkpointer.  FreshInv adds what a turn can rely on when it starts     *)
(* from empty channels: iterations counts this turn's reviews only, and    *)
(* there is no critique before the first of them.                          *)
(***************************************************************************)
EXTENDS AgentGraph, TLAPS

CountInv ==
  /\ TypeOK
  /\ passes <= iterations
  /\ LoopBudget
  /\ Running => passes < MaxIterations
  /\ Running /\ passes > 0 => iterations < MaxIterations
  /\ node \in Agents \ {"critic"} => drafts = passes
  /\ node = "critic" => drafts = passes + 1 /\ answer.no \in {0, drafts}
  /\ node = "END" => drafts = passes
  /\ ShippedIsJudged
  /\ passes > 0 => critique = <<turn, passes>>
  /\ FeedbackIsCurrent

FreshInv ==
  /\ iterations = passes
  /\ passes = 0 => critique = NoCritique
  /\ BestEffortOnlyWhenSpent

IInv == CountInv /\ (~checkpointed => FreshInv)

USE LoopAssumption, HitsAssumption, ThreadAssumption

\* The thread before its first turn.
LEMMA InitIInv == Init => IInv
  BY DEF Init, GetCheckpointer, IInv, CountInv, FreshInv, TypeOK, LoopBudget, Running, Agents,
         ShippedIsJudged, FeedbackIsCurrent, BestEffortOnlyWhenSpent, NoAnswer,
         NoCritique, Capabilities

\* A new turn starts with nothing reviewed or drafted.
LEMMA InvokeIInv == IInv /\ Invoke => IInv'
<1> SUFFICES ASSUME IInv, Invoke PROVE IInv'
  OBVIOUS
<1>1. TypeOK'
  <2>1. CASE checkpointed
    BY <2>1 DEF IInv, CountInv, TypeOK, Invoke, channels, Agents, NoCritique
  <2>2. CASE ~checkpointed
    <3>1. NoAnswer \in [no : Nat, cites : Seq(Documents)] /\ NoCritique \in Nat \X Nat
      BY DEF NoAnswer, NoCritique
    <3> QED BY <2>2, <3>1 DEF IInv, CountInv, TypeOK, Invoke, Agents
  <2> QED BY <2>1, <2>2
<1>2. CountInv'
  BY <1>1 DEF IInv, CountInv, TypeOK, Invoke, channels, LoopBudget, Running, Agents,
              ShippedIsJudged, FeedbackIsCurrent
<1>3. ~checkpointed' => FreshInv'
  BY DEF Invoke, FreshInv, BestEffortOnlyWhenSpent
<1> QED BY <1>2, <1>3 DEF IInv

\* A node that raises ends the turn and changes nothing else.
LEMMA StopIInv == IInv /\ Stop => IInv'
  BY DEF IInv, CountInv, FreshInv, TypeOK, Stop, channels, history, LoopBudget, Running,
         Agents, ShippedIsJudged, FeedbackIsCurrent, BestEffortOnlyWhenSpent

\* A plan, whatever it asks for, leads to a node that comes before the critic.
LEMMA PlannerIInv == IInv /\ Planner => IInv'
<1> SUFFICES ASSUME IInv, Planner, ~Stop PROVE IInv'
  BY StopIInv
<1>1. PICK want \in SUBSET Capabilities :
        /\ needs' = want
        /\ node' = RouteAfterPlanner(want)
        /\ UNCHANGED <<checkpointed, notes, citations, answer, critique, confidence, iterations,
                       history>>
  BY DEF Planner, Raise
<1>2. node' \in {"executor", "researcher", "finalizer"} /\ node = "planner"
  BY <1>1 DEF RouteAfterPlanner, Planner
<1> QED
  BY <1>1, <1>2 DEF IInv, CountInv, FreshInv, TypeOK, history, LoopBudget, Running, Agents,
                    ShippedIsJudged, FeedbackIsCurrent, BestEffortOnlyWhenSpent

\* Research adds to its two channels and touches no count.
LEMMA ResearcherIInv == IInv /\ Researcher => IInv'
<1> SUFFICES ASSUME IInv, Researcher, ~Stop PROVE IInv'
  BY StopIInv
<1>1. PICK hits \in Search, found \in {0, 1} :
        /\ notes' = notes + found
        /\ citations' = Accumulate(citations, CitationsFrom(hits))
        /\ node' = RouteAfterResearcher
        /\ UNCHANGED <<checkpointed, needs, answer, critique, confidence, iterations, history>>
  BY DEF Researcher, Raise
<1>2. node' \in {"executor", "finalizer"} /\ node = "researcher"
  BY <1>1 DEF RouteAfterResearcher, Researcher
<1>3. citations' \in Seq(Documents) /\ notes' \in Nat
  <2>1. hits \in Seq(Documents) /\ CitationsFrom(hits) \in Seq(Documents)
    BY DEF Search, CitationsFrom
  <2> QED BY <1>1, <2>1 DEF IInv, CountInv, TypeOK, Accumulate
<1> QED
  BY <1>1, <1>2, <1>3 DEF IInv, CountInv, FreshInv, TypeOK, history, LoopBudget, Running,
                          Agents, ShippedIsJudged, FeedbackIsCurrent, BestEffortOnlyWhenSpent

\* A draft is one more than the reviews so far, and goes to the critic.
LEMMA FinalizerIInv == IInv /\ Finalizer => IInv'
<1> SUFFICES ASSUME IInv, Finalizer, ~Stop PROVE IInv'
  BY StopIInv
<1>1. node = "finalizer" /\ node' = "critic" /\ Draft
  BY DEF Finalizer, Raise
<1>2. answer' \in [no : Nat, cites : Seq(Documents)] /\ answer'.no \in {0, drafts + 1}
  BY <1>1 DEF Draft, NoAnswer, IInv, CountInv, TypeOK
<1>3. CountInv'
  <2>1. TypeOK'
    BY <1>1, <1>2 DEF IInv, CountInv, TypeOK, Draft, Agents
  <2>2. FeedbackIsCurrent'
    BY <1>1 DEF IInv, CountInv, FreshInv, TypeOK, Draft, Agents, FeedbackIsCurrent
  <2> QED
    BY <1>1, <1>2, <2>1, <2>2 DEF IInv, CountInv, TypeOK, Draft, LoopBudget, Running, Agents,
                                  ShippedIsJudged
<1>4. ASSUME ~checkpointed PROVE FreshInv'
  BY <1>1, <1>4 DEF IInv, FreshInv, Draft, BestEffortOnlyWhenSpent
<1>5. checkpointed' = checkpointed
  BY <1>1 DEF Draft
<1> QED BY <1>3, <1>4, <1>5 DEF IInv

\* A review ends the turn or leaves at least one round of the budget.
LEMMA CriticIInv == IInv /\ Critic => IInv'
<1> SUFFICES ASSUME IInv, Critic, ~Stop PROVE IInv'
  BY StopIInv
<1>1. PICK score \in Scores \cup {MalformedScore} : Judge(score)
  BY DEF Critic, Raise
<1>2. node = "critic" /\ critique' = <<turn, passes + 1>>
  BY DEF Critic, Raise
<1>3. \/ node' = "END" /\ (score >= ApprovalScore \/ iterations + 1 >= MaxIterations)
      \/ node' = "researcher" /\ iterations + 1 < MaxIterations
  BY <1>1 DEF Judge, RouteAfterCritic, IInv, CountInv, TypeOK
<1>4. CountInv'
  <2>1. LoopBudget'
    BY <1>1, <1>2, <1>3 DEF IInv, CountInv, TypeOK, Judge, LoopBudget, Running, Agents
  <2>2. TypeOK'
    BY <1>1, <1>2, <1>3 DEF IInv, CountInv, TypeOK, Judge, Agents
  <2> QED
    BY <1>1, <1>2, <1>3, <2>1, <2>2 DEF IInv, CountInv, TypeOK, Judge, LoopBudget, Running,
                                    Agents, ShippedIsJudged, FeedbackIsCurrent
<1>5. ASSUME ~checkpointed PROVE FreshInv'
  BY <1>1, <1>2, <1>3, <1>5 DEF IInv, CountInv, FreshInv, TypeOK, Judge, LoopBudget, Running,
                                Agents, BestEffortOnlyWhenSpent
<1>6. checkpointed' = checkpointed
  BY <1>1 DEF Judge
<1> QED BY <1>4, <1>5, <1>6 DEF IInv

\* The invariant holds in every state of every thread.
THEOREM Inductive == Spec => []IInv
<1>1. IInv /\ UNCHANGED vars => IInv'
  BY DEF IInv, CountInv, FreshInv, TypeOK, vars, channels, history, LoopBudget, Running,
         Agents, ShippedIsJudged, FeedbackIsCurrent, BestEffortOnlyWhenSpent
<1>2. IInv /\ Executor => IInv'
  BY StopIInv DEF Executor
<1>3. IInv /\ [Next]_vars => IInv'
  BY <1>1, <1>2, InvokeIInv, PlannerIInv, ResearcherIInv, FinalizerIInv, CriticIInv
     DEF Next, Agent
<1> QED BY <1>3, InitIInv, PTL DEF Spec

\* Every channel keeps its type: the reducers concatenate lists of documents,
\* and the counters stay naturals.
THEOREM TypeCorrect == Spec => []TypeOK
  BY Inductive, PTL DEF IInv, CountInv

\* The revision budget bounds every turn, whatever the checkpoint holds.
THEOREM Budget == Spec => []LoopBudget
  BY Inductive, PTL DEF IInv, CountInv

\* A turn ends with the draft its last verdict is about.
THEOREM Judged == Spec => []ShippedIsJudged
  BY Inductive, PTL DEF IInv, CountInv

\* Without a checkpointer, a rejected draft ships only with the budget spent.
THEOREM BestEffort == Spec => []BestEffortOnlyWhenSpent
<1>1. IInv => BestEffortOnlyWhenSpent
  BY DEF IInv, FreshInv, BestEffortOnlyWhenSpent
<1> QED BY <1>1, Inductive, PTL

\* A revision answers the critique of the draft before it, with and without a
\* checkpointer, and without one a first draft answers none.
THEOREM Feedback == Spec => []FeedbackIsCurrent
  BY Inductive, PTL DEF IInv, CountInv
-----------------------------------------------------------------------------
\* One step of the graph is one step of the review loop, or none.
LEMMA StepSimulates ==
  ASSUME IInv, [Next]_vars
  PROVE  [Loop!Next]_(Loop!vars)
<1>a. checkpointed' = checkpointed
  BY DEF Next, Invoke, Agent, Planner, Researcher, Executor, Finalizer, Critic, Raise, Stop,
         Draft, Judge, vars
<1>b. CASE checkpointed
  BY <1>a, <1>b DEF Loop!vars, Phase
<1> SUFFICES ASSUME ~checkpointed, ~checkpointed' PROVE [Loop!Next]_(Loop!vars)
  BY <1>a, <1>b
<1> USE DEF Loop!Next, Loop!Work, Loop!vars
<1>0. FreshInv /\ TypeOK
  BY DEF IInv, CountInv
<1>1. CASE Invoke
  <2>1. Phase \in {"idle", "shipped", "aborted"}
    BY <1>0, <1>1 DEF Invoke, Running, TypeOK, Phase
  <2>2. Phase' = "drafting" /\ passes' = 0
    BY <1>1 DEF Invoke, Phase
  <2> QED BY <2>1, <2>2 DEF Loop!Begin
<1>2. ASSUME Stop, node \in Agents PROVE Loop!Abort
  BY <1>2 DEF Loop!Abort, Stop, Phase, Agents, channels, history
<1>3. CASE Planner
  <2>1. CASE Stop
    BY <1>2, <1>3, <2>1 DEF Planner, Agents
  <2>2. CASE ~Stop
    <3>1. node' \in {"executor", "researcher", "finalizer"} /\ node = "planner"
          /\ UNCHANGED <<passes, confidence>>
      BY <1>3, <2>2 DEF Planner, Raise, RouteAfterPlanner, history
    <3> QED BY <3>1 DEF Phase
  <2> QED BY <2>1, <2>2
<1>4. CASE Researcher
  <2>1. CASE Stop
    BY <1>2, <1>4, <2>1 DEF Researcher, Agents
  <2>2. CASE ~Stop
    <3>1. node' \in {"executor", "finalizer"} /\ node = "researcher"
          /\ UNCHANGED <<passes, confidence>>
      BY <1>4, <2>2 DEF Researcher, Raise, RouteAfterResearcher, history
    <3> QED BY <3>1 DEF Phase
  <2> QED BY <2>1, <2>2
<1>5. CASE Executor
  BY <1>2, <1>5 DEF Executor, Agents
<1>6. CASE Finalizer
  <2>1. CASE Stop
    BY <1>2, <1>6, <2>1 DEF Finalizer, Agents
  <2>2. CASE ~Stop
    <3>1. node = "finalizer" /\ node' = "critic" /\ UNCHANGED <<passes, confidence>>
      BY <1>6, <2>2 DEF Finalizer, Raise, Draft
    <3> QED BY <3>1 DEF Phase, Loop!Submit
  <2> QED BY <2>1, <2>2
<1>7. CASE Critic
  <2>1. CASE Stop
    BY <1>2, <1>7, <2>1 DEF Critic, Agents
  <2>2. CASE ~Stop
    <3>1. PICK score \in Scores \cup {MalformedScore} : Judge(score)
      BY <1>7, <2>2 DEF Critic, Raise
    <3>2. Phase = "reviewing"
      BY <1>7 DEF Critic, Phase
    <3>3. CASE score >= ApprovalScore
      <4>1. Phase' = "shipped"
        BY <3>1, <3>3 DEF Judge, RouteAfterCritic, Phase
      <4> QED BY <1>0, <3>1, <3>2, <3>3, <4>1 DEF Loop!Approve, Judge, TypeOK
    <3>4. CASE ~(score >= ApprovalScore)
      <4>1. Phase' = IF passes + 1 < MaxIterations THEN "drafting" ELSE "shipped"
        BY <1>0, <3>1, <3>4 DEF Judge, RouteAfterCritic, FreshInv, TypeOK, Phase
      <4> QED BY <1>0, <3>1, <3>2, <3>4, <4>1 DEF Loop!Reject, Judge, TypeOK
    <3> QED BY <3>3, <3>4
  <2> QED BY <2>1, <2>2
<1>8. CASE UNCHANGED vars
  BY <1>8 DEF vars, channels, history, Phase
<1> QED BY <1>1, <1>3, <1>4, <1>5, <1>6, <1>7, <1>8 DEF Next, Agent

\* The graph implements the review loop's safety part, in the mapping that
\* claims nothing of a checkpointed thread.
THEOREM Simulation == Spec => Loop!Init /\ [][Loop!Next]_(Loop!vars)
<1>1. Init => Loop!Init
  BY DEF Init, Loop!Init, Phase
<1>2. IInv /\ [Next]_vars => [Loop!Next]_(Loop!vars)
  BY StepSimulates
<1> QED BY <1>1, <1>2, Inductive, PTL DEF Spec
=============================================================================
