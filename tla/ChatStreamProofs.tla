-------------------------- MODULE ChatStreamProofs --------------------------
(***************************************************************************)
(* Safety of the chat stream for every budget, score range, document set   *)
(* and number of turns.  Delivery says that what the generator has merged, *)
(* together with what is still queued, amounts to the graph's own state;   *)
(* Stages says what has been sent and stored at each place of the          *)
(* generator.                                                              *)
(***************************************************************************)
EXTENDS ChatStream, AgentGraphProofs

Drafted    == [no : Nat, cites : Seq(Documents)]
OutputType == [agent : Agents \ {"executor"}, notes : {0, 1}, citations : Seq(Documents),
               answer : Drafted, confidence : Int]
FinalState == [usage : Seq(Agents), notes : {0, 1}, citations : Seq(Documents),
               answer : Drafted, confidence : Int]
Row        == [turn : Nat, role : {"user", "assistant"}, no : Nat]
Bill       == [turn : Nat, agent : Agents]

Ending == {"evidence", "answer", "persist", "usage", "done"}
Sent   == {"persist", "usage", "done"}

Types ==
  /\ gen \in {"closed", "streaming"} \cup Ending
  /\ queue \in Seq(OutputType)
  /\ merged \in FinalState
  /\ frames \in Seq({"evidence", "answer", "error", "done"})
  /\ usage \in Seq(Agents)
  /\ messages \in Seq(Row)
  /\ billed \in Seq(Bill)
  /\ refused \in BOOLEAN

\* The i-th output of q is the agent's last one in it.
Newest(q, agent, i) == q[i].agent = agent /\ \A j \in (i + 1)..Len(q) : q[j].agent # agent
Silent(q, agent) == \A i \in 1..Len(q) : q[i].agent # agent

\* The queue brings what the graph has: its newest draft and score.
Delivery ==
  gen = "streaming" =>
    /\ drafts > 0 =>
         /\ Silent(queue, "finalizer") => merged.answer = answer
         /\ \A i \in 1..Len(queue) : Newest(queue, "finalizer", i) => queue[i].answer = answer
    /\ passes > 0 =>
         /\ Silent(queue, "critic") => merged.confidence = confidence
         /\ \A i \in 1..Len(queue) : Newest(queue, "critic", i) => queue[i].confidence = confidence

\* The answer frame is out if there is an answer.
Told ==
  \/ shown = NoFrame /\ merged.answer.no = 0
  \/ /\ merged.answer.no > 0 /\ "answer" \in Range(frames)
     /\ shown.no = merged.answer.no /\ shown.confidence = merged.confidence

Stages ==
  /\ gen \in {"streaming", "evidence"} => frames = <<>>
  /\ gen = "answer" => Range(frames) \subseteq {"evidence"}
  /\ gen \in Sent => Range(frames) \subseteq {"evidence", "answer"}
  /\ gen \in {"streaming", "evidence", "answer"} => shown = NoFrame
  /\ gen \in {"streaming", "evidence", "answer", "persist"} => Saved = {}
  /\ gen \notin {"closed", "done"} => Paid = {}
  /\ gen \in Ending => /\ node = "END" /\ queue = <<>>
                       /\ merged.answer = answer /\ merged.confidence = confidence
  /\ gen \in Sent => Told
  /\ gen = "usage" \/ (gen = "done" /\ ~refused) => (Saved # {} <=> shown # NoFrame)

\* No row is of a turn to come.
Past ==
  /\ \A row \in Range(messages) : row.turn <= turn
  /\ \A row \in Range(billed) : row.turn <= turn

StreamInv ==
  /\ IInv /\ Types /\ Delivery /\ Stages /\ Past
  /\ FailedTurnLeavesNoTrace /\ ShownIsJudged /\ SavedWasShown /\ DoneAfterSave

USE LoopAssumption, HitsAssumption, ThreadAssumption
-----------------------------------------------------------------------------
\* What a queue's newest outputs are after one more, and after one less.
LEMMA AppendNewest ==
  ASSUME NEW q \in Seq(OutputType), NEW out \in OutputType, NEW agent \in Agents
  PROVE  /\ Silent(Append(q, out), agent) => out.agent # agent /\ Silent(q, agent)
         /\ \A i \in 1..Len(Append(q, out)) : Newest(Append(q, out), agent, i) =>
              IF out.agent = agent THEN Append(q, out)[i] = out
              ELSE i \in 1..Len(q) /\ Append(q, out)[i] = q[i] /\ Newest(q, agent, i)
<1> DEFINE r == Append(q, out)
<1>1. Len(r) = Len(q) + 1 /\ r[Len(q) + 1] = out /\ \A i \in 1..Len(q) : r[i] = q[i]
  OBVIOUS
<1> HIDE DEF r
<1>2. Silent(r, agent) => out.agent # agent /\ Silent(q, agent)
  BY <1>1 DEF Silent
<1>3. ASSUME NEW i \in 1..Len(r), Newest(r, agent, i)
      PROVE  IF out.agent = agent THEN r[i] = out
             ELSE i \in 1..Len(q) /\ r[i] = q[i] /\ Newest(q, agent, i)
  <2>1. CASE i = Len(q) + 1
    BY <1>1, <1>3, <2>1 DEF Newest
  <2>2. CASE i \in 1..Len(q)
    <3>1. out.agent # agent
      BY <1>1, <1>3, <2>2 DEF Newest
    <3> QED BY <1>1, <1>3, <2>2, <3>1 DEF Newest
  <2> QED BY <1>1, <2>1, <2>2
<1> QED BY <1>2, <1>3 DEF r

\* If nothing behind the head of a queue is of an agent, its newest output is
\* the head, or there is none.
LEMMA TailNewest ==
  ASSUME NEW q \in Seq(OutputType), q # <<>>, NEW agent \in Agents
  PROVE  /\ Head(q) \in OutputType /\ Tail(q) \in Seq(OutputType)
         /\ Silent(Tail(q), agent) =>
              IF Head(q).agent = agent THEN Newest(q, agent, 1) ELSE Silent(q, agent)
         /\ \A i \in 1..Len(Tail(q)) : Newest(Tail(q), agent, i) =>
              i + 1 \in 1..Len(q) /\ Tail(q)[i] = q[i + 1] /\ Newest(q, agent, i + 1)
<1> DEFINE r == Tail(q)
<1>1. /\ r \in Seq(OutputType) /\ Len(q) \in Nat \ {0} /\ Len(r) = Len(q) - 1
      /\ Head(q) = q[1] /\ q[1] \in OutputType
      /\ \A i \in 1..Len(r) : r[i] = q[i + 1]
  OBVIOUS
<1> HIDE DEF r
<1>2. ASSUME Silent(r, agent) PROVE \A j \in 2..Len(q) : q[j].agent # agent
  <2> SUFFICES ASSUME NEW j \in 2..Len(q) PROVE q[j].agent # agent
    OBVIOUS
  <2>1. j - 1 \in 1..Len(r) /\ r[j - 1] = q[j]
    BY <1>1
  <2> QED BY <1>2, <2>1 DEF Silent
<1>3. Silent(r, agent) => IF Head(q).agent = agent THEN Newest(q, agent, 1) ELSE Silent(q, agent)
  BY <1>1, <1>2 DEF Silent, Newest
<1>4. ASSUME NEW i \in 1..Len(r), Newest(r, agent, i)
      PROVE  i + 1 \in 1..Len(q) /\ r[i] = q[i + 1] /\ Newest(q, agent, i + 1)
  <2>1. i + 1 \in 1..Len(q) /\ r[i] = q[i + 1]
    BY <1>1
  <2>2. ASSUME NEW j \in (i + 2)..Len(q) PROVE q[j].agent # agent
    <3>1. j - 1 \in (i + 1)..Len(r) /\ r[j - 1] = q[j]
      BY <1>1, <2>2
    <3> QED BY <1>4, <3>1 DEF Newest
  <2> QED BY <1>4, <2>1, <2>2 DEF Newest
<1> QED BY <1>1, <1>3, <1>4 DEF r

\* The members of a list after one more.
LEMMA AppendRange ==
  ASSUME NEW S, NEW s \in Seq(S), NEW e
  PROVE  Range(Append(s, e)) = Range(s) \cup {e}
<1>1. Len(Append(s, e)) = Len(s) + 1 /\ Append(s, e)[Len(s) + 1] = e
      /\ \A i \in 1..Len(s) : Append(s, e)[i] = s[i]
  OBVIOUS
<1>2. 1..(Len(s) + 1) = 1..Len(s) \cup {Len(s) + 1}
  OBVIOUS
<1> QED BY <1>1, <1>2 DEF Range

\* The members of a sequence over S are of S.
LEMMA RangeType ==
  ASSUME NEW S, NEW s \in Seq(S)
  PROVE  Range(s) \subseteq S
  BY DEF Range

\* The empty sequence has no members, and is a sequence over any set.
LEMMA EmptySequence == Range(<<>>) = {} /\ \A S : <<>> \in Seq(S)
  BY DEF Range
-----------------------------------------------------------------------------
\* Before the first question there is no stream.
LEMMA StreamInitInv == StreamInit => StreamInv
<1> SUFFICES ASSUME StreamInit PROVE StreamInv
  OBVIOUS
<1>1. NoAnswer \in Drafted /\ Nothing \in FinalState
  BY DEF NoAnswer, Drafted, Nothing, FinalState
<1>2. Types
  BY <1>1, EmptySequence DEF StreamInit, Types, Ending
<1>3. Delivery /\ Stages
  BY EmptySequence DEF StreamInit, Delivery, Stages, Ending, Sent, Saved, Paid
<1>4. Past /\ FailedTurnLeavesNoTrace /\ ShownIsJudged /\ SavedWasShown /\ DoneAfterSave
  BY EmptySequence DEF StreamInit, Past, FailedTurnLeavesNoTrace, ShownIsJudged, SavedWasShown,
     DoneAfterSave, Saved
<1> QED BY <1>2, <1>3, <1>4, InitIInv DEF StreamInit, StreamInv

\* A question opens a stream with nothing sent and nothing stored of its turn.
LEMMA AskInv == StreamInv /\ Ask => StreamInv'
<1> SUFFICES ASSUME StreamInv, Ask PROVE StreamInv'
  OBVIOUS
<1>0. IInv' /\ turn \in Nat /\ turn' = turn + 1 /\ drafts' = 0 /\ passes' = 0 /\ UNCHANGED billed
  BY InvokeIInv DEF StreamInv, Ask, Invoke, IInv, CountInv, TypeOK
<1> DEFINE row == Message(turn', "user", 0)
<1>1. row \in Row /\ row.turn = turn' /\ row.role = "user" /\ messages' = Append(messages, row)
  BY <1>0 DEF Message, Row, Ask
<1> HIDE DEF row
<1>2. Range(messages') = Range(messages) \cup {row}
  BY <1>1, AppendRange DEF StreamInv, Types
<1>3. /\ gen' = "streaming" /\ queue' = <<>> /\ merged' = Nothing /\ frames' = <<>>
      /\ shown' = NoFrame /\ usage' \in {usage, <<>>} /\ refused' = FALSE
  BY DEF Ask
<1>4. Types'
  <2>1. Nothing \in FinalState
    BY DEF Nothing, FinalState, NoAnswer, Drafted
  <2>2. messages \in Seq(Row) /\ usage \in Seq(Agents) /\ billed \in Seq(Bill)
    BY DEF StreamInv, Types
  <2>3. messages' \in Seq(Row)
    BY <1>1, <2>2
  <2>4. usage' \in Seq(Agents)
    BY <1>3, <2>2, EmptySequence
  <2> QED BY <1>0, <1>3, <2>1, EmptySequence, <2>2, <2>3, <2>4 DEF Types, Ending
<1>5. Past'
  <2>1. Range(messages) \subseteq Row /\ Range(billed) \subseteq Bill
    BY RangeType DEF StreamInv, Types
  <2>2. \A r \in Row \cup Bill : r.turn \in Nat
    BY DEF Row, Bill
  <2> QED BY <1>0, <1>1, <1>2, <2>1, <2>2 DEF StreamInv, Past
<1>6. Saved' = {} /\ Paid' = {}
  BY <1>0, <1>1, <1>2 DEF StreamInv, Past, Saved, Paid
<1>7. Delivery' /\ Stages'
  BY <1>0, <1>3, <1>6 DEF Delivery, Stages, Ending, Sent
<1>8. (FailedTurnLeavesNoTrace /\ ShownIsJudged /\ SavedWasShown /\ DoneAfterSave)'
  BY <1>3, <1>6, EmptySequence DEF FailedTurnLeavesNoTrace, ShownIsJudged, SavedWasShown,
     DoneAfterSave
<1> QED BY <1>0, <1>4, <1>5, <1>7, <1>8 DEF StreamInv

\* What a node that does not raise leaves to the stream.
LEMMA AgentStep ==
  ASSUME IInv, Agent, ~Stop
  PROVE  /\ node \in Agents \ {"executor"} /\ node' # "failed"
         /\ notes' - notes \in {0, 1}
         /\ node # "finalizer" => answer' = answer /\ drafts' = drafts
         /\ node # "critic" => confidence' = confidence /\ passes' = passes
         /\ turn' = turn
<1>0. notes \in Nat
  BY DEF IInv, CountInv, TypeOK
<1>1. CASE Planner
  BY <1>0, <1>1 DEF Planner, Raise, RouteAfterPlanner, history, Agents
<1>2. CASE Researcher
  BY <1>0, <1>2 DEF Researcher, Raise, RouteAfterResearcher, history, Agents
<1>3. CASE Finalizer
  BY <1>0, <1>3 DEF Finalizer, Raise, Draft, Agents
<1>4. CASE Critic
  BY <1>0, <1>4 DEF Critic, Raise, Judge, RouteAfterCritic, Agents
<1> QED BY <1>1, <1>2, <1>3, <1>4 DEF Agent, Executor

\* A node's output joins the queue with what the graph then has.
LEMMA GraphStepInv == StreamInv /\ GraphStep => StreamInv'
<1> SUFFICES ASSUME StreamInv, GraphStep PROVE StreamInv'
  OBVIOUS
<1>0. /\ IInv /\ IInv'
      /\ gen = "streaming" /\ shown = NoFrame /\ frames = <<>>
      /\ UNCHANGED <<gen, merged, frames, shown, messages, billed, refused>>
  <2>1. IInv /\ [Next]_vars
    BY DEF StreamInv, GraphStep, Next
  <2>2. IInv'
    BY <2>1, StopIInv, PlannerIInv, ResearcherIInv, FinalizerIInv, CriticIInv
       DEF GraphStep, Agent, Executor
  <2> QED BY <2>1, <2>2 DEF GraphStep, tables, StreamInv, Stages
<1>1. turn' = turn
  <2>1. Stop => turn' = turn
    BY DEF Stop, history
  <2> QED BY <1>0, <2>1, AgentStep DEF GraphStep
<1>2. Saved' = {} /\ Paid' = {} /\ Past'
  BY <1>0, <1>1 DEF StreamInv, Stages, Saved, Paid, Past
<1>3. (FailedTurnLeavesNoTrace /\ ShownIsJudged /\ SavedWasShown /\ DoneAfterSave)'
  BY <1>0, <1>2, EmptySequence DEF FailedTurnLeavesNoTrace, ShownIsJudged, SavedWasShown,
     DoneAfterSave
<1>4. Stages'
  BY <1>0, <1>2 DEF Stages, Ending, Sent
<1>5. Types' /\ Delivery'
  <2>1. CASE Stop
    <3>1. UNCHANGED <<queue, usage, answer, confidence, drafts, passes>>
      BY <2>1 DEF GraphStep, Stop, channels, history
    <3> QED BY <1>0, <3>1 DEF StreamInv, Types, Delivery
  <2>2. CASE ~Stop
    <3> DEFINE out == Output(node)
    <3>1. /\ node \in Agents \ {"executor"} /\ node' # "failed" /\ notes' - notes \in {0, 1}
          /\ node # "finalizer" => answer' = answer /\ drafts' = drafts
          /\ node # "critic" => confidence' = confidence /\ passes' = passes
      BY <1>0, <2>2, AgentStep DEF GraphStep
    <3>2. queue' = Append(queue, out) /\ usage' = usage \o <<node>>
      BY <3>1 DEF GraphStep, Accumulate, Usage
    <3>3. /\ answer' \in Drafted /\ confidence' \in Int
          /\ citations \in Seq(Documents) /\ citations' \in Seq(Documents)
      BY <1>0 DEF IInv, CountInv, TypeOK, Drafted
    <3>4. SubSeq(citations', Len(citations) + 1, Len(citations')) \in Seq(Documents)
      BY <3>3
    <3>5. /\ out \in OutputType /\ out.agent = node
          /\ out.answer = answer' /\ out.confidence = confidence'
      BY <3>1, <3>3, <3>4 DEF Output, OutputType
    <3> HIDE DEF out
    <3>6. queue \in Seq(OutputType) /\ usage \in Seq(Agents)
      BY DEF StreamInv, Types
    <3>7. Types'
      BY <1>0, <3>1, <3>2, <3>5, <3>6 DEF StreamInv, Types
    <3>8. /\ out \in OutputType /\ queue \in Seq(OutputType) /\ queue' = Append(queue, out)
          /\ "finalizer" \in Agents /\ "critic" \in Agents
      BY <3>2, <3>5, <3>6 DEF Agents
    <3>9. ASSUME drafts' > 0
          PROVE  /\ Silent(queue', "finalizer") => merged'.answer = answer'
                 /\ \A i \in 1..Len(queue') :
                      Newest(queue', "finalizer", i) => queue'[i].answer = answer'
      <4>1. CASE node = "finalizer"
        BY <3>5, <3>8, <4>1, AppendNewest
      <4>2. CASE node # "finalizer"
        <5>1. answer' = answer /\ drafts > 0 /\ merged' = merged
          BY <1>0, <3>1, <3>9, <4>2
        <5>2. /\ Silent(queue, "finalizer") => merged.answer = answer
              /\ \A i \in 1..Len(queue) : Newest(queue, "finalizer", i) => queue[i].answer = answer
          BY <1>0, <5>1 DEF StreamInv, Delivery
        <5> QED BY <3>5, <3>8, <4>2, <5>1, <5>2, AppendNewest
      <4> QED BY <4>1, <4>2
    <3>10. ASSUME passes' > 0
           PROVE  /\ Silent(queue', "critic") => merged'.confidence = confidence'
                  /\ \A i \in 1..Len(queue') :
                       Newest(queue', "critic", i) => queue'[i].confidence = confidence'
      <4>1. CASE node = "critic"
        BY <3>5, <3>8, <4>1, AppendNewest
      <4>2. CASE node # "critic"
        <5>1. confidence' = confidence /\ passes > 0 /\ merged' = merged
          BY <1>0, <3>1, <3>10, <4>2
        <5>2. /\ Silent(queue, "critic") => merged.confidence = confidence
              /\ \A i \in 1..Len(queue) : Newest(queue, "critic", i) => queue[i].confidence = confidence
          BY <1>0, <5>1 DEF StreamInv, Delivery
        <5> QED BY <3>5, <3>8, <4>2, <5>1, <5>2, AppendNewest
      <4> QED BY <4>1, <4>2
    <3> QED BY <3>7, <3>9, <3>10 DEF Delivery
  <2> QED BY <2>1, <2>2
<1> QED BY <1>0, <1>2, <1>3, <1>4, <1>5 DEF StreamInv
-----------------------------------------------------------------------------
\* The generator does not touch the graph.
LEMMA KeptIInv == IInv /\ UNCHANGED vars => IInv'
  BY DEF IInv, CountInv, FreshInv, TypeOK, vars, channels, history, LoopBudget, Running,
         Agents, ShippedIsJudged, FeedbackIsCurrent, BestEffortOnlyWhenSpent

\* Merging the head of the queue brings the final state nearer to the graph's.
LEMMA DeliverInv == StreamInv /\ Deliver => StreamInv'
<1> SUFFICES ASSUME StreamInv, Deliver PROVE StreamInv'
  OBVIOUS
<1> DEFINE out == Head(queue)
<1>1. /\ gen = "streaming" /\ queue # <<>> /\ queue' = Tail(queue) /\ merged' = Merge(merged, out)
      /\ UNCHANGED <<gen, frames, shown, usage, messages, billed, refused>>
      /\ UNCHANGED <<turn, drafts, passes, answer, confidence, judged>> /\ IInv'
  BY KeptIInv DEF Deliver, tables, vars, channels, history, StreamInv
<1>2. /\ queue \in Seq(OutputType) /\ merged \in FinalState
      /\ out \in OutputType /\ queue' \in Seq(OutputType)
      /\ "finalizer" \in Agents /\ "critic" \in Agents
  BY <1>1 DEF StreamInv, Types, Agents
<1> HIDE DEF out
<1>3. /\ merged'.answer = IF out.agent = "finalizer" THEN out.answer ELSE merged.answer
      /\ merged'.confidence = IF out.agent = "critic" THEN out.confidence ELSE merged.confidence
  BY <1>1, <1>2 DEF Merge, FinalState
<1>4. merged' \in FinalState
  <2>1. <<out.agent>> \in Seq(Agents)
    BY <1>2 DEF OutputType
  <2> QED BY <1>1, <1>2, <2>1 DEF Merge, Usage, FinalState, OutputType
<1>5. queue[1] = out /\ Len(queue) \in Nat \ {0}
  BY <1>1, <1>2 DEF out
<1>6. ASSUME drafts' > 0
      PROVE  /\ Silent(queue', "finalizer") => merged'.answer = answer'
             /\ \A i \in 1..Len(queue') :
                  Newest(queue', "finalizer", i) => queue'[i].answer = answer'
  <2>1. /\ Silent(queue, "finalizer") => merged.answer = answer
        /\ \A i \in 1..Len(queue) : Newest(queue, "finalizer", i) => queue[i].answer = answer
    BY <1>1, <1>6 DEF StreamInv, Delivery
  <2> QED BY <1>1, <1>2, <1>3, <1>5, <2>1, TailNewest DEF out
<1>7. ASSUME passes' > 0
      PROVE  /\ Silent(queue', "critic") => merged'.confidence = confidence'
             /\ \A i \in 1..Len(queue') :
                  Newest(queue', "critic", i) => queue'[i].confidence = confidence'
  <2>1. /\ Silent(queue, "critic") => merged.confidence = confidence
        /\ \A i \in 1..Len(queue) : Newest(queue, "critic", i) => queue[i].confidence = confidence
    BY <1>1, <1>7 DEF StreamInv, Delivery
  <2> QED BY <1>1, <1>2, <1>3, <1>5, <2>1, TailNewest DEF out
<1>8. Types' /\ Delivery'
  BY <1>1, <1>2, <1>4, <1>6, <1>7 DEF StreamInv, Types, Delivery
<1>9. Saved' = Saved /\ Paid' = Paid /\ Past'
  BY <1>1 DEF StreamInv, Saved, Paid, Past
<1>10. Stages'
  BY <1>1, <1>9 DEF StreamInv, Stages, Ending, Sent
<1>11. (FailedTurnLeavesNoTrace /\ ShownIsJudged /\ SavedWasShown /\ DoneAfterSave)'
  BY <1>1, <1>9 DEF StreamInv, FailedTurnLeavesNoTrace, ShownIsJudged, SavedWasShown,
     DoneAfterSave
<1> QED BY <1>1, <1>8, <1>9, <1>10, <1>11 DEF StreamInv

\* The queue is empty when the graph's end or exception reaches the generator:
\* everything the graph has is merged.
LEMMA PipelineInv == StreamInv /\ (PipelineFailed \/ PipelineEnded) => StreamInv'
<1> SUFFICES ASSUME StreamInv, PipelineFailed \/ PipelineEnded PROVE StreamInv'
  OBVIOUS
<1>0. Append(<<>>, "error") = <<"error">>
  OBVIOUS
<1>1. /\ gen = "streaming" /\ queue = <<>> /\ frames = <<>> /\ shown = NoFrame
      /\ Saved = {} /\ Paid = {}
      /\ \/ node = "failed" /\ frames' = <<"error">> /\ gen' = "closed"
         \/ node = "END" /\ frames' = frames /\ gen' = "evidence"
      /\ UNCHANGED <<queue, merged, shown, usage, messages, billed, refused>>
      /\ UNCHANGED <<node, turn, drafts, passes, answer, confidence, judged>> /\ IInv'
  BY <1>0, KeptIInv DEF PipelineFailed, PipelineEnded, tables, vars, channels, history, StreamInv,
     Stages
<1>2. node = "END" => merged.answer = answer /\ merged.confidence = confidence
  <2>1. Silent(queue, "finalizer") /\ Silent(queue, "critic")
    BY <1>1 DEF Silent
  <2>2. node = "END" => drafts > 0 /\ passes > 0
    BY DEF StreamInv, IInv, CountInv, ShippedIsJudged
  <2> QED BY <1>1, <2>1, <2>2 DEF StreamInv, Delivery
<1>3. Types'
  <2>1. <<"error">> \in Seq({"evidence", "answer", "error", "done"})
    OBVIOUS
  <2>2. frames' \in Seq({"evidence", "answer", "error", "done"})
    BY <1>1, <2>1, EmptySequence
  <2> QED BY <1>1, <2>2 DEF StreamInv, Types, Ending
<1>4. Saved' = Saved /\ Paid' = Paid /\ Past' /\ Delivery'
  BY <1>1 DEF StreamInv, Saved, Paid, Past, Delivery
<1>5. Stages'
  BY <1>1, <1>2, <1>4 DEF StreamInv, Stages, Ending, Sent
<1>6. Range(<<"error">>) = {"error"}
  BY DEF Range
<1>7. (FailedTurnLeavesNoTrace /\ ShownIsJudged /\ SavedWasShown /\ DoneAfterSave)'
  BY <1>1, <1>4, <1>6, EmptySequence DEF FailedTurnLeavesNoTrace, ShownIsJudged,
     SavedWasShown, DoneAfterSave
<1> QED BY <1>1, <1>3, <1>4, <1>5, <1>7 DEF StreamInv

\* The frames of a turn that ended.
LEMMA FramesInv == StreamInv /\ (Evidence \/ Answer) => StreamInv'
<1> SUFFICES ASSUME StreamInv, Evidence \/ Answer PROVE StreamInv'
  OBVIOUS
<1>1. /\ shown = NoFrame /\ Saved = {} /\ Paid = {}
      /\ node = "END" /\ queue = <<>> /\ merged.answer = answer /\ merged.confidence = confidence
      /\ UNCHANGED <<queue, merged, usage, messages, billed, refused>>
      /\ UNCHANGED <<node, turn, drafts, passes, answer, confidence, judged>> /\ IInv'
  BY KeptIInv DEF Evidence, Answer, tables, vars, channels, history, StreamInv, Stages, Ending
<1>2. /\ frames \in Seq({"evidence", "answer", "error", "done"})
      /\ answer.no \in Nat /\ answer.no \in {0, judged}
  BY <1>1 DEF StreamInv, Types, IInv, CountInv, TypeOK, ShippedIsJudged
<1>3. \/ /\ gen = "evidence" /\ gen' = "answer" /\ shown' = NoFrame
         /\ frames' \in {frames, Append(frames, "evidence")} /\ Range(frames) = {}
      \/ /\ gen = "answer" /\ gen' = "persist" /\ frames' = frames /\ shown' = NoFrame
         /\ answer.no = 0 /\ Range(frames) \subseteq {"evidence"}
      \/ /\ gen = "answer" /\ gen' = "persist" /\ frames' = Append(frames, "answer")
         /\ shown'.no = answer.no /\ answer.no > 0 /\ shown'.confidence = confidence
         /\ Range(frames) \subseteq {"evidence"}
  BY <1>1, <1>2, EmptySequence DEF Evidence, Answer, StreamInv, Stages
<1>4. \A e : Range(Append(frames, e)) = Range(frames) \cup {e}
  BY <1>2, AppendRange
<1>5. Types'
  <2>1. frames' \in Seq({"evidence", "answer", "error", "done"})
    BY <1>2, <1>3
  <2> QED BY <1>1, <1>3, <2>1 DEF StreamInv, Types, Ending
<1>6. Saved' = {} /\ Paid' = {} /\ Past' /\ Delivery'
  BY <1>1, <1>3 DEF StreamInv, Saved, Paid, Past, Delivery
<1>7. /\ Range(frames') \subseteq {"evidence", "answer"}
      /\ gen' = "answer" => Range(frames') \subseteq {"evidence"}
  <2>1. CASE frames' = frames
    BY <1>3, <2>1
  <2>2. CASE frames' = Append(frames, "evidence") /\ Range(frames) = {}
    BY <1>4, <2>2
  <2>3. CASE frames' = Append(frames, "answer") /\ Range(frames) \subseteq {"evidence"} /\ gen' = "persist"
    BY <1>4, <2>3
  <2> QED BY <1>3, <2>1, <2>2, <2>3
<1>8. gen' \in Sent => Told'
  BY <1>1, <1>3, <1>4 DEF Told, Sent
<1>9. Stages'
  BY <1>1, <1>3, <1>6, <1>7, <1>8 DEF Stages, Ending, Sent
<1>10. ShownIsJudged'
  BY <1>1, <1>2, <1>3 DEF ShownIsJudged
<1>11. (FailedTurnLeavesNoTrace /\ SavedWasShown /\ DoneAfterSave)'
  BY <1>6, <1>7 DEF FailedTurnLeavesNoTrace, SavedWasShown, DoneAfterSave
<1> QED BY <1>1, <1>5, <1>6, <1>9, <1>10, <1>11 DEF StreamInv
\* The answer that was sent is stored, or the database refused it.
LEMMA PersistMessageInv == StreamInv /\ PersistMessage => StreamInv'
<1> SUFFICES ASSUME StreamInv, PersistMessage PROVE StreamInv'
  OBVIOUS
<1> DEFINE row == Message(turn, "assistant", merged.answer.no)
<1>1. /\ gen = "persist" /\ Saved = {} /\ Paid = {} /\ Told
      /\ Range(frames) \subseteq {"evidence", "answer"}
      /\ node = "END" /\ queue = <<>> /\ merged.answer = answer /\ merged.confidence = confidence
      /\ \/ /\ merged.answer.no > 0 /\ messages' = Append(messages, row)
            /\ gen' = "usage" /\ refused' = refused
         \/ ~(merged.answer.no > 0) /\ messages' = messages /\ gen' = "usage" /\ refused' = refused
         \/ messages' = messages /\ gen' = "done" /\ refused' = TRUE
      /\ UNCHANGED <<queue, merged, frames, shown, usage, billed>>
      /\ UNCHANGED <<node, turn, drafts, passes, answer, confidence, judged>> /\ IInv'
  BY KeptIInv DEF PersistMessage, vars, channels, history, StreamInv, Stages, Ending, Sent
<1>2. /\ messages \in Seq(Row) /\ merged \in FinalState /\ turn \in Nat
      /\ merged.answer.no \in Nat
  BY DEF StreamInv, Types, IInv, CountInv, TypeOK, FinalState, Drafted
<1>3. row \in Row /\ row.turn = turn /\ row.role = "assistant" /\ row.no = merged.answer.no
  BY <1>2 DEF Message, Row
<1> HIDE DEF row
<1>4. Range(Append(messages, row)) = Range(messages) \cup {row}
  BY <1>2, AppendRange
<1>5. Saved' = IF messages' = messages THEN {} ELSE {row}
  BY <1>1, <1>3, <1>4 DEF Saved
<1>6. /\ Paid' = {} /\ Told' /\ (shown = NoFrame <=> merged.answer.no = 0)
      /\ merged.answer.no > 0 => shown.no = merged.answer.no /\ "answer" \in Range(frames)
  BY <1>1, <1>2 DEF Paid, Told, NoFrame
<1>7. Types'
  <2>1. messages' \in Seq(Row)
    BY <1>1, <1>2, <1>3
  <2> QED BY <1>1, <2>1 DEF StreamInv, Types, Ending
<1>8. Past' /\ Delivery'
  <2>1. Range(messages') \subseteq Range(messages) \cup {row}
    BY <1>1, <1>4
  <2>2. turn' = turn /\ billed' = billed /\ gen' # "streaming"
    BY <1>1
  <2> QED BY <1>2, <1>3, <2>1, <2>2 DEF StreamInv, Past, Delivery
<1>9. messages' # messages => merged.answer.no > 0
  BY <1>1
<1>10. gen' = "usage" => (Saved' # {} <=> shown' # NoFrame)
  <2>1. CASE messages' = Append(messages, row) /\ merged.answer.no > 0
    <3>1. Append(messages, row) # messages
      BY <1>2, <1>3
    <3> QED BY <1>1, <1>2, <1>5, <1>6, <2>1, <3>1
  <2>2. CASE messages' = messages /\ ~(merged.answer.no > 0)
    BY <1>1, <1>2, <1>5, <1>6, <2>2
  <2> QED BY <1>1, <2>1, <2>2
<1>11. Stages'
  BY <1>1, <1>6, <1>10 DEF Stages, Ending, Sent
<1>12. SavedWasShown'
  BY <1>1, <1>3, <1>5, <1>6, <1>9 DEF SavedWasShown
<1>13. (FailedTurnLeavesNoTrace /\ ShownIsJudged /\ DoneAfterSave)'
  BY <1>1 DEF StreamInv, FailedTurnLeavesNoTrace, ShownIsJudged, DoneAfterSave
<1> QED BY <1>1, <1>7, <1>8, <1>11, <1>12, <1>13 DEF StreamInv

\* What the usage rows do to their table is all they do.
LEMMA PersistUsageInv == StreamInv /\ PersistUsage => StreamInv'
<1> SUFFICES ASSUME StreamInv, PersistUsage PROVE StreamInv'
  OBVIOUS
<1>1. PICK kept \in 0..Len(merged.usage) :
        /\ billed' = billed \o [i \in 1..kept |-> [turn |-> turn, agent |-> merged.usage[i]]]
        /\ refused' = (kept < Len(merged.usage))
  BY DEF PersistUsage
<1>2. /\ gen = "usage" /\ gen' = "done" /\ Told /\ (Saved # {} <=> shown # NoFrame)
      /\ Range(frames) \subseteq {"evidence", "answer"}
      /\ node = "END" /\ queue = <<>> /\ merged.answer = answer /\ merged.confidence = confidence
      /\ UNCHANGED <<queue, merged, frames, shown, usage, messages>>
      /\ UNCHANGED <<node, turn, drafts, passes, answer, confidence, judged>> /\ IInv'
  BY KeptIInv DEF PersistUsage, vars, channels, history, StreamInv, Stages, Ending, Sent
<1>3. merged.usage \in Seq(Agents) /\ billed \in Seq(Bill) /\ turn \in Nat
  BY DEF StreamInv, Types, FinalState, IInv, CountInv, TypeOK
<1> DEFINE bills == [i \in 1..kept |-> [turn |-> turn, agent |-> merged.usage[i]]]
<1>4. bills \in Seq(Bill) /\ \A i \in 1..Len(bills) : bills[i].turn = turn
  <2>1. \A i \in 1..kept : [turn |-> turn, agent |-> merged.usage[i]] \in Bill
    BY <1>3 DEF Bill
  <2> QED BY <1>3, <2>1
<1>5. billed' = billed \o bills
  BY <1>1
<1> HIDE DEF bills
<1>6. Types'
  <2>1. billed' \in Seq(Bill)
    BY <1>3, <1>4, <1>5
  <2>2. refused' \in BOOLEAN
    <3> DEFINE stopped == kept < Len(merged.usage)
    <3>1. stopped \in BOOLEAN
      BY SMT
    <3>2. refused' = stopped
      BY <1>1, Zenon
    <3> HIDE DEF stopped
    <3> QED BY <3>1, <3>2
  <2> QED BY <1>2, <2>1, <2>2 DEF StreamInv, Types, Ending
<1>7. Past'
  <2>1. ASSUME NEW i \in 1..Len(billed') PROVE billed'[i].turn <= turn
    <3>1. CASE i \in 1..Len(billed)
      BY <1>3, <1>4, <1>5, <3>1 DEF StreamInv, Past, Range
    <3>2. CASE i \notin 1..Len(billed)
      <4>1. i - Len(billed) \in 1..Len(bills) /\ billed'[i] = bills[i - Len(billed)]
        BY <1>3, <1>4, <1>5, <2>1, <3>2
      <4> QED BY <1>3, <1>4, <4>1
    <3> QED BY <3>1, <3>2
  <2> QED BY <1>2, <2>1 DEF StreamInv, Past, Range
<1>8. Saved' = Saved /\ Told' /\ Delivery'
  BY <1>2 DEF Saved, Told, Delivery
<1>9. Stages'
  BY <1>2, <1>8 DEF Stages, Ending, Sent
<1>10. (FailedTurnLeavesNoTrace /\ ShownIsJudged /\ SavedWasShown /\ DoneAfterSave)'
  BY <1>2, <1>8 DEF StreamInv, FailedTurnLeavesNoTrace, ShownIsJudged, SavedWasShown,
     DoneAfterSave
<1> QED BY <1>2, <1>6, <1>7, <1>8, <1>9, <1>10 DEF StreamInv

\* The end frame comes after everything else, once what could be stored is.
LEMMA DoneInv == StreamInv /\ Done => StreamInv'
<1> SUFFICES ASSUME StreamInv, Done PROVE StreamInv'
  OBVIOUS
<1>1. /\ gen = "done" /\ gen' = "closed" /\ (~refused => (Saved # {} <=> shown # NoFrame))
      /\ Range(frames) \subseteq {"evidence", "answer"} /\ frames' = Append(frames, "done")
      /\ UNCHANGED <<queue, merged, shown, usage, messages, billed, refused>>
      /\ UNCHANGED <<node, turn, drafts, passes, answer, confidence, judged>> /\ IInv'
  BY KeptIInv DEF Done, tables, vars, channels, history, StreamInv, Stages, Ending, Sent
<1>2. frames \in Seq({"evidence", "answer", "error", "done"})
  BY DEF StreamInv, Types
<1>3. Range(frames') = Range(frames) \cup {"done"}
  BY <1>1, <1>2, AppendRange
<1>4. Types' /\ Past'
  BY <1>1, <1>2 DEF StreamInv, Types, Past, Ending
<1>5. Saved' = Saved /\ Paid' = Paid /\ Delivery' /\ Stages'
  BY <1>1 DEF Saved, Paid, Delivery, Stages, Ending, Sent
<1>6. (FailedTurnLeavesNoTrace /\ ShownIsJudged /\ SavedWasShown /\ DoneAfterSave)'
  BY <1>1, <1>3, <1>5 DEF StreamInv, FailedTurnLeavesNoTrace, ShownIsJudged, SavedWasShown,
     DoneAfterSave
<1> QED BY <1>1, <1>4, <1>5, <1>6 DEF StreamInv

\* A client that leaves or a process that dies takes nothing back.
LEMMA AbandonInv == StreamInv /\ gen # "closed" /\ Abandon => StreamInv'
<1> SUFFICES ASSUME StreamInv, gen # "closed", Abandon PROVE StreamInv'
  OBVIOUS
<1>1. /\ gen' = "closed" /\ queue' = <<>>
      /\ UNCHANGED <<merged, frames, shown, usage, messages, billed, refused>>
      /\ UNCHANGED <<turn, drafts, passes, answer, confidence, judged>>
  BY DEF Abandon, tables, channels, history
<1>2. IInv'
  BY StopIInv, KeptIInv DEF StreamInv, Abandon, Stop, vars
<1>3. "done" \notin Range(frames) /\ "error" \notin Range(frames)
  BY EmptySequence DEF StreamInv, Types, Stages, Ending, Sent
<1>4. Types' /\ Past' /\ Delivery' /\ Stages'
  BY <1>1, EmptySequence DEF StreamInv, Types, Past, Delivery, Stages, Ending, Sent
<1>5. Saved' = Saved
  BY <1>1 DEF Saved
<1>6. (FailedTurnLeavesNoTrace /\ ShownIsJudged /\ SavedWasShown /\ DoneAfterSave)'
  BY <1>1, <1>3, <1>5 DEF StreamInv, FailedTurnLeavesNoTrace, ShownIsJudged, SavedWasShown,
     DoneAfterSave
<1> QED BY <1>2, <1>4, <1>6 DEF StreamInv
-----------------------------------------------------------------------------
\* Whatever happens next, the invariant holds again.
LEMMA StreamStepInv == StreamInv /\ [StreamNext]_streamVars => StreamInv'
<1>1. StreamInv /\ UNCHANGED streamVars => StreamInv'
  <2> SUFFICES ASSUME StreamInv, UNCHANGED streamVars PROVE StreamInv'
    OBVIOUS
  <2>1. /\ UNCHANGED <<gen, queue, merged, frames, shown, usage, messages, billed, refused>>
        /\ UNCHANGED <<node, turn, drafts, passes, answer, confidence, judged>> /\ IInv'
    BY KeptIInv DEF streamVars, bridge, tables, vars, channels, history, StreamInv
  <2>2. Types' /\ Past' /\ Delivery' /\ Saved' = Saved /\ Paid' = Paid /\ Told' = Told
    BY <2>1 DEF StreamInv, Types, Past, Delivery, Saved, Paid, Told
  <2>3. Stages'
    BY <2>1, <2>2 DEF StreamInv, Stages
  <2>4. (FailedTurnLeavesNoTrace /\ ShownIsJudged /\ SavedWasShown /\ DoneAfterSave)'
    BY <2>1, <2>2 DEF StreamInv, FailedTurnLeavesNoTrace, ShownIsJudged, SavedWasShown,
       DoneAfterSave
  <2> QED BY <2>1, <2>2, <2>3, <2>4 DEF StreamInv
<1>2. StreamInv /\ Generator => StreamInv'
  BY DeliverInv, PipelineInv, FramesInv, PersistMessageInv, PersistUsageInv, DoneInv
     DEF Generator
<1>3. StreamInv /\ (Disconnect \/ Crash) => StreamInv'
  BY AbandonInv DEF Disconnect, Crash
<1> QED BY <1>1, <1>2, <1>3, AskInv, GraphStepInv DEF StreamNext

\* The invariant holds in every state of every conversation.
THEOREM StreamInductive == StreamSpec => []StreamInv
  BY StreamInitInv, StreamStepInv, PTL DEF StreamSpec

\* Queue, final state, frames and tables keep their types.
THEOREM StreamTypeCorrect == StreamSpec => []StreamTypeOK
<1>1. StreamInv => StreamTypeOK
  <2> SUFFICES ASSUME StreamInv PROVE StreamTypeOK
    OBVIOUS
  <2>1. Range(queue) \subseteq OutputType /\ Range(frames) \subseteq {"evidence", "answer", "error", "done"}
    BY RangeType DEF StreamInv, Types
  <2> QED BY <2>1 DEF StreamInv, Types, StreamTypeOK, Ending, IInv, CountInv, OutputType,
                      FinalState, Drafted
<1> QED BY <1>1, StreamInductive, PTL

\* A turn that failed shows and stores nothing.
THEOREM NoTrace == StreamSpec => []FailedTurnLeavesNoTrace
  BY StreamInductive, PTL DEF StreamInv

\* The answer frame carries the last judged draft and its score.
THEOREM ShownJudged == StreamSpec => []ShownIsJudged
  BY StreamInductive, PTL DEF StreamInv

\* Nothing is stored that the client was not sent.
THEOREM SavedShown == StreamSpec => []SavedWasShown
  BY StreamInductive, PTL DEF StreamInv

\* The end frame comes after the answer was stored, or refused.
THEOREM DoneLast == StreamSpec => []DoneAfterSave
  BY StreamInductive, PTL DEF StreamInv

\* The graph's own properties hold of a graph that is run by a stream, whose
\* clients leave and whose process dies in the middle of a node.
THEOREM StreamedGraph ==
  StreamSpec => [](LoopBudget /\ ShippedIsJudged /\ FeedbackIsCurrent /\ BestEffortOnlyWhenSpent)
<1>1. IInv => LoopBudget /\ ShippedIsJudged /\ FeedbackIsCurrent /\ BestEffortOnlyWhenSpent
  BY DEF IInv, CountInv, FreshInv, BestEffortOnlyWhenSpent
<1>2. StreamInv => IInv
  BY DEF StreamInv
<1> QED BY <1>1, <1>2, StreamInductive, PTL
-----------------------------------------------------------------------------
\* What is at the bottom of the messages at each place of the generator.
LastRow == messages[Len(messages)]

Log ==
  /\ gen # "closed" => messages # <<>>
  /\ gen \in {"streaming", "evidence", "answer", "persist"} => LastRow = Message(turn, "user", 0)
  /\ gen = "usage" \/ (gen = "done" /\ ~refused) =>
       LastRow = IF shown.no = 0 THEN Message(turn, "user", 0)
                 ELSE Message(turn, "assistant", shown.no)
  /\ gen \notin {"closed", "done"} => ~refused

\* What has been appended is the last element.
LEMMA AppendLast ==
  ASSUME NEW S, NEW s \in Seq(S), NEW e
  PROVE  Append(s, e) # <<>> /\ Append(s, e)[Len(Append(s, e))] = e
  OBVIOUS

\* A step of the graph, in a stream or on its own, is within the turn.
LEMMA GraphStepFrame ==
  ASSUME StreamInv, GraphStep
  PROVE  /\ gen = "streaming" /\ turn' = turn /\ IInv
         /\ UNCHANGED <<gen, merged, frames, shown, messages, billed, refused>>
<1>1. Stop => turn' = turn
  BY DEF Stop, history
<1> QED BY <1>1, AgentStep DEF GraphStep, StreamInv, tables

\* Each step that writes leaves at the bottom what the next place expects there.
LEMMA LogStep ==
  ASSUME StreamInv, Log, [StreamNext]_streamVars
  PROVE  Log'
<1>0. messages \in Seq(Row)
  BY DEF StreamInv, Types
<1>1. CASE Ask
  <2>1. messages' = Append(messages, Message(turn', "user", 0)) /\ gen' = "streaming" /\ refused' = FALSE
    BY <1>1 DEF Ask
  <2>2. messages' # <<>> /\ LastRow' = Message(turn', "user", 0)
    BY <1>0, <2>1, AppendLast DEF LastRow
  <2> QED BY <2>1, <2>2 DEF Log
<1>2. CASE GraphStep
  BY <1>2, GraphStepFrame DEF Log, LastRow, Message
<1>3. CASE PersistMessage
  <2>1. /\ gen = "persist" /\ Told /\ UNCHANGED <<shown, turn>>
        /\ messages # <<>> /\ LastRow = Message(turn, "user", 0) /\ ~refused
    BY <1>3 DEF PersistMessage, StreamInv, Stages, Sent, Log, vars, history
  <2>2. CASE refused' = TRUE /\ gen' = "done" /\ messages' = messages
    BY <2>1, <2>2 DEF Log
  <2>3. CASE gen' = "usage" /\ refused' = refused /\ ~(merged.answer.no > 0) /\ messages' = messages
    BY <2>1, <2>3 DEF Log, Told, NoFrame, LastRow, Message
  <2>4. CASE /\ gen' = "usage" /\ refused' = refused /\ merged.answer.no > 0
             /\ messages' = Append(messages, Message(turn, "assistant", merged.answer.no))
    <3>1. shown.no = merged.answer.no /\ merged.answer.no # 0
      BY <2>1, <2>4 DEF Told
    <3>2. messages' # <<>> /\ LastRow' = Message(turn, "assistant", merged.answer.no)
      BY <1>0, <2>4, AppendLast DEF LastRow
    <3> QED BY <2>1, <2>4, <3>1, <3>2 DEF Log, Message
  <2> QED BY <1>3, <2>2, <2>3, <2>4 DEF PersistMessage
<1>4. CASE PersistUsage
  BY <1>4 DEF PersistUsage, Log, LastRow, Message, vars, history
<1>5. CASE Deliver \/ PipelineEnded \/ Evidence \/ Answer
  <2>1. /\ gen \in {"streaming", "evidence", "answer"} /\ gen' \in {"streaming", "evidence", "answer", "persist"}
        /\ UNCHANGED <<messages, refused, turn>>
    BY <1>5 DEF Deliver, PipelineEnded, Evidence, Answer, tables, vars, history
  <2> QED BY <2>1 DEF Log, LastRow, Message
<1>6. CASE PipelineFailed \/ Done \/ Disconnect \/ Crash
  BY <1>6 DEF PipelineFailed, Done, Disconnect, Crash, Abandon, Log
<1>7. CASE UNCHANGED streamVars
  BY <1>7 DEF streamVars, bridge, tables, vars, history, Log, LastRow, Message
<1> QED BY <1>1, <1>2, <1>3, <1>4, <1>5, <1>6, <1>7 DEF StreamNext, Generator

\* What is at the bottom, in every reachable state.
LEMMA LogInductive == StreamSpec => []Log
<1>1. StreamInit => Log
  BY DEF StreamInit, Log
<1> QED BY <1>1, LogStep, StreamInductive, PTL DEF StreamSpec

\* An open turn has sent neither of the frames that end one.
LEMMA EndFrameOpen ==
  ASSUME StreamInv, StreamInv'
  PROVE  (gen # "closed" => EndFrame = "none") /\ (gen' # "closed" => EndFrame' = "none")
<1>1. gen # "closed" => "done" \notin Range(frames) /\ "error" \notin Range(frames)
  BY EmptySequence DEF StreamInv, Types, Stages, Ending, Sent
<1>2. gen' # "closed" => "done" \notin Range(frames') /\ "error" \notin Range(frames')
  BY EmptySequence DEF StreamInv, Types, Stages, Ending, Sent
<1> QED BY <1>1, <1>2 DEF EndFrame

\* Every step of the stream is a step of the transcript, or none.
LEMMA StreamStepWrites ==
  ASSUME StreamInv, Log, [StreamNext]_streamVars
  PROVE  [Written!Next]_(Written!vars)
<1> USE DEF Written!Next, Written!vars
<1>0. /\ messages \in Seq(Row) /\ frames \in Seq({"evidence", "answer", "error", "done"})
      /\ turn \in Nat /\ answer.no \in Nat
      /\ (gen # "closed" => EndFrame = "none") /\ (gen' # "closed" => EndFrame' = "none")
  BY EndFrameOpen, StreamStepInv DEF StreamInv, Types, IInv, CountInv, TypeOK
<1>1. CASE Ask
  <2>1. /\ gen = "closed" /\ gen' = "streaming" /\ turn' = turn + 1
        /\ messages' = Append(messages, Message(turn', "user", 0)) /\ shown' = NoFrame /\ refused' = FALSE
    BY <1>1 DEF Ask, Invoke
  <2>2. Written!Ask
    BY <1>0, <2>1 DEF Written!Ask, Written!Question, Message, NoFrame
  <2> QED BY <2>2
<1>2. CASE GraphStep
  BY <1>2, GraphStepFrame DEF EndFrame
<1>3. CASE Deliver \/ PipelineEnded \/ Evidence
  <2>1. /\ gen # "closed" /\ gen' # "closed" /\ UNCHANGED <<messages, refused, turn, shown>>
    BY <1>3 DEF Deliver, PipelineEnded, Evidence, tables, vars, history
  <2> QED BY <1>0, <2>1
<1>4. CASE Answer
  <2>1. /\ gen = "answer" /\ gen' = "persist" /\ UNCHANGED <<messages, refused, turn>>
        /\ messages # <<>> /\ LastRow = Message(turn, "user", 0) /\ shown = NoFrame
        /\ merged.answer.no \in Nat
    BY <1>0, <1>4 DEF Answer, tables, vars, history, Log, StreamInv, Stages, Ending
  <2>2. CASE merged.answer.no > 0
    <3>1. shown'.no = merged.answer.no
      BY <1>4, <2>2 DEF Answer
    <3>2. Written!Tell
      BY <1>0, <2>1, <2>2, <3>1 DEF Written!Tell, Written!Last, Written!Question, LastRow, Message, NoFrame
    <3> QED BY <3>2
  <2>3. CASE ~(merged.answer.no > 0)
    <3>1. shown' = shown
      BY <1>4, <2>3 DEF Answer
    <3> QED BY <1>0, <2>1, <3>1
  <2> QED BY <2>2, <2>3
<1>5. CASE PersistMessage
  <2>1. /\ gen = "persist" /\ gen' # "closed" /\ Told /\ UNCHANGED <<shown, turn>>
        /\ messages # <<>> /\ LastRow = Message(turn, "user", 0) /\ ~refused
    BY <1>5 DEF PersistMessage, StreamInv, Stages, Sent, Log, vars, history
  <2>2. CASE refused' = TRUE /\ messages' = messages
    BY <1>0, <2>1, <2>2 DEF Written!Refuse
  <2>3. CASE refused' = refused /\ messages' = messages
    BY <1>0, <2>1, <2>3
  <2>4. CASE /\ refused' = refused /\ merged.answer.no > 0
             /\ messages' = Append(messages, Message(turn, "assistant", merged.answer.no))
    <3>1. shown.no = merged.answer.no /\ merged.answer.no # 0
      BY <2>1, <2>4 DEF Told
    <3>2. Written!Store
      BY <1>0, <2>1, <2>4, <3>1
         DEF Written!Store, Written!Last, Written!Question, Written!Answer, LastRow, Message
    <3> QED BY <3>2
  <2> QED BY <1>5, <2>2, <2>3, <2>4 DEF PersistMessage
<1>6. CASE PersistUsage
  <2>1. /\ gen = "usage" /\ gen' # "closed" /\ ~refused /\ UNCHANGED <<messages, turn, shown>>
    BY <1>6 DEF PersistUsage, vars, history, Log
  <2>2. refused \in BOOLEAN /\ refused' \in BOOLEAN
    BY StreamStepInv DEF StreamInv, Types
  <2>3. CASE refused' = TRUE
    <3>1. Written!Refuse
      BY <1>0, <2>1, <2>3 DEF Written!Refuse
    <3> QED BY <3>1
  <2>4. CASE refused' = refused
    BY <1>0, <2>1, <2>4
  <2> QED BY <2>1, <2>2, <2>3, <2>4
<1>7. CASE PipelineFailed
  <2>1. /\ gen = "streaming" /\ gen' = "closed" /\ frames' = <<"error">> /\ shown = NoFrame
        /\ messages # <<>> /\ LastRow = Message(turn, "user", 0)
        /\ UNCHANGED <<messages, turn, shown, refused>>
    <3>1. Append(<<>>, "error") = <<"error">>
      OBVIOUS
    <3> QED BY <1>7, <3>1 DEF PipelineFailed, StreamInv, Stages, Log, tables, vars, history
  <2>2. Range(<<"error">>) = {"error"}
    BY DEF Range
  <2>3. EndFrame' = "error"
    BY <2>1, <2>2 DEF EndFrame
  <2>4. Written!Fail
    BY <2>1, <2>3 DEF Written!Fail, Written!Last, Written!Question, LastRow, Message, NoFrame
  <2> QED BY <2>1, <2>4 DEF Written!Close
<1>8. CASE Done
  <2>1. /\ gen = "done" /\ gen' = "closed" /\ frames' = Append(frames, "done")
        /\ messages # <<>>
        /\ ~refused => LastRow = IF shown.no = 0 THEN Message(turn, "user", 0)
                                 ELSE Message(turn, "assistant", shown.no)
        /\ UNCHANGED <<messages, turn, shown, refused>>
    BY <1>8 DEF Done, Log, tables, vars, history
  <2>2. EndFrame' = "done"
    <3>1. Range(frames) \subseteq {"evidence", "answer"}
      BY <2>1 DEF StreamInv, Stages, Sent
    <3>2. Range(frames') = Range(frames) \cup {"done"}
      BY <1>0, <2>1, AppendRange
    <3>3. "done" \in Range(frames') /\ "error" \notin Range(frames')
      BY <3>1, <3>2
    <3> QED BY <3>3 DEF EndFrame
  <2>3. Written!End
    BY <2>1, <2>2 DEF Written!End, Written!Last, Written!Answer, LastRow, Message
  <2> QED BY <2>1, <2>3 DEF Written!Close
<1>9. CASE Disconnect \/ Crash
  <2>1. gen # "closed" /\ gen' = "closed" /\ UNCHANGED <<frames, messages, turn, shown, refused>>
    BY <1>9 DEF Disconnect, Crash, Abandon, tables, history
  <2>2. EndFrame' = EndFrame
    BY <2>1 DEF EndFrame
  <2> QED BY <2>1, <2>2 DEF Written!Close, Written!Leave
<1>10. CASE UNCHANGED streamVars
  BY <1>10 DEF streamVars, bridge, tables, vars, history, EndFrame
<1> QED BY <1>1, <1>2, <1>3, <1>4, <1>5, <1>6, <1>7, <1>8, <1>9, <1>10 DEF StreamNext, Generator

\* The stream carries out the transcript, its liveness aside: under every
\* interleaving of graph, generator, client and database an answer is stored
\* once at most, right below its question and as it was shown.
THEOREM TranscriptSimulation == StreamSpec => Written!Init /\ [][Written!Next]_(Written!vars)
<1>1. StreamInit => Written!Init
  BY EmptySequence DEF StreamInit, Init, Written!Init, NoFrame, EndFrame
<1>2. StreamInv /\ Log /\ [StreamNext]_streamVars => [Written!Next]_(Written!vars)
  BY StreamStepWrites
<1> QED BY <1>1, <1>2, StreamInductive, LogInductive, PTL DEF StreamSpec

\* A stream that is abandoned aborts the task of the graph it was running.
LEMMA StopSimulates ==
  ASSUME IInv, Stop, Running
  PROVE  [Loop!Next]_(Loop!vars)
<1>1. CASE checkpointed
  BY <1>1 DEF Stop, Loop!vars, Phase
<1>2. CASE ~checkpointed
  <2>1. Loop!Abort
    BY <1>2 DEF Loop!Abort, Stop, Phase, Running, Agents, channels, history
  <2> QED BY <2>1 DEF Loop!Next, Loop!Work
<1> QED BY <1>1, <1>2

\* Without a checkpointer the graph stays a review loop when it is run by a
\* stream: a client that leaves, or a crash, aborts the round under way.
THEOREM StreamedLoop == StreamSpec => Loop!Init /\ [][Loop!Next]_(Loop!vars)
<1>1. StreamInit => Loop!Init
  BY DEF StreamInit, Init, Loop!Init, Phase
<1>2. StreamInv /\ [StreamNext]_streamVars => [Loop!Next]_(Loop!vars)
  <2> SUFFICES ASSUME StreamInv, [StreamNext]_streamVars PROVE [Loop!Next]_(Loop!vars)
    OBVIOUS
  <2>0. IInv
    BY DEF StreamInv
  <2>1. CASE [Next]_vars
    BY <2>0, <2>1, StepSimulates
  <2>2. CASE Disconnect \/ Crash
    <3>1. CASE Running
      BY <2>0, <2>2, <3>1, StopSimulates DEF Disconnect, Crash, Abandon, Stop
    <3>2. CASE ~Running
      <4>1. UNCHANGED vars
        BY <2>2, <3>2 DEF Disconnect, Crash, Abandon, vars
      <4> QED BY <2>1, <4>1
    <3> QED BY <3>1, <3>2
  <2>3. CASE Ask \/ GraphStep
    BY <2>1, <2>3 DEF Ask, GraphStep, Next
  <2>4. CASE Generator \/ UNCHANGED streamVars
    <3>1. UNCHANGED vars
      BY <2>4 DEF Generator, Deliver, PipelineFailed, PipelineEnded, Evidence, Answer,
         PersistMessage, PersistUsage, Done, streamVars
    <3> QED BY <2>1, <3>1
  <2> QED BY <2>2, <2>3, <2>4 DEF StreamNext
<1> QED BY <1>1, <1>2, StreamInductive, PTL DEF StreamSpec
=============================================================================
