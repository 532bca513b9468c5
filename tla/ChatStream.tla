----------------------------- MODULE ChatStream -----------------------------
(***************************************************************************)
(* One conversation served by stream_message (api/v1/conversations.py) and *)
(* run_conversation_stream (orchestrator/service.py).  The graph runs in a *)
(* task of its own and puts its events on an unbounded queue; the          *)
(* generator takes them off, merges the node outputs into final_state, and *)
(* once the queue is empty and the graph has stopped sends the terminal    *)
(* frames and writes to the database.  agent_start, agent_end and token    *)
(* frames, which carry no state, are left out.                             *)
(***************************************************************************)
EXTENDS AgentGraph

VARIABLES
  gen,       \* the generator: "streaming", then "evidence", "answer",
             \* "persist", "usage", "done"; "closed" when there is none
  queue,     \* node outputs the generator has not read
  merged,    \* final_state
  frames,    \* kinds of the terminal frames sent for this turn
  shown,     \* what the answer frame carried
  usage,     \* the usage channel of the graph: agents, in order of their calls
  messages,  \* rows of this conversation in the messages table
  billed,    \* rows of this conversation in usage_records
  refused    \* history: the database refused a commit of this turn

bridge     == <<gen, queue, merged, frames, shown, usage>>
tables     == <<messages, billed, refused>>
streamVars == <<vars, bridge, tables>>

Nothing == [usage |-> <<>>, notes |-> 0, citations |-> <<>>, answer |-> NoAnswer, confidence |-> 0]
NoFrame == [no |-> 0, citations |-> <<>>, confidence |-> 0]

Range(s) == {s[i] : i \in 1..Len(s)}

\* _usage: one entry per node that has run.
Usage(agent) == <<agent>>

\* The output of the node that has just run, as its on_chain_end event carries it.
Output(agent) ==
  [agent      |-> agent,
   notes      |-> notes' - notes,
   citations  |-> SubSeq(citations', Len(citations) + 1, Len(citations')),
   answer     |-> answer',
   confidence |-> confidence']

\* Mutant of Merge: the first answer is kept (setdefault for update).
MergeFirstAnswer(final, out) ==
  [final EXCEPT !.usage = <<out.agent>>,
                !.answer = IF out.agent = "finalizer" /\ @ = NoAnswer THEN out.answer ELSE @,
                !.confidence = IF out.agent = "critic" THEN out.confidence ELSE @]

\* final_state.update(outputs): each key of the output replaces the one that
\* is there, the keys of accumulating channels too.
Merge(final, out) ==
  [final EXCEPT !.usage      = Usage(out.agent),
                !.notes      = IF out.agent = "researcher" THEN out.notes ELSE @,
                !.citations  = IF out.agent = "researcher" THEN out.citations ELSE @,
                !.answer     = IF out.agent = "finalizer" THEN out.answer ELSE @,
                !.confidence = IF out.agent = "critic" THEN out.confidence ELSE @]
-----------------------------------------------------------------------------
StreamInit ==
  /\ Init
  /\ gen = "closed" /\ queue = <<>> /\ merged = Nothing /\ frames = <<>>
  /\ shown = NoFrame /\ usage = <<>>
  /\ messages = <<>> /\ billed = <<>> /\ refused = FALSE

\* A row of the messages table; its content is a draft's number, or 0.
Message(of, role, no) == [turn |-> of, role |-> role, no |-> no]

\* stream_message: the user's row is committed, then the stream starts.
Ask ==
  /\ gen = "closed"
  /\ Invoke
  /\ messages' = Append(messages, Message(turn', "user", 0))
  /\ gen' = "streaming" /\ queue' = <<>> /\ merged' = Nothing /\ frames' = <<>>
  /\ shown' = NoFrame
  /\ usage' = IF checkpointed THEN usage ELSE <<>>
  /\ refused' = FALSE
  /\ UNCHANGED billed

\* The graph task runs a node; nothing makes it wait for the generator.
GraphStep ==
  /\ gen = "streaming"
  /\ Agent
  /\ IF node' = "failed"
     THEN UNCHANGED <<queue, usage>>
     ELSE /\ queue' = Append(queue, Output(node))
          /\ usage' = Accumulate(usage, Usage(node))
  /\ UNCHANGED <<gen, merged, frames, shown, tables>>

Deliver ==
  /\ gen = "streaming"
  /\ queue # <<>>
  /\ merged' = Merge(merged, Head(queue))
  /\ queue' = Tail(queue)
  /\ UNCHANGED <<vars, gen, frames, shown, usage, tables>>

\* Mutant of PipelineFailed: the handler does not return after the error frame.
PipelineFailedGoesOn ==
  /\ gen = "streaming" /\ queue = <<>> /\ node = "failed"
  /\ frames' = Append(frames, "error")
  /\ gen' = "evidence"
  /\ UNCHANGED <<vars, queue, merged, shown, usage, tables>>
\* Mutant of PipelineFailed: the exception is swallowed, the stream left open.
PipelineFailedHangs ==
  /\ gen = "streaming" /\ queue = <<>> /\ node = "failed"
  /\ frames = <<>>
  /\ frames' = Append(frames, "error")
  /\ UNCHANGED <<vars, gen, queue, merged, shown, usage, tables>>
\* The graph's exception reaches the generator after the last queued event.
PipelineFailed ==
  /\ gen = "streaming" /\ queue = <<>> /\ node = "failed"
  /\ frames' = Append(frames, "error")
  /\ gen' = "closed"
  /\ UNCHANGED <<vars, queue, merged, shown, usage, tables>>

\* Mutant of PipelineEnded: results are stored before they are streamed.
PipelineEndedSavesFirst ==
  /\ gen = "streaming" /\ queue = <<>> /\ node = "END"
  /\ gen' = "persist"
  /\ UNCHANGED <<vars, queue, merged, frames, shown, usage, tables>>
PipelineEnded ==
  /\ gen = "streaming" /\ queue = <<>> /\ node = "END"
  /\ gen' = "evidence"
  /\ UNCHANGED <<vars, queue, merged, frames, shown, usage, tables>>

Evidence ==
  /\ gen = "evidence"
  /\ frames' = IF merged.notes > 0 THEN Append(frames, "evidence") ELSE frames
  /\ gen' = "answer"
  /\ UNCHANGED <<vars, queue, merged, shown, usage, tables>>

\* Mutant of Answer: the terminal frame is sent along with the answer.
AnswerThenDone ==
  /\ gen = "answer"
  /\ IF merged.answer.no > 0
     THEN /\ frames' = frames \o <<"answer", "done">>
          /\ shown' = [no |-> merged.answer.no, citations |-> merged.citations,
                       confidence |-> merged.confidence]
     ELSE UNCHANGED <<frames, shown>>
  /\ gen' = "persist"
  /\ UNCHANGED <<vars, queue, merged, usage, tables>>
\* Only a nonempty answer is sent.
Answer ==
  /\ gen = "answer"
  /\ IF merged.answer.no > 0
     THEN /\ frames' = Append(frames, "answer")
          /\ shown' = [no |-> merged.answer.no, citations |-> merged.citations,
                       confidence |-> merged.confidence]
     ELSE UNCHANGED <<frames, shown>>
  /\ gen' = "persist"
  /\ UNCHANGED <<vars, queue, merged, usage, tables>>

\* _persist_results, the message: a nonempty answer is committed; if anything
\* raises, the rest of the function is skipped and the stream goes on.
PersistMessage ==
  /\ gen = "persist"
  /\ \/ /\ messages' = IF merged.answer.no > 0
                       THEN Append(messages, Message(turn, "assistant", merged.answer.no))
                       ELSE messages
        /\ gen' = "usage"
        /\ UNCHANGED refused
     \/ /\ gen' = "done"
        /\ refused' = TRUE
        /\ UNCHANGED messages
  /\ UNCHANGED <<vars, queue, merged, frames, shown, usage, billed>>

\* _persist_results, one row and one commit per merged usage entry; after a
\* refused commit the session takes no more, and persist_usage swallows that.
PersistUsage ==
  /\ gen = "usage"
  /\ \E kept \in 0..Len(merged.usage) :
       /\ billed' = billed \o [i \in 1..kept |-> [turn |-> turn, agent |-> merged.usage[i]]]
       /\ refused' = (kept < Len(merged.usage))
  /\ gen' = "done"
  /\ UNCHANGED <<vars, queue, merged, frames, shown, usage, messages>>

Done ==
  /\ gen = "done"
  /\ frames' = Append(frames, "done")
  /\ gen' = "closed"
  /\ UNCHANGED <<vars, queue, merged, shown, usage, tables>>

\* The generator is thrown away and its graph task with it: what the running
\* node returns later is dropped.
Abandon ==
  /\ gen' = "closed"
  /\ queue' = <<>>
  /\ node' = IF Running THEN "failed" ELSE node
  /\ UNCHANGED <<checkpointed, channels, history, merged, frames, shown, usage, tables>>

\* The client goes away: the server cancels the generator where it waits,
\* which is never inside _persist_results.
Disconnect == gen \notin {"closed", "usage"} /\ Abandon

\* The process dies, at any point.
Crash == gen # "closed" /\ Abandon

Generator ==
  \/ Deliver \/ PipelineFailed \/ PipelineEnded \/ Evidence \/ Answer
  \/ PersistMessage \/ PersistUsage \/ Done

StreamNext == Ask \/ GraphStep \/ Generator \/ Disconnect \/ Crash

\* The graph task runs, and the server keeps pulling the generator.
StreamSpec ==
  /\ StreamInit /\ [][StreamNext]_streamVars
  /\ WF_streamVars(GraphStep)
  /\ WF_streamVars(Generator)
-----------------------------------------------------------------------------
StreamTypeOK ==
  /\ TypeOK
  /\ gen \in {"closed", "streaming", "evidence", "answer", "persist", "usage", "done"}
  /\ \A out \in Range(queue) : out.agent \in Agents \ {"executor"} /\ out.notes \in {0, 1}
  /\ merged.usage \in Seq(Agents) /\ merged.citations \in Seq(Documents)
  /\ merged.notes \in {0, 1} /\ merged.answer.no \in Nat /\ merged.confidence \in Int
  /\ Range(frames) \subseteq {"evidence", "answer", "error", "done"}
  /\ usage \in Seq(Agents)
  /\ refused \in BOOLEAN

Saved == {row \in Range(messages) : row.turn = turn /\ row.role = "assistant"}
Paid  == {row \in Range(billed) : row.turn = turn}

\* A turn that failed has shown the client no answer and no end, and has left
\* no answer and no cost in the database, whatever its nodes had produced
\* before (service.py:96-99).
FailedTurnLeavesNoTrace ==
  "error" \in Range(frames) => frames = <<"error">> /\ Saved = {} /\ Paid = {}

\* The answer frame, put together from queued events, carries the draft the
\* critic judged last and the score it gave that draft.
ShownIsJudged ==
  shown # NoFrame => /\ shown.no = judged /\ shown.no = answer.no
                     /\ shown.confidence = confidence

\* No answer is stored that the client was not sent, or of an earlier draft.
SavedWasShown == \A row \in Saved : row.no = shown.no /\ "answer" \in Range(frames)

\* When the client reads "done" the answer it was shown is already stored,
\* unless the database refused it (service.py:109-111).
DoneAfterSave ==
  "done" \in Range(frames) /\ ~refused => (Saved # {} <=> shown # NoFrame)

\* The stream is a transcript: however graph, queue, client and database race,
\* an answer is stored at most once, right below its question and as it was
\* shown, "done" follows what was stored (service.py:109-111), and every stream
\* is closed, whoever fails and whether or not the client stays.
EndFrame ==
  CASE "done" \in Range(frames)  -> "done"
    [] "error" \in Range(frames) -> "error"
    [] OTHER                      -> "none"

Written == INSTANCE Transcript WITH
  rows   <- messages,
  open   <- gen # "closed",
  told   <- shown.no,
  ending <- EndFrame

\* Every step writes, tells or ends as a transcript does, and every turn ends.
ImplementsTranscript == Written!Spec
-----------------------------------------------------------------------------
\* nodes.py:41, "numbered citations in brackets referencing the evidence
\* list": the list beside the answer is the one its numbers refer to.
NumbersReferToShownCitations == shown # NoFrame => shown.citations = answer.cites
=============================================================================
