----------------------------- MODULE Ingestion -----------------------------
(***************************************************************************)
(* The document pipeline: upload_document (api/v1/documents.py), the two   *)
(* Celery tasks of workers/tasks.py under the settings of celery_app.py,   *)
(* and the Qdrant collection they share (services/vectorstore.py).         *)
(* Countdowns are left out: a retry message may be taken at any time.      *)
(***************************************************************************)
EXTENDS Integers, Bags

CONSTANTS
  Docs,        \* documents that may be uploaded
  Chunks,      \* how many chunks chunk_text makes of each document
  Workers,     \* pool processes that run tasks
  MaxRetries,  \* max_retries of both tasks
  Faults,      \* faults that may happen: "commit", "child", "worker"
  MaxFaults    \* bound: how many of them in a behaviour

ASSUME PipelineAssumption ==
  /\ Chunks \in [Docs -> Nat \ {0}]
  /\ MaxRetries \in Nat
  /\ Faults \subseteq {"commit", "child", "worker"}
  /\ MaxFaults \in Nat

VARIABLES
  upload,      \* progress of the upload request of each document
  status,      \* Document.status; "absent" without a row
  objects,     \* documents whose bytes are in the object store
  broker,      \* bag of messages waiting in the two queues
  job,         \* message a worker has taken and not acknowledged
  at,          \* where in its task a worker is; "idle" without one
  sent,        \* embed tasks the worker's fan-out loop has sent
  collection,  \* whether the Qdrant collection exists
  vectors,     \* chunks that are indexed
  \* History and bounds:
  lost,        \* chunks whose embed task ended without an index entry
  stranded,    \* documents a process task abandoned without a record
  faults       \* faults so far

docVars    == <<upload, status, objects>>
workerVars == <<job, at, sent>>
indexVars  == <<collection, vectors>>
history    == <<lost, stranded, faults>>
vars       == <<docVars, broker, workerVars, indexVars, history>>

ChunksOf(d) == {<<d, i>> : i \in 1..Chunks[d]}

ProcessTask(d, n)  == [task |-> "process", doc |-> d, chunk |-> 0, retries |-> n]
EmbedTask(d, i, n) == [task |-> "embed", doc |-> d, chunk |-> i, retries |-> n]
Task ==
  {ProcessTask(d, n) : d \in Docs, n \in 0..MaxRetries}
    \cup UNION {{EmbedTask(d, i, n) : i \in 1..Chunks[d], n \in 0..MaxRetries} : d \in Docs}
NoJob == [task |-> "none"]

Send(m) == broker' = broker (+) SetToBag({m})

\* What is queued or not yet acknowledged.
Pending(m)      == BagIn(m, broker) \/ \E w \in Workers : job[w] = m
ProcessTasks(d) == {ProcessTask(d, n) : n \in 0..MaxRetries}
Processing(d)   == \E m \in ProcessTasks(d) : Pending(m)
Embedding(d, i) == \E n \in 0..MaxRetries : Pending(EmbedTask(d, i, n))
-----------------------------------------------------------------------------
Init ==
  /\ upload = [d \in Docs |-> "none"]
  /\ status = [d \in Docs |-> "absent"]
  /\ objects = {}
  /\ broker = EmptyBag
  /\ job = [w \in Workers |-> NoJob]
  /\ at = [w \in Workers |-> "idle"]
  /\ sent = [w \in Workers |-> 0]
  /\ collection = FALSE
  /\ vectors = {}
  /\ lost = {} /\ stranded = {} /\ faults = 0

\* upload_document: row, object, message, in this order.  A step that raises,
\* or a crash after the step before, ends the request and undoes nothing.
\* (What the workspace column is given is in module Tenancy.)
InsertRow(d) ==
  /\ upload[d] = "none"
  /\ \/ /\ upload' = [upload EXCEPT ![d] = "row"]
        /\ status' = [status EXCEPT ![d] = "PENDING"]
     \/ upload' = [upload EXCEPT ![d] = "failed"] /\ UNCHANGED status
  /\ UNCHANGED <<objects, broker, workerVars, indexVars, history>>

PutObject(d) ==
  /\ upload[d] = "row"
  /\ \/ upload' = [upload EXCEPT ![d] = "object"] /\ objects' = objects \cup {d}
     \/ upload' = [upload EXCEPT ![d] = "failed"] /\ UNCHANGED objects
  /\ UNCHANGED <<status, broker, workerVars, indexVars, history>>

\* Mutant of Delay: the task is queued before the object is stored.
DelayEarly(d) ==
  /\ upload[d] \in {"row", "object"}
  /\ upload' = [upload EXCEPT ![d] = "queued"]
  /\ Send(ProcessTask(d, 0))
  /\ UNCHANGED <<status, objects, workerVars, indexVars, history>>
Delay(d) ==
  /\ upload[d] = "object"
  /\ \/ upload' = [upload EXCEPT ![d] = "queued"] /\ Send(ProcessTask(d, 0))
     \/ upload' = [upload EXCEPT ![d] = "failed"] /\ UNCHANGED broker
  /\ UNCHANGED <<status, objects, workerVars, indexVars, history>>
-----------------------------------------------------------------------------
\* A free worker takes a message; it stays unacknowledged (task_acks_late).
Take(w) ==
  /\ at[w] = "idle"
  /\ \E m \in BagToSet(broker) :
       /\ broker' = broker (-) SetToBag({m})
       /\ job' = [job EXCEPT ![w] = m]
       /\ at' = [at EXCEPT ![w] = IF m.task = "process" THEN "begin" ELSE "embed"]
  /\ UNCHANGED <<docVars, sent, indexVars, history>>

Goto(w, place) == at' = [at EXCEPT ![w] = place]
SetStatus(w, s) == status' = [status EXCEPT ![job[w].doc] = s]

Fault(kind) ==
  /\ kind \in Faults
  /\ faults < MaxFaults
  /\ faults' = faults + 1

\* A commit raises where no retry follows: before the try, or in the handler,
\* where a session whose flush has failed refuses the handler's own commit too.
CommitFails(w) ==
  /\ at[w] \in {"begin", "finish", "fail"}
  /\ Fault("commit")
  /\ Goto(w, "ack")
  /\ stranded' = stranded \cup {job[w].doc}
  /\ UNCHANGED <<docVars, broker, job, sent, indexVars, lost>>

\* db.get finds the row, which is committed before the task is queued.
Begin(w) ==
  /\ at[w] = "begin"
  /\ SetStatus(w, "PROCESSING")
  /\ Goto(w, "read")
  /\ UNCHANGED <<upload, objects, broker, job, sent, indexVars, history>>

\* get_object raises for a key that is not there.
GetObject(d) == d \in objects

\* get_object, extract_text_bytes and chunk_text, any of which may raise.
Read(w) ==
  /\ at[w] = "read"
  /\ \/ GetObject(job[w].doc) /\ Goto(w, "ensure")
     \/ Goto(w, "fail")
  /\ UNCHANGED <<docVars, broker, job, sent, indexVars, history>>

\* Mutant of Ensure: the fan-out starts without the collection.
EnsureSkipped(w) ==
  /\ at[w] = "ensure"
  /\ Goto(w, "fanout")
  /\ UNCHANGED <<docVars, broker, job, sent, indexVars, history>>
\* ensure_collection first asks whether the collection exists ...
Ensure(w) ==
  /\ at[w] = "ensure"
  /\ \/ Goto(w, IF collection THEN "fanout" ELSE "create")
     \/ Goto(w, "fail")
  /\ UNCHANGED <<docVars, broker, job, sent, indexVars, history>>

\* ... and creates it later, which raises when another worker was faster.
Create(w) ==
  /\ at[w] = "create"
  /\ \/ ~collection /\ collection' = TRUE /\ Goto(w, "fanout")
     \/ UNCHANGED collection /\ Goto(w, "fail")
  /\ UNCHANGED <<docVars, broker, job, sent, vectors, history>>

\* Mutant of FanOut: the last chunk is not sent.
FanOutShort(w) ==
  /\ at[w] = "fanout"
  /\ IF sent[w] + 1 < Chunks[job[w].doc]
     THEN /\ Send(EmbedTask(job[w].doc, sent[w] + 1, 0))
          /\ sent' = [sent EXCEPT ![w] = @ + 1]
          /\ UNCHANGED at
     ELSE Goto(w, "finish") /\ UNCHANGED <<broker, sent>>
  /\ UNCHANGED <<docVars, job, indexVars, history>>
\* One embed_chunk_batch.delay per chunk; what was sent stays sent if one raises.
FanOut(w) ==
  /\ at[w] = "fanout"
  /\ \/ /\ sent[w] < Chunks[job[w].doc]
        /\ Send(EmbedTask(job[w].doc, sent[w] + 1, 0))
        /\ sent' = [sent EXCEPT ![w] = @ + 1]
        /\ UNCHANGED at
     \/ /\ sent[w] = Chunks[job[w].doc]
        /\ Goto(w, "finish")
        /\ UNCHANGED <<broker, sent>>
     \/ Goto(w, "fail") /\ UNCHANGED <<broker, sent>>
  /\ UNCHANGED <<docVars, job, indexVars, history>>

Finish(w) ==
  /\ at[w] = "finish"
  /\ SetStatus(w, "READY")
  /\ Goto(w, "ack")
  /\ UNCHANGED <<upload, objects, broker, job, sent, indexVars, history>>

\* Mutant of Fail: a failure is raised and retried, but not recorded.
FailUnrecorded(w) ==
  /\ at[w] = "fail"
  /\ Goto(w, "retry")
  /\ UNCHANGED <<docVars, broker, job, sent, indexVars, history>>
\* The handler records the failure on the row before it asks for a retry.
Fail(w) ==
  /\ at[w] = "fail"
  /\ SetStatus(w, "FAILED")
  /\ Goto(w, "retry")
  /\ UNCHANGED <<upload, objects, broker, job, sent, indexVars, history>>

\* upsert_chunk raises without the collection; the point is named for document
\* and chunk, so that a repeated upsert writes the same one.
Upsert(d, i) == collection /\ vectors' = vectors \cup {<<d, i>>}

\* embed_texts and upsert_chunk, either of which may raise.
Embed(w) ==
  /\ at[w] = "embed"
  /\ \/ Upsert(job[w].doc, job[w].chunk) /\ Goto(w, "ack")
     \/ Goto(w, "retry") /\ UNCHANGED vectors
  /\ UNCHANGED <<docVars, broker, job, sent, collection, history>>

\* Mutants of Retry: it counts without a limit, or not at all, and the task
\* is put back and also tried again at once.
RetryUnlimited(w) ==
  /\ at[w] = "retry"
  /\ Send([job[w] EXCEPT !.retries = @ + 1])
  /\ Goto(w, "ack")
  /\ UNCHANGED <<docVars, job, sent, indexVars, history>>
RetryUncounted(w) ==
  /\ at[w] = "retry"
  /\ Send(job[w])
  /\ Goto(w, "ack")
  /\ UNCHANGED <<docVars, job, sent, indexVars, history>>
RetryTwice(w) ==
  /\ at[w] = "retry"
  /\ IF job[w].retries < MaxRetries
     THEN /\ Send([job[w] EXCEPT !.retries = @ + 1])
          /\ job' = [job EXCEPT ![w].retries = @ + 1]
          /\ Goto(w, IF job[w].task = "process" THEN "begin" ELSE "embed")
     ELSE Goto(w, "ack") /\ UNCHANGED <<broker, job>>
  /\ UNCHANGED <<docVars, sent, indexVars, history>>
\* self.retry queues the task again under a higher count, before this message
\* is acknowledged; once the retries are spent the exception ends the task.
Retry(w) ==
  /\ at[w] = "retry"
  /\ \/ /\ job[w].retries < MaxRetries
        /\ Send([job[w] EXCEPT !.retries = @ + 1])
        /\ UNCHANGED lost
     \/ /\ job[w].retries = MaxRetries
        /\ lost' = IF job[w].task = "embed"
                   THEN lost \cup {<<job[w].doc, job[w].chunk>>} ELSE lost
        /\ UNCHANGED broker
  /\ Goto(w, "ack")
  /\ UNCHANGED <<docVars, job, sent, indexVars, stranded, faults>>

Free(w) ==
  /\ job' = [job EXCEPT ![w] = NoJob]
  /\ at' = [at EXCEPT ![w] = "idle"]
  /\ sent' = [sent EXCEPT ![w] = 0]

Ack(w) ==
  /\ at[w] = "ack"
  /\ Free(w)
  /\ UNCHANGED <<docVars, broker, indexVars, history>>

\* The pool process dies (out of memory, hard time limit): the worker fails
\* the task and acknowledges it, since task_reject_on_worker_lost is not set.
ChildLost(w) ==
  /\ at[w] # "idle"
  /\ Fault("child")
  /\ Free(w)
  /\ IF job[w].task = "process"
     THEN stranded' = stranded \cup {job[w].doc} /\ UNCHANGED lost
     ELSE lost' = lost \cup {<<job[w].doc, job[w].chunk>>} /\ UNCHANGED stranded
  /\ UNCHANGED <<docVars, broker, indexVars>>

\* Mutant of WorkerLost: messages are acknowledged when they are taken.
WorkerLostEarlyAck(w) ==
  /\ at[w] # "idle"
  /\ Fault("worker")
  /\ Free(w)
  /\ UNCHANGED <<docVars, broker, indexVars, lost, stranded>>
\* The whole worker dies: what it had not acknowledged is delivered again.
WorkerLost(w) ==
  /\ at[w] # "idle"
  /\ Fault("worker")
  /\ Send(job[w])
  /\ Free(w)
  /\ UNCHANGED <<docVars, indexVars, lost, stranded>>

Work(w) ==
  \/ Take(w) \/ Begin(w) \/ Read(w) \/ Ensure(w) \/ Create(w) \/ FanOut(w)
  \/ Finish(w) \/ Fail(w) \/ Embed(w) \/ Retry(w) \/ Ack(w)

Next ==
  \/ \E d \in Docs : InsertRow(d) \/ PutObject(d) \/ Delay(d)
  \/ \E w \in Workers : Work(w) \/ CommitFails(w) \/ ChildLost(w) \/ WorkerLost(w)

\* Workers run: a free one takes what is queued, and a task that has begun
\* goes on (it has hard and soft time limits, celery_app.py:32-33).
Fairness == \A w \in Workers : WF_vars(Work(w))

Spec == Init /\ [][Next]_vars /\ Fairness
-----------------------------------------------------------------------------
TypeOK ==
  /\ upload \in [Docs -> {"none", "row", "object", "queued", "failed"}]
  /\ status \in [Docs -> {"absent", "PENDING", "PROCESSING", "READY", "FAILED"}]
  /\ objects \subseteq Docs
  /\ IsABag(broker) /\ BagToSet(broker) \subseteq Task
  /\ job \in [Workers -> Task \cup {NoJob}]
  /\ at \in [Workers -> {"idle", "begin", "read", "ensure", "create", "fanout", "finish",
                         "fail", "embed", "retry", "ack"}]
  /\ sent \in [Workers -> Nat]
  /\ collection \in BOOLEAN
  /\ vectors \subseteq UNION {ChunksOf(d) : d \in Docs}
  /\ lost \subseteq UNION {ChunksOf(d) : d \in Docs}
  /\ stranded \subseteq Docs
  /\ faults \in 0..MaxFaults

\* A task never starts on a document whose row or bytes are not there yet
\* (documents.py:38-46).
NoWorkWithoutObject ==
  \A d \in Docs : Processing(d) => status[d] # "absent" /\ d \in objects

\* No embed task is queued, and no document is READY, before the collection
\* exists, whoever wins the race to create it: no embedding is spent on
\* retries for that, and a question about a document that is shown as READY
\* does not fail in vectorstore.search (nodes.py:74).
EmbedHasCollection ==
  (\E d \in Docs : status[d] = "READY" \/ \E i \in 1..Chunks[d] : Embedding(d, i))
    => collection

\* At most one process task per document is queued or running, its retries
\* included: two workers never process the same document.
OneTaskPerDocument ==
  \A d \in Docs :
    LET running == {w \in Workers : job[w] \in ProcessTasks(d) /\ at[w] # "ack"}
        queued  == BagToSet(broker) \cap ProcessTasks(d)
    IN  /\ \A v, w \in running : v = w
        /\ \A m, n \in queued : m = n /\ broker[m] = 1
        /\ running = {} \/ queued = {}

\* A READY document owes every chunk: each is indexed, on its way to the
\* index, or was given up after its last retry.
ReadyAccountsForChunks ==
  \A d \in Docs : status[d] = "READY" =>
    \A i \in 1..Chunks[d] :
      <<d, i>> \in vectors \cup lost \/ Embedding(d, i)

\* A document shown as being worked on is worked on, or is one whose task was
\* cut off without a record.
ProcessingIsWork ==
  \A d \in Docs : status[d] = "PROCESSING" => Processing(d) \/ d \in stranded

\* The attempts a document has left: those of the retry count of its process
\* task, where a worker that waits to retry has spent one more.
Left(d) ==
  {MaxRetries + 1 - m.retries : m \in BagToSet(broker) \cap ProcessTasks(d)}
    \cup {MaxRetries + 1 - job[w].retries :
            w \in {v \in Workers : job[v] \in ProcessTasks(d) /\ at[v] \notin {"retry", "ack"}}}
    \cup {MaxRetries - job[w].retries :
            w \in {v \in Workers : job[v] \in ProcessTasks(d) /\ at[v] = "retry"}}

\* What a client that polls a document may rely on ("poll GET .../documents ->
\* READY | FAILED", docs/10-rest-api.md:69): the uploads, workers and messages
\* carry out DocumentLife, so READY is final, a status says PROCESSING only
\* during an attempt, a document gets MaxRetries + 1 attempts at most, and
\* without faults each comes to its end.
Life == INSTANCE DocumentLife WITH
  Attempts <- MaxRetries + 1,
  MayLose  <- Faults # {},
  accepted <- {d \in Docs : upload[d] = "queued"},
  chances  <- [d \in Docs |-> IF Left(d) = {} THEN 0 ELSE CHOOSE n \in Left(d) : TRUE]

\* Every step is one in the life of a document, and each life goes on.
ImplementsDocumentLife == Life!Spec

\* With faults too, a queued document settles unless its task was cut off
\* without a record; that a worker dies before it acknowledges is no such case.
SettlesUnlessStranded ==
  \A d \in Docs :
    upload[d] = "queued" ~> [](status[d] \in {"READY", "FAILED"} \/ d \in stranded)

\* Every chunk of a READY document is indexed or given up in the end.
ChunksSettle ==
  \A d \in Docs : status[d] = "READY" ~> ChunksOf(d) \subseteq vectors \cup lost
=============================================================================
