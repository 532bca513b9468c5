--------------------------- MODULE IngestionProofs ---------------------------
(***************************************************************************)
(* Safety of the document pipeline, for any documents, chunks, workers,    *)
(* retries and faults.                                                     *)
(***************************************************************************)
EXTENDS Ingestion, TLAPS

Waiting  == BagToSet(broker)
Busy     == {"begin", "read", "ensure", "create", "fanout", "finish", "fail"}
Of(m, d) == m.task = "process" /\ m.doc = d
For(m, d, i) == m.task = "embed" /\ m.doc = d /\ m.chunk = i
Runs(w, d) == Of(job[w], d) /\ at[w] # "ack"

\* What a worker holds at each place of its task.
Held ==
  \A w \in Workers :
    /\ at[w] = "idle" <=> job[w] = NoJob
    /\ at[w] \in Busy => job[w].task = "process"
    /\ at[w] = "embed" => job[w].task = "embed"
    /\ at[w] \in {"idle", "begin", "read", "ensure", "create"} => sent[w] = 0

\* A process task exists only for an upload that was queued.
Uploads ==
  \A d \in Docs :
    /\ upload[d] # "queued" => /\ \A m \in Waiting : ~Of(m, d)
                               /\ \A w \in Workers : ~Of(job[w], d)
    /\ upload[d] \in {"row", "object", "queued"} => status[d] # "absent"
    /\ upload[d] \in {"object", "queued"} => d \in objects

\* Nothing that needs the collection goes before it.
Collected ==
  collection \/ /\ \A d \in Docs : status[d] # "READY"
                /\ \A m \in Waiting : m.task # "embed"
                /\ \A w \in Workers : job[w].task # "embed" /\ at[w] \notin {"fanout", "finish"}

\* A document in PROCESSING has a task that is queued or not yet over.
Worked ==
  \A d \in Docs : status[d] = "PROCESSING" =>
    \/ d \in stranded
    \/ \E m \in Waiting : Of(m, d)
    \/ \E w \in Workers : at[w] \in Busy /\ job[w].doc = d

\* A chunk is indexed, given up, or has a task that is queued or not over.
Owed(d, i) ==
  \/ <<d, i>> \in vectors \cup lost
  \/ \E m \in Waiting : For(m, d, i)
  \/ \E w \in Workers : at[w] \in {"embed", "retry"} /\ For(job[w], d, i)

Debts ==
  /\ \A d \in Docs : status[d] = "READY" => \A i \in 1..Chunks[d] : Owed(d, i)
  /\ \A w \in Workers :
       /\ at[w] = "fanout" => \A i \in 1..sent[w] : Owed(job[w].doc, i)
       /\ at[w] = "finish" => \A i \in 1..Chunks[job[w].doc] : Owed(job[w].doc, i)

\* Of a document, one process task waits or runs, or none.
SingleOf(d) ==
  /\ \A v, w \in Workers : Runs(v, d) /\ Runs(w, d) => v = w
  /\ \A m, n \in Waiting : Of(m, d) /\ Of(n, d) => m = n /\ broker[m] = 1
  /\ \A m \in Waiting, w \in Workers : ~(Of(m, d) /\ Runs(w, d))
Single == "worker" \notin Faults => \A d \in Docs : SingleOf(d)

IInv == TypeOK /\ Held /\ Uploads /\ Collected /\ Worked /\ Debts /\ Single

USE PipelineAssumption
-----------------------------------------------------------------------------
\* A message put into the bag is in it once more.
LEMMA SendFacts ==
  ASSUME IsABag(broker), NEW m, Send(m)
  PROVE  /\ IsABag(broker') /\ Waiting' = Waiting \cup {m}
         /\ m \notin Waiting => broker'[m] = 1
         /\ \A x \in Waiting : x # m => broker'[x] = broker[x]
  BY DEF IsABag, Send, Waiting, BagToSet, SetToBag, (+)

\* A message taken out of it is in it once less.
LEMMA TakeFacts ==
  ASSUME IsABag(broker), NEW m \in Waiting, broker' = broker (-) SetToBag({m})
  PROVE  /\ IsABag(broker') /\ Waiting' \subseteq Waiting /\ Waiting \ {m} \subseteq Waiting'
         /\ broker[m] = 1 => m \notin Waiting'
         /\ \A x \in Waiting' : x # m => broker'[x] = broker[x]
  BY DEF IsABag, Waiting, BagToSet, SetToBag, (-)

\* The members of Task, by their fields.
LEMMA TaskFields ==
  ASSUME NEW m \in Task
  PROVE  /\ m # NoJob /\ m.doc \in Docs /\ m.retries \in 0..MaxRetries
         /\ \/ m.task = "process" /\ m = ProcessTask(m.doc, m.retries)
            \/ m.task = "embed" /\ m.chunk \in 1..Chunks[m.doc] /\ m = EmbedTask(m.doc, m.chunk, m.retries)
<1>1. CASE \E d \in Docs, n \in 0..MaxRetries : m = ProcessTask(d, n)
  BY <1>1 DEF ProcessTask, NoJob
<1>2. CASE \E d \in Docs : \E i \in 1..Chunks[d], n \in 0..MaxRetries : m = EmbedTask(d, i, n)
  BY <1>2 DEF EmbedTask, NoJob
<1> QED BY <1>1, <1>2 DEF Task

\* An idle worker's job is no task.
LEMMA NoJobFields == NoJob.task = "none" /\ NoJob \notin Task
  BY TaskFields DEF NoJob

\* What uploads, fan-outs and retries send are tasks.
LEMMA NewTask ==
  /\ \A d \in Docs, n \in 0..MaxRetries :
       ProcessTask(d, n) \in Task /\ Of(ProcessTask(d, n), d)
  /\ \A d \in Docs : \A i \in 1..Chunks[d], n \in 0..MaxRetries :
       EmbedTask(d, i, n) \in Task /\ For(EmbedTask(d, i, n), d, i)
<1>1. ASSUME NEW d \in Docs, NEW n \in 0..MaxRetries
      PROVE  ProcessTask(d, n) \in Task /\ Of(ProcessTask(d, n), d)
  BY DEF Task, ProcessTask, Of
<1>2. ASSUME NEW d \in Docs, NEW i \in 1..Chunks[d], NEW n \in 0..MaxRetries
      PROVE  EmbedTask(d, i, n) \in Task /\ For(EmbedTask(d, i, n), d, i)
  <2>1. EmbedTask(d, i, n) \in {EmbedTask(d, j, k) : j \in 1..Chunks[d], k \in 0..MaxRetries}
    OBVIOUS
  <2>2. EmbedTask(d, i, n) \in Task
    BY <2>1 DEF Task
  <2> QED BY <2>2 DEF EmbedTask, For
<1> QED BY <1>1, <1>2

\* A retry is the same task under a higher count.
LEMMA RetryFields ==
  ASSUME NEW m \in Task, m.retries < MaxRetries,
         NEW n, n = [m EXCEPT !.retries = @ + 1]
  PROVE  n \in Task /\ n.task = m.task /\ n.doc = m.doc /\ (m.task = "embed" => n.chunk = m.chunk)
<1>1. m.retries + 1 \in 0..MaxRetries /\ m.doc \in Docs
  BY TaskFields
<1>2. CASE m.task = "process"
  <2>1. n = ProcessTask(m.doc, m.retries + 1)
    BY <1>2, TaskFields DEF ProcessTask, EmbedTask
  <2> QED BY <2>1, <1>1, <1>2, NewTask DEF Of
<1>3. CASE m.task = "embed"
  <2>1. n = EmbedTask(m.doc, m.chunk, m.retries + 1) /\ m.chunk \in 1..Chunks[m.doc]
    BY <1>3, TaskFields DEF ProcessTask, EmbedTask
  <2> QED BY <2>1, <1>1, <1>3, NewTask DEF For
<1> QED BY <1>2, <1>3, TaskFields

\* The pipeline before the first upload.
LEMMA InitIInv == Init => IInv
<1> SUFFICES ASSUME Init PROVE IInv
  OBVIOUS
<1>1. IsABag(broker) /\ Waiting = {} /\ BagToSet(broker) = {}
  BY DEF Init, IsABag, Waiting, EmptyBag, SetToBag, BagToSet
<1>2. \A w \in Workers : /\ job[w] = NoJob /\ job[w].task = "none" /\ at[w] = "idle" /\ sent[w] = 0
  BY NoJobFields DEF Init
<1>3. TypeOK
  <2>1. faults \in 0..MaxFaults /\ sent \in [Workers -> Nat] /\ job \in [Workers -> Task \cup {NoJob}]
    BY DEF Init
  <2> QED BY <1>1, <2>1 DEF Init, TypeOK
<1>4. Held /\ Uploads /\ Collected
  BY <1>1, <1>2 DEF Init, Held, Uploads, Collected, Busy, Of
<1>5. Worked /\ Debts /\ Single
  BY <1>1, <1>2 DEF Init, Worked, Debts, Single, SingleOf, Runs, Of
<1> QED BY <1>3, <1>4, <1>5 DEF IInv

\* Before its task is queued, an upload touches nothing a worker looks at.
LEMMA UploadIInv ==
  ASSUME IInv, NEW d \in Docs, InsertRow(d) \/ PutObject(d)
  PROVE  IInv'
<1> USE DEF IInv, InsertRow, PutObject, workerVars, indexVars, history
<1>1. /\ upload[d] \in {"none", "row"}
      /\ UNCHANGED <<workerVars, broker, Waiting, indexVars, history>>
  BY DEF Waiting
<1>2. TypeOK' /\ Held'
  BY <1>1 DEF TypeOK, Held
<1>3. Uploads' /\ Collected'
  BY <1>1 DEF Uploads, Collected, TypeOK
<1>4. Worked' /\ Debts' /\ Single'
  BY <1>1 DEF Worked, Debts, Owed, Single, SingleOf, Runs, TypeOK
<1> QED BY <1>2, <1>3, <1>4

\* The task of an upload is the first of its document.
LEMMA DelayIInv ==
  ASSUME IInv, NEW d \in Docs, Delay(d)
  PROVE  IInv'
<1> USE DEF IInv, workerVars, indexVars, history
<1>1. CASE UNCHANGED broker
  <2>1. /\ upload' = [upload EXCEPT ![d] = "failed"] \/ upload' = [upload EXCEPT ![d] = "queued"]
        /\ upload[d] = "object"
        /\ UNCHANGED <<status, objects, workerVars, broker, Waiting, indexVars, history>>
    BY <1>1 DEF Delay, Waiting
  <2>2. TypeOK' /\ Held' /\ Uploads' /\ Collected'
    BY <2>1 DEF TypeOK, Held, Uploads, Collected
  <2>3. Worked' /\ Debts' /\ Single'
    BY <2>1 DEF Worked, Debts, Owed, Single, SingleOf, Runs
  <2> QED BY <2>2, <2>3
<1>2. CASE Send(ProcessTask(d, 0)) /\ upload' = [upload EXCEPT ![d] = "queued"]
  <2> DEFINE m == ProcessTask(d, 0)
  <2>1. /\ m \in Task /\ Of(m, d) /\ m.task # "embed"
        /\ upload[d] = "object" /\ m \notin Waiting
        /\ UNCHANGED <<status, objects, workerVars, indexVars, history>>
    BY <1>2, NewTask DEF Delay, Uploads, Of
  <2>2. /\ IsABag(broker') /\ Waiting' = Waiting \cup {m} /\ broker'[m] = 1
        /\ \A x \in Waiting : x # m => broker'[x] = broker[x]
    BY <1>2, <2>1, SendFacts DEF TypeOK
  <2> HIDE DEF m
  <2>3. TypeOK' /\ Held'
    BY <1>2, <2>1, <2>2 DEF TypeOK, Held, Waiting
  <2>4. Uploads' /\ Collected'
    BY <1>2, <2>1, <2>2 DEF Uploads, Collected, TypeOK, Of
  <2>5. Worked' /\ Debts'
    BY <1>2, <2>1, <2>2 DEF Worked, Debts, Owed, TypeOK
  <2>6. Single'
    BY <2>1, <2>2 DEF Single, SingleOf, Runs, Uploads, Of
  <2> QED BY <2>3, <2>4, <2>5, <2>6
<1> QED BY <1>1, <1>2 DEF Delay

\* A message taken becomes the job of one worker.
LEMMA TakeIInv ==
  ASSUME IInv, NEW w \in Workers, Take(w)
  PROVE  IInv'
<1> USE DEF IInv, docVars, indexVars, history
<1>1. PICK m \in Waiting :
        /\ broker' = broker (-) SetToBag({m})
        /\ job' = [job EXCEPT ![w] = m]
        /\ at' = [at EXCEPT ![w] = IF m.task = "process" THEN "begin" ELSE "embed"]
  BY DEF Take, Waiting
<1>2. /\ m \in Task /\ m # NoJob /\ m.doc \in Docs /\ m.task \in {"process", "embed"}
      /\ at[w] = "idle" /\ job[w] = NoJob /\ job[w].task = "none" /\ sent[w] = 0
      /\ UNCHANGED <<docVars, sent, indexVars, history>>
  BY TaskFields, NoJobFields DEF Take, TypeOK, Held, Waiting
<1>3. /\ IsABag(broker') /\ Waiting' \subseteq Waiting /\ Waiting \ {m} \subseteq Waiting'
      /\ broker[m] = 1 => m \notin Waiting'
      /\ \A x \in Waiting' : x # m => broker'[x] = broker[x]
  BY <1>1, TakeFacts DEF TypeOK
<1>4. TypeOK' /\ Held'
  BY <1>1, <1>2, <1>3 DEF TypeOK, Held, Waiting, Busy
<1>5. Uploads' /\ Collected'
  BY <1>1, <1>2, <1>3 DEF Uploads, Collected, TypeOK, Of
<1>6. Worked'
  BY <1>1, <1>2, <1>3 DEF Worked, TypeOK, Busy, Of
<1>7. Debts'
  BY <1>1, <1>2, <1>3 DEF Debts, Owed, TypeOK, For
<1>8. Single'
  <2> SUFFICES ASSUME NEW d \in Docs, SingleOf(d) PROVE SingleOf(d)'
    BY DEF Single
  <2>1. \A v \in Workers : v # w => Runs(v, d)' = Runs(v, d)
    BY <1>1 DEF Runs, TypeOK
  <2>2. CASE Of(m, d)
    BY <1>3, <2>1, <2>2 DEF SingleOf
  <2>3. CASE ~Of(m, d)
    <3>1. ~Runs(w, d)'
      BY <1>1, <1>2, <2>3 DEF Runs, TypeOK
    <3> QED BY <1>3, <2>1, <2>3, <3>1 DEF SingleOf
  <2> QED BY <2>2, <2>3
<1> QED BY <1>4, <1>5, <1>6, <1>7, <1>8

\* A step inside a process task that sends nothing.
LEMMA StepIInv ==
  ASSUME IInv, NEW w \in Workers,
         Begin(w) \/ Read(w) \/ Ensure(w) \/ Create(w) \/ Finish(w) \/ Fail(w) \/ CommitFails(w)
  PROVE  IInv'
<1> USE DEF IInv, Begin, Read, Ensure, Create, Finish, Fail, CommitFails, Fault, Goto, SetStatus,
            docVars, indexVars, history
<1>1. /\ job[w] \in Task /\ job[w].task = "process" /\ job[w].doc \in Docs
      /\ UNCHANGED <<job, broker, sent, Waiting, upload, objects, vectors, lost>>
  BY TaskFields DEF Held, TypeOK, Busy, Waiting
<1>2. TypeOK'
  <2>1. at' \in [Workers -> {"idle", "begin", "read", "ensure", "create", "fanout", "finish",
                            "fail", "embed", "retry", "ack"}]
    BY DEF TypeOK
  <2>2. status' \in [Docs -> {"absent", "PENDING", "PROCESSING", "READY", "FAILED"}]
    BY <1>1 DEF TypeOK
  <2>3. stranded' \subseteq Docs /\ collection' \in BOOLEAN
    BY <1>1 DEF TypeOK
  <2>4. faults' = faults \/ (faults < MaxFaults /\ faults' = faults + 1)
    OBVIOUS
  <2>5. faults' \in 0..MaxFaults
    BY <2>4 DEF TypeOK
  <2> QED BY <1>1, <2>1, <2>2, <2>3, <2>5 DEF TypeOK, Waiting
<1>3. Held'
  BY <1>1 DEF Held, TypeOK, Busy
<1>4. Uploads' /\ Collected'
  BY <1>1 DEF Uploads, Collected, TypeOK
<1>5. Worked'
  BY <1>1 DEF Worked, TypeOK, Busy
<1>6. Debts'
  BY <1>1 DEF Debts, Owed, Held, TypeOK
<1>7. Single'
  BY <1>1 DEF Single, SingleOf, Runs, TypeOK
<1> QED BY <1>2, <1>3, <1>4, <1>5, <1>6, <1>7

\* The fan-out sends the next chunk's task, is over, or fails.
LEMMA FanOutIInv ==
  ASSUME IInv, NEW w \in Workers, FanOut(w)
  PROVE  IInv'
<1> USE DEF IInv, Goto, docVars, indexVars, history
<1>0. PICK d, k : d = job[w].doc /\ k = sent[w]
  OBVIOUS
<1>1. /\ job[w] \in Task /\ job[w].task = "process" /\ d \in Docs /\ at[w] = "fanout"
      /\ job[w].doc = d /\ sent[w] = k /\ k \in Nat /\ Chunks[d] \in Nat
      /\ UNCHANGED <<docVars, job, indexVars, history>>
  BY <1>0, TaskFields DEF FanOut, Held, TypeOK, Busy
<1>2. CASE /\ k < Chunks[d] /\ Send(EmbedTask(d, k + 1, 0))
           /\ sent' = [sent EXCEPT ![w] = k + 1] /\ UNCHANGED at
  <2> DEFINE m == EmbedTask(d, k + 1, 0)
  <2>1. m \in Task /\ For(m, d, k + 1) /\ m.task = "embed"
    BY <1>1, <1>2, NewTask DEF For
  <2>2. /\ IsABag(broker') /\ Waiting' = Waiting \cup {m}
        /\ \A x \in Waiting : x # m => broker'[x] = broker[x]
    BY <1>2, SendFacts DEF TypeOK
  <2> HIDE DEF m
  <2>3. TypeOK' /\ Held'
    BY <1>1, <1>2, <2>1, <2>2 DEF TypeOK, Held, Waiting, Busy
  <2>4. Uploads' /\ Collected'
    BY <1>1, <1>2, <2>1, <2>2 DEF Uploads, Collected, TypeOK, Of
  <2>5. Worked'
    BY <1>1, <1>2, <2>1, <2>2 DEF Worked
  <2>6. \A e, i : Owed(e, i) => Owed(e, i)'
    BY <1>1, <1>2, <2>2 DEF Owed
  <2>7. Owed(d, k + 1)'
    BY <2>1, <2>2 DEF Owed, For
  <2>8. Debts'
    BY <1>1, <1>2, <2>6, <2>7 DEF Debts, TypeOK, Owed
  <2>9. Single'
    BY <1>1, <1>2, <2>1, <2>2 DEF Single, SingleOf, Runs, Of
  <2> QED BY <2>3, <2>4, <2>5, <2>8, <2>9
<1>3. CASE /\ UNCHANGED <<broker, sent>>
           /\ \/ k = Chunks[d] /\ Goto(w, "finish")
              \/ Goto(w, "fail")
  <2>1. UNCHANGED Waiting
    BY <1>3 DEF Waiting
  <2>2. TypeOK' /\ Held'
    BY <1>1, <1>3 DEF TypeOK, Held, Busy
  <2>3. Uploads' /\ Collected'
    BY <1>1, <1>3, <2>1 DEF Uploads, Collected, TypeOK
  <2>4. Worked'
    BY <1>1, <1>3, <2>1 DEF Worked, TypeOK, Busy
  <2>5. Debts'
    BY <1>1, <1>3, <2>1 DEF Debts, Owed, TypeOK
  <2>6. Single'
    BY <1>1, <1>3, <2>1 DEF Single, SingleOf, Runs, TypeOK
  <2> QED BY <2>2, <2>3, <2>4, <2>5, <2>6
<1> QED BY <1>1, <1>2, <1>3 DEF FanOut

\* A chunk that is indexed is no longer owed by its task.
LEMMA EmbedIInv ==
  ASSUME IInv, NEW w \in Workers, Embed(w)
  PROVE  IInv'
<1> USE DEF IInv, Goto, docVars, history
<1> DEFINE c == <<job[w].doc, job[w].chunk>>
<1>1. /\ job[w] \in Task /\ job[w].task = "embed" /\ at[w] = "embed"
      /\ job[w].doc \in Docs /\ job[w].chunk \in 1..Chunks[job[w].doc]
      /\ UNCHANGED <<docVars, broker, Waiting, job, sent, collection, history>>
  BY TaskFields DEF Embed, Upsert, Held, TypeOK, Waiting
<1>2. \/ vectors' = vectors \cup {c} /\ at' = [at EXCEPT ![w] = "ack"]
      \/ vectors' = vectors /\ at' = [at EXCEPT ![w] = "retry"]
  BY DEF Embed, Upsert
<1>3. c \in UNION {ChunksOf(d) : d \in Docs}
  BY <1>1 DEF ChunksOf
<1>4. TypeOK' /\ Held'
  BY <1>1, <1>2, <1>3 DEF TypeOK, Held, Busy
<1>5. Uploads' /\ Collected'
  BY <1>1, <1>2 DEF Uploads, Collected, TypeOK
<1>6. Worked'
  BY <1>1, <1>2 DEF Worked, TypeOK, Busy
<1>7. \A d, i : Owed(d, i) => Owed(d, i)'
  BY <1>1, <1>2 DEF Owed, For, TypeOK
<1>8. Debts'
  BY <1>1, <1>2, <1>7 DEF Debts, TypeOK
<1>9. Single'
  BY <1>1, <1>2 DEF Single, SingleOf, Runs, Of, TypeOK
<1> QED BY <1>4, <1>5, <1>6, <1>8, <1>9

\* The next attempt takes over what the failed one owed, or nobody does.
LEMMA RetryIInv ==
  ASSUME IInv, NEW w \in Workers, Retry(w)
  PROVE  IInv'
<1> USE DEF IInv, Goto, docVars, indexVars
<1>0. PICK m : m = job[w]
  OBVIOUS
<1>1. /\ m \in Task /\ m.doc \in Docs /\ m.task \in {"process", "embed"}
      /\ m.task = "embed" => m.chunk \in 1..Chunks[m.doc]
      /\ job[w] = m /\ at[w] = "retry" /\ at' = [at EXCEPT ![w] = "ack"]
      /\ UNCHANGED <<docVars, job, sent, indexVars, stranded, faults>>
  BY <1>0, TaskFields DEF Retry, Held, TypeOK
<1>2. CASE m.retries < MaxRetries /\ Send([m EXCEPT !.retries = @ + 1]) /\ UNCHANGED lost
  <2>1. PICK n : n = [m EXCEPT !.retries = @ + 1]
    OBVIOUS
  <2>2. /\ n \in Task /\ n.task = m.task /\ n.doc = m.doc
        /\ m.task = "embed" => n.chunk = m.chunk
    BY <1>1, <1>2, <2>1, RetryFields
  <2>3. /\ IsABag(broker') /\ Waiting' = Waiting \cup {n}
        /\ n \notin Waiting => broker'[n] = 1
        /\ \A x \in Waiting : x # n => broker'[x] = broker[x]
    BY <1>2, <2>1, SendFacts DEF TypeOK
  <2>4. TypeOK' /\ Held'
    BY <1>1, <1>2, <2>2, <2>3 DEF TypeOK, Held, Waiting, Busy
  <2>5. Uploads' /\ Collected'
    BY <1>1, <2>2, <2>3 DEF Uploads, Collected, TypeOK, Of
  <2>6. Worked'
    BY <1>1, <2>3 DEF Worked, TypeOK, Busy
  <2>7. \A d, i : Owed(d, i) => Owed(d, i)'
    BY <1>1, <1>2, <2>2, <2>3 DEF Owed, For, TypeOK
  <2>8. Debts'
    BY <1>1, <2>7 DEF Debts, TypeOK
  <2>9. Single'
    <3> SUFFICES ASSUME NEW d \in Docs, SingleOf(d) PROVE SingleOf(d)'
      BY DEF Single
    <3>1. \A v \in Workers : (Runs(v, d)' <=> (Runs(v, d) /\ v # w)) /\ (Runs(w, d) <=> Of(m, d))
      BY <1>1 DEF Runs, TypeOK
    <3>2. Of(n, d) <=> Of(m, d)
      BY <2>2 DEF Of
    <3> QED BY <2>3, <3>1, <3>2 DEF SingleOf
  <2> QED BY <2>4, <2>5, <2>6, <2>8, <2>9
<1>3. CASE /\ lost' = IF m.task = "embed" THEN lost \cup {<<m.doc, m.chunk>>} ELSE lost
           /\ UNCHANGED broker
  <2>1. UNCHANGED Waiting
    BY <1>3 DEF Waiting
  <2>2. m.task = "embed" => <<m.doc, m.chunk>> \in UNION {ChunksOf(d) : d \in Docs}
    BY <1>1 DEF ChunksOf
  <2>3. TypeOK' /\ Held'
    BY <1>1, <1>3, <2>2 DEF TypeOK, Held, Busy
  <2>4. Uploads' /\ Collected'
    BY <1>1, <2>1 DEF Uploads, Collected, TypeOK
  <2>5. Worked'
    BY <1>1, <2>1 DEF Worked, TypeOK, Busy
  <2>6. \A d, i : Owed(d, i) => Owed(d, i)'
    BY <1>1, <1>3, <2>1 DEF Owed, For, TypeOK
  <2>7. Debts'
    BY <1>1, <2>6 DEF Debts, TypeOK
  <2>8. Single'
    BY <1>1, <1>3, <2>1 DEF Single, SingleOf, Runs, TypeOK
  <2> QED BY <2>3, <2>4, <2>5, <2>7, <2>8
<1> QED BY <1>0, <1>1, <1>2, <1>3 DEF Retry

\* A job that ends without being delivered again is acknowledged after it was
\* done or handed on, or its loss is recorded.
LEMMA EndIInv ==
  ASSUME IInv, NEW w \in Workers, Ack(w) \/ ChildLost(w)
  PROVE  IInv'
<1> USE DEF IInv, docVars, indexVars
<1>0. PICK m : m = job[w]
  OBVIOUS
<1>1. /\ m \in Task /\ m.doc \in Docs /\ m.task \in {"process", "embed"}
      /\ m.task = "embed" => <<m.doc, m.chunk>> \in UNION {ChunksOf(d) : d \in Docs}
      /\ job[w] = m /\ at[w] # "idle" /\ NoJob.task = "none"
  BY <1>0, TaskFields, NoJobFields DEF Ack, ChildLost, Held, TypeOK, ChunksOf
<1>2. /\ Free(w) /\ UNCHANGED <<docVars, broker, Waiting, indexVars>>
      /\ \/ at[w] = "ack" /\ UNCHANGED <<lost, stranded>>
         \/ m.task = "process" /\ stranded' = stranded \cup {m.doc} /\ UNCHANGED lost
         \/ m.task = "embed" /\ lost' = lost \cup {<<m.doc, m.chunk>>} /\ UNCHANGED stranded
  BY <1>1 DEF Ack, ChildLost, Waiting, history
<1>3. TypeOK'
  <2>1. faults' = faults \/ (faults < MaxFaults /\ faults' = faults + 1)
    BY DEF Ack, ChildLost, Fault, history
  <2>2. faults' \in 0..MaxFaults
    BY <2>1 DEF TypeOK
  <2> QED BY <1>1, <1>2, <2>2 DEF Free, TypeOK, Waiting
<1>4. Held'
  BY <1>2 DEF Free, Held, TypeOK, Busy
<1>5. Uploads' /\ Collected'
  BY <1>1, <1>2 DEF Free, Uploads, Collected, TypeOK, Of
<1>6. Worked'
  BY <1>1, <1>2 DEF Free, Worked, TypeOK, Busy, Held
<1>7. \A d, i : Owed(d, i) => Owed(d, i)'
  BY <1>1, <1>2 DEF Free, Owed, For, TypeOK
<1>8. Debts'
  BY <1>1, <1>2, <1>7 DEF Free, Debts, TypeOK
<1>9. Single'
  BY <1>1, <1>2 DEF Free, Single, SingleOf, Runs, Of, TypeOK
<1> QED BY <1>3, <1>4, <1>5, <1>6, <1>8, <1>9

\* A job that is delivered again is owed by its message.
LEMMA WorkerLostIInv ==
  ASSUME IInv, NEW w \in Workers, WorkerLost(w)
  PROVE  IInv'
<1> USE DEF IInv, docVars, indexVars
<1>0. PICK m : m = job[w]
  OBVIOUS
<1>1. /\ m \in Task /\ m.doc \in Docs /\ m.task \in {"process", "embed"}
      /\ job[w] = m /\ at[w] # "idle" /\ NoJob.task = "none" /\ "worker" \in Faults
      /\ Free(w) /\ UNCHANGED <<docVars, indexVars, lost, stranded>>
  BY <1>0, TaskFields, NoJobFields DEF WorkerLost, Fault, Held, TypeOK
<1>2. /\ IsABag(broker') /\ Waiting' = Waiting \cup {m}
      /\ \A x \in Waiting : x # m => broker'[x] = broker[x]
  BY <1>0, SendFacts DEF WorkerLost, TypeOK
<1>3. TypeOK'
  <2>1. faults < MaxFaults /\ faults' = faults + 1
    BY DEF WorkerLost, Fault
  <2>2. faults' \in 0..MaxFaults
    BY <2>1 DEF TypeOK
  <2> QED BY <1>1, <1>2, <2>2 DEF Free, TypeOK, Waiting
<1>4. Held'
  BY <1>1 DEF Free, Held, TypeOK, Busy
<1>5. Uploads' /\ Collected'
  BY <1>1, <1>2 DEF Free, Uploads, Collected, TypeOK, Of
<1>6. Worked'
  BY <1>1, <1>2 DEF Free, Worked, TypeOK, Busy, Held, Of
<1>7. \A d, i : Owed(d, i) => Owed(d, i)'
  BY <1>1, <1>2 DEF Free, Owed, For, TypeOK
<1>8. Debts'
  BY <1>1, <1>7 DEF Free, Debts, TypeOK
<1>9. Single'
  BY <1>1 DEF Single
<1> QED BY <1>3, <1>4, <1>5, <1>6, <1>8, <1>9
-----------------------------------------------------------------------------
\* The invariant holds in every reachable state, whatever fails.
THEOREM Inductive == Spec => []IInv
<1>1. IInv /\ [Next]_vars => IInv'
  <2> SUFFICES ASSUME IInv, [Next]_vars PROVE IInv'
    OBVIOUS
  <2>1. CASE \E d \in Docs : InsertRow(d) \/ PutObject(d) \/ Delay(d)
    BY <2>1, UploadIInv, DelayIInv
  <2>2. CASE \E w \in Workers : Work(w) \/ CommitFails(w)
    BY <2>2, TakeIInv, StepIInv, FanOutIInv, EmbedIInv, RetryIInv, EndIInv DEF Work
  <2>3. CASE \E w \in Workers : ChildLost(w) \/ WorkerLost(w)
    BY <2>3, EndIInv, WorkerLostIInv
  <2>4. CASE UNCHANGED vars
    BY <2>4 DEF vars, docVars, workerVars, indexVars, history, IInv, TypeOK, Held, Uploads,
      Collected, Worked, Debts, Owed, Single, SingleOf, Runs, Waiting
  <2> QED BY <2>1, <2>2, <2>3, <2>4 DEF Next
<1> QED BY InitIInv, <1>1, PTL DEF Spec

\* What Pending means, by the fields of a message.
LEMMA PendingFields ==
  ASSUME TypeOK, NEW d \in Docs
  PROVE  /\ \A m \in Task : m \in ProcessTasks(d) <=> Of(m, d)
         /\ NoJob \notin ProcessTasks(d)
         /\ Processing(d) <=> (\E m \in Waiting : Of(m, d)) \/ (\E w \in Workers : Of(job[w], d))
         /\ \A i \in 1..Chunks[d] :
              Embedding(d, i) <=> (\E m \in Waiting : For(m, d, i)) \/ (\E w \in Workers : For(job[w], d, i))
<1>1. \A m \in Task \cup {NoJob} : m \in ProcessTasks(d) <=> Of(m, d)
  BY TaskFields, NoJobFields, NewTask DEF ProcessTasks, Of
<1>2. \A m \in Task \cup {NoJob}, i \in 1..Chunks[d] :
        (\E n \in 0..MaxRetries : m = EmbedTask(d, i, n)) <=> For(m, d, i)
  BY TaskFields, NoJobFields, NewTask DEF For
<1>3. Waiting \subseteq Task /\ \A w \in Workers : job[w] \in Task \cup {NoJob}
  BY DEF TypeOK, Waiting
<1>4. Processing(d) <=> (\E m \in Waiting : Of(m, d)) \/ (\E w \in Workers : Of(job[w], d))
  BY <1>1, <1>3 DEF Processing, Pending, BagIn, Waiting
<1>5. ASSUME NEW i \in 1..Chunks[d]
      PROVE  Embedding(d, i) <=> (\E m \in Waiting : For(m, d, i)) \/ (\E w \in Workers : For(job[w], d, i))
  BY <1>2, <1>3 DEF Embedding, Pending, BagIn, Waiting
<1>6. NoJob \notin ProcessTasks(d)
  BY <1>1, NoJobFields DEF Of
<1> QED BY <1>1, <1>4, <1>5, <1>6

\* Rows, messages and workers have their types.
THEOREM TypeCorrect == Spec => []TypeOK
  BY Inductive, PTL DEF IInv

\* No task starts before the row and the object of its document are there.
THEOREM RowAndObjectFirst == Spec => []NoWorkWithoutObject
<1>1. IInv => NoWorkWithoutObject
  BY PendingFields DEF IInv, Uploads, NoWorkWithoutObject
<1> QED BY <1>1, Inductive, PTL

\* Nothing is embedded, and nothing READY, before the collection exists.
THEOREM CollectionFirst == Spec => []EmbedHasCollection
<1>1. IInv => EmbedHasCollection
  BY PendingFields DEF IInv, Collected, EmbedHasCollection, For
<1> QED BY <1>1, Inductive, PTL

\* As long as no whole worker dies, a document has one process task at most.
THEOREM OneTask == ASSUME "worker" \notin Faults PROVE Spec => []OneTaskPerDocument
<1>1. IInv => OneTaskPerDocument
  <2> SUFFICES ASSUME IInv, NEW d \in Docs
               PROVE  /\ \A v, w \in {u \in Workers : job[u] \in ProcessTasks(d) /\ at[u] # "ack"} : v = w
                      /\ \A m, n \in Waiting \cap ProcessTasks(d) : m = n /\ broker[m] = 1
                      /\ \/ {u \in Workers : job[u] \in ProcessTasks(d) /\ at[u] # "ack"} = {}
                         \/ Waiting \cap ProcessTasks(d) = {}
    BY DEF OneTaskPerDocument, Waiting
  <2>1. SingleOf(d) /\ Waiting \subseteq Task /\ job \in [Workers -> Task \cup {NoJob}]
    BY DEF IInv, Single, TypeOK, Waiting
  <2>2. \A m \in Task : m \in ProcessTasks(d) <=> Of(m, d)
    BY PendingFields DEF IInv
  <2>3. \A w \in Workers : job[w] \in ProcessTasks(d) => Of(job[w], d)
    BY <2>1, <2>2, PendingFields DEF IInv
  <2> QED BY <2>1, <2>2, <2>3 DEF SingleOf, Runs
<1> QED BY <1>1, Inductive, PTL

\* A READY document owes no chunk that nobody works on or has given up.
THEOREM ChunksAccounted == Spec => []ReadyAccountsForChunks
<1>1. IInv => ReadyAccountsForChunks
  BY PendingFields DEF IInv, Debts, Owed, ReadyAccountsForChunks
<1> QED BY <1>1, Inductive, PTL

\* A document that says PROCESSING is in some task's hands, or stranded.
THEOREM ProcessingHasTask == Spec => []ProcessingIsWork
<1>1. IInv => ProcessingIsWork
  BY PendingFields DEF IInv, Worked, Held, Of, ProcessingIsWork
<1> QED BY <1>1, Inductive, PTL
-----------------------------------------------------------------------------
\* Where each status is reached: the one process task of a document, at its
\* place, determines what the row says.
LifeOf(d) ==
  /\ upload[d] = "none" => status[d] = "absent"
  /\ upload[d] \in {"row", "object"} => status[d] = "PENDING"
  /\ \A m \in Waiting : Of(m, d) => status[d] \in {"PENDING", "FAILED"}
  /\ \A w \in Workers : Of(job[w], d) =>
       /\ at[w] = "begin" => status[d] \in {"PENDING", "FAILED"}
       /\ at[w] \in Busy \ {"begin"} => status[d] = "PROCESSING"
       /\ at[w] = "retry" => status[d] = "FAILED"

\* A worker that dies brings an old message back, whatever has become of its
\* document since; everything below is about pipelines where none does.
LEMMA LifeInit == Init => \A d \in Docs : LifeOf(d)
<1> SUFFICES ASSUME Init, NEW d \in Docs PROVE LifeOf(d)
  OBVIOUS
<1>1. Waiting = {}
  BY DEF Init, Waiting, EmptyBag, SetToBag, BagToSet
<1>2. \A w \in Workers : job[w].task = "none"
  BY NoJobFields DEF Init
<1> QED BY <1>1, <1>2 DEF Init, LifeOf, Of

\* Only the task of a document changes its status, and moves on as it does.
LEMMA LifeStep ==
  ASSUME IInv, "worker" \notin Faults, [Next]_vars, NEW e \in Docs, LifeOf(e)
  PROVE  LifeOf(e)'
<1>0. /\ IsABag(broker) /\ Waiting \subseteq Task /\ Waiting = BagToSet(broker)
      /\ \A w \in Workers : job[w] \in Task \cup {NoJob}
      /\ at \in [Workers -> {"idle", "begin", "read", "ensure", "create", "fanout", "finish",
                             "fail", "embed", "retry", "ack"}]
      /\ job \in [Workers -> Task \cup {NoJob}]
      /\ status \in [Docs -> {"absent", "PENDING", "PROCESSING", "READY", "FAILED"}]
      /\ SingleOf(e) /\ ~Of(NoJob, e)
  BY NoJobFields DEF IInv, TypeOK, Waiting, Single, Of
<1>1. CASE \E d \in Docs : InsertRow(d) \/ PutObject(d)
  BY <1>0, <1>1 DEF InsertRow, PutObject, workerVars, LifeOf, Waiting, IInv, TypeOK, Uploads
<1>2. ASSUME NEW d \in Docs, Delay(d) PROVE LifeOf(e)'
  <2>1. ProcessTask(d, 0) \in Task /\ Of(ProcessTask(d, 0), d)
    BY NewTask
  <2>2. Waiting' \subseteq Waiting \cup {ProcessTask(d, 0)}
    BY <1>0, <1>2, SendFacts DEF Delay, Waiting
  <2>3. Of(ProcessTask(d, 0), e) => status[e] = "PENDING"
    BY <1>2, <2>1 DEF Of, Delay, LifeOf
  <2> QED BY <1>0, <1>2, <2>2, <2>3 DEF Delay, workerVars, LifeOf, IInv, TypeOK
<1>3. ASSUME NEW w \in Workers, Take(w) PROVE LifeOf(e)'
  <2>1. PICK m \in Waiting :
          /\ broker' = broker (-) SetToBag({m})
          /\ job' = [job EXCEPT ![w] = m]
          /\ at' = [at EXCEPT ![w] = IF m.task = "process" THEN "begin" ELSE "embed"]
    BY <1>3 DEF Take, Waiting
  <2>2. Waiting' \subseteq Waiting /\ UNCHANGED <<upload, status>>
    BY <1>0, <1>3, <2>1, TakeFacts DEF Take, docVars
  <2> QED BY <1>0, <2>1, <2>2 DEF LifeOf, Of, Busy
<1>4. ASSUME NEW w \in Workers, Begin(w) \/ Finish(w) \/ Fail(w) PROVE LifeOf(e)'
  <2>1. /\ job[w] \in Task /\ job[w].doc \in Docs /\ Of(job[w], job[w].doc) /\ at[w] # "ack"
        /\ at[w] \in Busy
        /\ UNCHANGED <<job, broker, Waiting, upload>>
    BY <1>0, <1>4, TaskFields DEF Begin, Finish, Fail, IInv, Held, Busy, Of, Waiting
  <2>2. \/ at' = [at EXCEPT ![w] = "read"] /\ status' = [status EXCEPT ![job[w].doc] = "PROCESSING"]
        \/ at' = [at EXCEPT ![w] = "ack"] /\ status' = [status EXCEPT ![job[w].doc] = "READY"]
        \/ at' = [at EXCEPT ![w] = "retry"] /\ status' = [status EXCEPT ![job[w].doc] = "FAILED"]
    BY <1>4 DEF Begin, Finish, Fail, Goto, SetStatus
  <2>3. upload[job[w].doc] \notin {"none", "row", "object"}
    BY <2>1 DEF IInv, Uploads
  <2>4. CASE job[w].doc = e
    <3>1. \A m \in Waiting : ~Of(m, e)
      BY <1>0, <2>1, <2>4 DEF SingleOf, Runs
    <3>2. \A v \in Workers : v # w => ~Of(job[v], e) \/ at[v] = "ack"
      BY <1>0, <2>1, <2>4 DEF SingleOf, Runs
    <3> QED BY <1>0, <2>1, <2>2, <2>3, <2>4, <3>1, <3>2 DEF LifeOf, Busy
  <2>5. CASE job[w].doc # e
    BY <1>0, <2>1, <2>2, <2>5 DEF LifeOf, Of
  <2> QED BY <2>4, <2>5
<1>5. ASSUME NEW w \in Workers, Read(w) \/ Ensure(w) \/ Create(w) \/ CommitFails(w) PROVE LifeOf(e)'
  <2>1. UNCHANGED <<job, broker, Waiting, upload, status>>
    BY <1>5 DEF Read, Ensure, Create, CommitFails, docVars, Waiting
  <2>2. \/ at[w] \in Busy \ {"begin"} /\ \E p \in Busy \ {"begin"} : at' = [at EXCEPT ![w] = p]
        \/ at' = [at EXCEPT ![w] = "ack"]
    BY <1>5 DEF Read, Ensure, Create, CommitFails, Goto, Busy
  <2> QED BY <1>0, <2>1, <2>2 DEF LifeOf, Busy
<1>6. ASSUME NEW w \in Workers, FanOut(w) PROVE LifeOf(e)'
  <2>1. /\ job[w] \in Task /\ job[w].doc \in Docs /\ at[w] = "fanout" /\ UNCHANGED <<job, upload, status>>
        /\ sent[w] \in Nat
    BY <1>0, <1>6, TaskFields DEF FanOut, IInv, Held, Busy, docVars, TypeOK
  <2>2. at' = at \/ \E p \in {"finish", "fail"} : at' = [at EXCEPT ![w] = p]
    BY <1>6 DEF FanOut, Goto
  <2>3. \A m \in Waiting' : Of(m, e) => m \in Waiting
    <3>1. CASE broker' = broker
      BY <3>1 DEF Waiting
    <3>2. CASE Send(EmbedTask(job[w].doc, sent[w] + 1, 0))
      BY <1>0, <3>2, SendFacts DEF Of, EmbedTask
    <3> QED BY <1>6, <3>1, <3>2 DEF FanOut
  <2> QED BY <1>0, <2>1, <2>2, <2>3 DEF LifeOf, Busy
<1>7. ASSUME NEW w \in Workers, Embed(w) \/ Ack(w) \/ ChildLost(w) PROVE LifeOf(e)'
  <2>1. UNCHANGED <<broker, Waiting, upload, status>>
    BY <1>7 DEF Embed, Ack, ChildLost, docVars, Waiting
  <2>2. \/ ~Of(job[w], e) /\ job' = job /\ at' = [at EXCEPT ![w] = "ack"]
        \/ ~Of(job[w], e) /\ job' = job /\ at' = [at EXCEPT ![w] = "retry"]
        \/ job' = [job EXCEPT ![w] = NoJob] /\ at' = [at EXCEPT ![w] = "idle"]
    BY <1>7 DEF Embed, Ack, ChildLost, Goto, Free, IInv, Held, Of
  <2> QED BY <1>0, <2>1, <2>2 DEF LifeOf, Busy
<1>8. ASSUME NEW w \in Workers, Retry(w) PROVE LifeOf(e)'
  <2>0. PICK m : m = job[w]
    OBVIOUS
  <2>1. /\ m \in Task /\ at[w] = "retry" /\ at' = [at EXCEPT ![w] = "ack"]
        /\ UNCHANGED <<job, upload, status>>
    BY <1>0, <1>8, <2>0 DEF Retry, Goto, IInv, Held, docVars
  <2>2. \A x \in Waiting' : x \in Waiting \/ (Of(x, e) => Of(m, e))
    <3>1. CASE broker' = broker
      BY <3>1 DEF Waiting
    <3>2. CASE m.retries < MaxRetries /\ Send([m EXCEPT !.retries = @ + 1])
      <4>1. PICK n : n = [m EXCEPT !.retries = @ + 1]
        OBVIOUS
      <4>2. n.task = m.task /\ n.doc = m.doc
        BY <2>1, <3>2, <4>1, RetryFields
      <4>3. Waiting' = Waiting \cup {n}
        BY <1>0, <3>2, <4>1, SendFacts
      <4> QED BY <4>2, <4>3 DEF Of
    <3> QED BY <1>8, <2>0, <3>1, <3>2 DEF Retry
  <2> QED BY <1>0, <2>0, <2>1, <2>2 DEF LifeOf, Busy
<1>9. CASE UNCHANGED vars
  BY <1>9 DEF vars, docVars, workerVars, LifeOf, Waiting
<1>10. \A w \in Workers : ~WorkerLost(w)
  BY DEF WorkerLost, Fault
<1> QED BY <1>1, <1>2, <1>3, <1>4, <1>5, <1>6, <1>7, <1>8, <1>9, <1>10 DEF Next, Work
-----------------------------------------------------------------------------
\* The members of Left, by the fields of messages and jobs.
Given(d, n) ==
  \/ \E m \in Waiting : Of(m, d) /\ n = MaxRetries + 1 - m.retries
  \/ \E w \in Workers : Runs(w, d) /\ at[w] # "retry" /\ n = MaxRetries + 1 - job[w].retries
  \/ \E w \in Workers : Runs(w, d) /\ at[w] = "retry" /\ n = MaxRetries - job[w].retries

Chances  == [d \in Docs |-> IF Left(d) = {} THEN 0 ELSE CHOOSE n \in Left(d) : TRUE]
Accepted == {d \in Docs : upload[d] = "queued"}

LeftIsGiven == \A d \in Docs : \A n : n \in Left(d) <=> Given(d, n)

\* Left collects what the messages and the workers give.
LEMMA LeftGiven == TypeOK => LeftIsGiven
<1> SUFFICES ASSUME TypeOK, NEW d \in Docs PROVE \A n : n \in Left(d) <=> Given(d, n)
  BY DEF LeftIsGiven
<1>1. /\ \A m \in Task : m \in ProcessTasks(d) <=> Of(m, d)
      /\ NoJob \notin ProcessTasks(d) /\ ~Of(NoJob, d)
  BY PendingFields, NoJobFields DEF Of
<1>2. Waiting \subseteq Task /\ BagToSet(broker) = Waiting /\ \A w \in Workers : job[w] \in Task \cup {NoJob}
  BY DEF TypeOK, Waiting
<1>3. \A w \in Workers : job[w] \in ProcessTasks(d) <=> Of(job[w], d)
  BY <1>1, <1>2
<1> QED BY <1>1, <1>2, <1>3 DEF Left, Given, Runs

\* As the process task is one, so is the number of attempts it has left.
LEMMA OneGiven ==
  ASSUME IInv, "worker" \notin Faults, NEW d \in Docs
  PROVE  /\ \A n : Given(d, n) => n \in 0..(MaxRetries + 1)
         /\ \A n, k : Given(d, n) /\ Given(d, k) => n = k
<1>1. /\ Waiting \subseteq Task /\ SingleOf(d)
      /\ \A w \in Workers : job[w] \in Task \cup {NoJob} /\ ~Of(NoJob, d)
  BY NoJobFields DEF IInv, TypeOK, Waiting, Single, Of
<1>2. /\ \A m \in Waiting : m.retries \in 0..MaxRetries
      /\ \A w \in Workers : Runs(w, d) => job[w].retries \in 0..MaxRetries
  BY <1>1, TaskFields DEF Runs
<1> QED BY <1>1, <1>2 DEF Given, SingleOf

\* What chances is, by what is given.
ChancesAreGiven ==
  \A d \in Docs : /\ \A n : Given(d, n) => Chances[d] = n
                  /\ (\A n : ~Given(d, n)) => Chances[d] = 0

\* As what is given is one number, CHOOSE has no choice.
LEMMA ChancesGiven == IInv /\ "worker" \notin Faults => ChancesAreGiven
<1> SUFFICES ASSUME IInv, "worker" \notin Faults, NEW d \in Docs
             PROVE  /\ \A n : Given(d, n) => Chances[d] = n
                    /\ (\A n : ~Given(d, n)) => Chances[d] = 0
  BY DEF ChancesAreGiven
<1>1. \A n : n \in Left(d) <=> Given(d, n)
  BY LeftGiven DEF IInv, LeftIsGiven
<1>2. ASSUME NEW n, Given(d, n) PROVE Chances[d] = n
  <2>1. Left(d) = {n}
    BY <1>1, <1>2, OneGiven
  <2> QED BY <2>1 DEF Chances
<1>3. (\A n : ~Given(d, n)) => Chances[d] = 0
  BY <1>1 DEF Chances
<1> QED BY <1>2, <1>3

\* A document whose tasks are given what they were given before keeps it.
LEMMA SameChances ==
  ASSUME TypeOK, TypeOK', NEW d \in Docs, \A n : Given(d, n)' <=> Given(d, n)
  PROVE  Chances'[d] = Chances[d]
<1>1. TypeOK' => LeftIsGiven'
  BY LeftGiven, PTL
<1>2. Left(d)' = Left(d)
  BY <1>1, LeftGiven DEF LeftIsGiven
<1> QED BY <1>2 DEF Chances

\* Documents whose tasks stay what they are.
LEMMA NoChange ==
  ASSUME TypeOK, TypeOK', \A d \in Docs : \A n : Given(d, n)' <=> Given(d, n),
         UNCHANGED status, UNCHANGED Accepted
  PROVE  UNCHANGED Life!vars
<1>1. Chances' = Chances
  BY SameChances DEF Chances
<1> QED BY <1>1 DEF Life!vars, Chances, Accepted

\* What the steps below have in common.
LEMMA StepFacts ==
  ASSUME IInv, IInv', "worker" \notin Faults
  PROVE  /\ TypeOK /\ TypeOK' /\ ChancesAreGiven /\ ChancesAreGiven'
         /\ IsABag(broker) /\ Waiting \subseteq Task /\ Waiting = BagToSet(broker)
         /\ job \in [Workers -> Task \cup {NoJob}]
         /\ at \in [Workers -> {"idle", "begin", "read", "ensure", "create", "fanout", "finish",
                                "fail", "embed", "retry", "ack"}]
         /\ \A d \in Docs : ~Of(NoJob, d)
<1>1. IInv' /\ "worker" \notin Faults => ChancesAreGiven'
  BY ChancesGiven, PTL
<1> QED BY <1>1, ChancesGiven, NoJobFields DEF IInv, TypeOK, Waiting, Of

\* Uploading writes the row, then accepts the document.
LEMMA UploadLives ==
  ASSUME IInv, IInv', "worker" \notin Faults, NEW d \in Docs, LifeOf(d),
         InsertRow(d) \/ PutObject(d) \/ Delay(d)
  PROVE  [Life!Next]_(Life!vars)
<1> USE StepFacts DEF Life!vars
<1>1. CASE InsertRow(d) \/ PutObject(d)
  <2>1. \A e \in Docs : \A n : Given(e, n)' <=> Given(e, n)
    BY <1>1 DEF InsertRow, PutObject, workerVars, Given, Waiting, Runs
  <2>2. Chances' = Chances /\ Accepted' = Accepted
    BY <1>1, <2>1, SameChances DEF InsertRow, PutObject, Chances, Accepted, TypeOK
  <2>3. CASE status' = [status EXCEPT ![d] = "PENDING"] /\ upload[d] = "none"
    <3>1. Life!Create(d)
      BY <2>2, <2>3 DEF Life!Create, Life!Become, LifeOf, Chances, Accepted
    <3> QED BY <3>1 DEF Life!Next
  <2>4. CASE status' = status
    BY <2>2, <2>4 DEF Chances, Accepted
  <2> QED BY <1>1, <2>3, <2>4 DEF InsertRow, PutObject
<1>2. CASE Delay(d) /\ broker' = broker /\ upload' = [upload EXCEPT ![d] = "failed"]
  <2>1. \A e \in Docs : \A n : Given(e, n)' <=> Given(e, n)
    BY <1>2 DEF Delay, workerVars, Given, Waiting, Runs
  <2>2. Accepted' = Accepted /\ status' = status
    BY <1>2 DEF Delay, Accepted, TypeOK
  <2> QED BY <2>1, <2>2, NoChange
<1>3. CASE Delay(d) /\ Send(ProcessTask(d, 0)) /\ upload' = [upload EXCEPT ![d] = "queued"]
  <2> DEFINE m == ProcessTask(d, 0)
  <2>1. m \in Task /\ Of(m, d) /\ m.retries = 0 /\ Waiting' = Waiting \cup {m}
    BY <1>3, NewTask, SendFacts DEF ProcessTask
  <2>2. /\ upload[d] = "object" /\ status[d] = "PENDING" /\ d \notin Accepted
        /\ UNCHANGED <<status, job, at>>
    BY <1>3 DEF Delay, LifeOf, workerVars, Accepted
  <2> HIDE DEF m
  <2>3. \A e \in Docs : e # d => \A n : Given(e, n)' <=> Given(e, n)
    BY <2>1, <2>2 DEF Given, Runs, Of
  <2>4. Given(d, MaxRetries + 1)'
    BY <2>1 DEF Given
  <2>5. Chances'[d] = MaxRetries + 1 /\ \A e \in Docs : e # d => Chances'[e] = Chances[e]
    BY <2>3, <2>4, SameChances DEF ChancesAreGiven
  <2>6. Chances' = [Chances EXCEPT ![d] = MaxRetries + 1]
    BY <2>5 DEF Chances
  <2>7. Accepted' = Accepted \cup {d}
    BY <1>3 DEF Accepted, TypeOK
  <2>8. Life!Accept(d)
    BY <2>2, <2>6, <2>7 DEF Life!Accept, Chances, Accepted
  <2> QED BY <2>8 DEF Life!Next
<1> QED BY <1>1, <1>2, <1>3 DEF Delay

\* An attempt, from its begin to its end, by the worker that has the task.
LEMMA AttemptLives ==
  ASSUME IInv, IInv', "worker" \notin Faults, \A d \in Docs : LifeOf(d),
         NEW w \in Workers, Begin(w) \/ Finish(w) \/ Fail(w)
  PROVE  [Life!Next]_(Life!vars)
<1> USE StepFacts
<1>0. PICK m, d : m = job[w] /\ d = m.doc
  OBVIOUS
<1>1. /\ job[w] = m /\ m \in Task /\ d \in Docs /\ m.doc = d /\ Of(m, d) /\ at[w] \in Busy
      /\ m.retries \in 0..MaxRetries /\ Runs(w, d) /\ LifeOf(d) /\ SingleOf(d)
      /\ UNCHANGED <<job, broker, Waiting, Accepted>>
  BY <1>0, TaskFields DEF Begin, Finish, Fail, IInv, Held, Busy, Of, Runs, Waiting, Single, Accepted
<1>2. Given(d, MaxRetries + 1 - m.retries) /\ Chances[d] = MaxRetries + 1 - m.retries
  <2>1. at[w] # "retry"
    BY <1>1 DEF Busy
  <2>2. Given(d, MaxRetries + 1 - m.retries)
    BY <1>1, <2>1 DEF Given
  <2> QED BY <1>1, <2>2 DEF ChancesAreGiven
<1>3. \A p \in {"read", "ack", "retry"} : at' = [at EXCEPT ![w] = p] =>
        \A e \in Docs : e # d => \A n : Given(e, n)' <=> Given(e, n)
  BY <1>1 DEF Given, Runs, Of
<1>4. (\E p \in {"read", "ack", "retry"} : at' = [at EXCEPT ![w] = p]) =>
        \A e \in Docs : e # d => Chances'[e] = Chances[e]
  BY <1>3, SameChances
<1>5. CASE Begin(w)
  <2>1. at[w] = "begin" /\ at' = [at EXCEPT ![w] = "read"] /\ status' = [status EXCEPT ![d] = "PROCESSING"]
    BY <1>0, <1>5 DEF Begin, Goto, SetStatus
  <2>2. Given(d, MaxRetries + 1 - m.retries)'
    BY <1>1, <2>1 DEF Given, Runs
  <2>3. Chances'[d] = Chances[d]
    BY <1>1, <1>2, <2>2 DEF ChancesAreGiven
  <2>4. Chances' = Chances
    BY <1>4, <2>1, <2>3 DEF Chances
  <2>5. Life!Start(d)
    BY <1>1, <1>2, <2>1, <2>4 DEF Life!Start, Life!Become, LifeOf, Chances, Accepted
  <2> QED BY <1>1, <2>5 DEF Life!Next, Life!Attempt
<1>6. CASE Finish(w)
  <2>1. at[w] = "finish" /\ at' = [at EXCEPT ![w] = "ack"] /\ status' = [status EXCEPT ![d] = "READY"]
    BY <1>0, <1>6 DEF Finish, Goto, SetStatus
  <2>2. \A n : ~Given(d, n)'
    BY <1>1, <2>1 DEF Given, Runs, SingleOf
  <2>3. Chances'[d] = 0
    BY <1>1, <2>2 DEF ChancesAreGiven
  <2>4. Chances' = [Chances EXCEPT ![d] = 0]
    BY <1>4, <2>1, <2>3 DEF Chances
  <2>5. Life!Succeed(d)
    BY <1>1, <1>2, <2>1, <2>4 DEF Life!Succeed, Life!Become, LifeOf, Busy, Chances, Accepted
  <2> QED BY <1>1, <2>5 DEF Life!Next, Life!Attempt
<1>7. CASE Fail(w)
  <2>1. at[w] = "fail" /\ at' = [at EXCEPT ![w] = "retry"] /\ status' = [status EXCEPT ![d] = "FAILED"]
    BY <1>0, <1>7 DEF Fail, Goto, SetStatus
  <2>2. Given(d, MaxRetries - m.retries)'
    BY <1>1, <2>1 DEF Given, Runs
  <2>3. Chances'[d] = Chances[d] - 1
    BY <1>1, <1>2, <2>2 DEF ChancesAreGiven
  <2>4. Chances' = [Chances EXCEPT ![d] = @ - 1]
    BY <1>4, <2>1, <2>3 DEF Chances
  <2>5. Life!Miss(d)
    BY <1>1, <1>2, <2>1, <2>4 DEF Life!Miss, Life!Become, LifeOf, Busy, Chances, Accepted
  <2> QED BY <1>1, <2>5 DEF Life!Next, Life!Attempt
<1> QED BY <1>5, <1>6, <1>7

\* Steps that leave every document its attempts: a message becomes a job, a job
\* goes on, and the message of a retry takes over what the job had left.
LEMMA CarryOnLives ==
  ASSUME IInv, IInv', "worker" \notin Faults, NEW w \in Workers,
         Take(w) \/ Read(w) \/ Ensure(w) \/ Create(w) \/ FanOut(w) \/ Embed(w) \/ Ack(w)
  PROVE  UNCHANGED Life!vars
<1> USE StepFacts
<1> SUFFICES \A e \in Docs : \A n : Given(e, n)' <=> Given(e, n)
  BY NoChange DEF Take, Read, Ensure, Create, FanOut, Embed, Ack, docVars, Accepted
<1>1. CASE Take(w)
  <2>1. PICK m \in Waiting :
          /\ broker' = broker (-) SetToBag({m})
          /\ job' = [job EXCEPT ![w] = m]
          /\ at' = [at EXCEPT ![w] = IF m.task = "process" THEN "begin" ELSE "embed"]
    BY <1>1 DEF Take, Waiting
  <2>2. Waiting' \subseteq Waiting /\ Waiting \ {m} \subseteq Waiting' /\ job[w] = NoJob
    BY <1>1, <2>1, TakeFacts DEF Take, IInv, Held
  <2>3. \A e \in Docs : /\ \A v \in Workers : v # w => Runs(v, e)' = Runs(v, e) /\ job'[v] = job[v] /\ at'[v] = at[v]
                        /\ ~Runs(w, e) /\ (Runs(w, e)' <=> Of(m, e)) /\ job'[w] = m /\ (Of(m, e) => at'[w] = "begin")
    BY <2>1, <2>2 DEF Runs, Of
  <2> QED BY <2>2, <2>3 DEF Given
<1>2. CASE Read(w) \/ Ensure(w) \/ Create(w)
  <2>1. /\ UNCHANGED <<job, Waiting>> /\ at[w] \in Busy
        /\ \E p \in Busy : at' = [at EXCEPT ![w] = p]
    BY <1>2 DEF Read, Ensure, Create, Goto, Busy, Waiting
  <2> QED BY <2>1 DEF Given, Runs, Busy
<1>3. CASE FanOut(w)
  <2>1. /\ job' = job /\ at[w] \in Busy
        /\ at' = at \/ \E p \in Busy : at' = [at EXCEPT ![w] = p]
    BY <1>3 DEF FanOut, Goto, Busy
  <2>2. \A e \in Docs : \A m : Of(m, e) => (m \in Waiting' <=> m \in Waiting)
    <3>1. CASE broker' = broker
      BY <3>1 DEF Waiting
    <3>2. CASE Send(EmbedTask(job[w].doc, sent[w] + 1, 0))
      BY <3>2, SendFacts DEF Of, EmbedTask
    <3> QED BY <1>3, <3>1, <3>2 DEF FanOut
  <2>3. \A e \in Docs, v \in Workers :
          (Runs(v, e)' <=> Runs(v, e)) /\ (at'[v] = "retry" <=> at[v] = "retry")
    BY <2>1 DEF Runs, Busy
  <2> QED BY <2>1, <2>2, <2>3 DEF Given
<1>4. CASE Embed(w)
  <2>1. /\ UNCHANGED <<job, Waiting>> /\ \A e \in Docs : ~Of(job[w], e)
        /\ \E p \in {"ack", "retry"} : at' = [at EXCEPT ![w] = p]
    BY <1>4 DEF Embed, Goto, Waiting, IInv, Held, Of
  <2> QED BY <2>1 DEF Given, Runs
<1>5. CASE Ack(w)
  <2>1. /\ UNCHANGED Waiting /\ at[w] = "ack" /\ job' = [job EXCEPT ![w] = NoJob]
        /\ at' = [at EXCEPT ![w] = "idle"]
    BY <1>5 DEF Ack, Free, Waiting
  <2> QED BY <2>1 DEF Given, Runs
<1> QED BY <1>1, <1>2, <1>3, <1>4, <1>5

\* A retry carries over what was left in the worker's hands to the queue.
LEMMA RetryLives ==
  ASSUME IInv, IInv', "worker" \notin Faults, NEW w \in Workers, Retry(w)
  PROVE  UNCHANGED Life!vars
<1> USE StepFacts
<1>0. PICK m : m = job[w]
  OBVIOUS
<1>1. /\ m \in Task /\ job[w] = m /\ at[w] = "retry" /\ at' = [at EXCEPT ![w] = "ack"]
      /\ m.doc \in Docs /\ m.retries \in 0..MaxRetries
      /\ UNCHANGED <<job, status, Accepted>>
  BY <1>0, TaskFields DEF Retry, Goto, IInv, Held, docVars, Accepted
<1>2. CASE m.retries < MaxRetries /\ Send([m EXCEPT !.retries = @ + 1])
  <2>1. PICK n : n = [m EXCEPT !.retries = @ + 1]
    OBVIOUS
  <2>2. /\ n \in Task /\ n.task = m.task /\ n.doc = m.doc /\ Waiting' = Waiting \cup {n}
    BY <1>1, <1>2, <2>1, RetryFields, SendFacts
  <2>3. n.retries = m.retries + 1
    BY <1>1, <2>1, TaskFields DEF ProcessTask, EmbedTask
  <2>4. \A e \in Docs : Of(n, e) <=> Of(m, e)
    BY <2>2 DEF Of
  <2>5. \A e \in Docs : \A k : Given(e, k)' <=> Given(e, k)
    BY <1>1, <2>2, <2>3, <2>4 DEF Given, Runs
  <2> QED BY <1>1, <2>5, NoChange
<1>3. CASE m.retries = MaxRetries /\ broker' = broker
  <2>1. Waiting' = Waiting
    BY <1>3 DEF Waiting
  <2>2. ASSUME NEW e \in Docs PROVE Chances'[e] = Chances[e]
    <3>1. CASE Of(m, e)
      <4>1. Given(e, 0) /\ SingleOf(e) /\ Runs(w, e)
        BY <1>1, <1>3, <3>1 DEF Given, Runs, IInv, Single
      <4>2. \A k : ~Given(e, k)'
        BY <1>1, <2>1, <4>1 DEF Given, Runs, SingleOf
      <4> QED BY <4>1, <4>2 DEF ChancesAreGiven
    <3>2. CASE ~Of(m, e)
      <4>1. \A k : Given(e, k)' <=> Given(e, k)
        BY <1>1, <2>1, <3>2 DEF Given, Runs
      <4> QED BY <4>1, SameChances
    <3> QED BY <3>1, <3>2
  <2>3. Chances' = Chances
    BY <2>2 DEF Chances
  <2> QED BY <1>1, <2>3 DEF Life!vars, Chances, Accepted
<1> QED BY <1>0, <1>2, <1>3 DEF Retry

\* A task that is cut off loses what its document had left.
LEMMA LossLives ==
  ASSUME IInv, IInv', "worker" \notin Faults, NEW w \in Workers, CommitFails(w) \/ ChildLost(w)
  PROVE  [Life!Next]_(Life!vars)
<1> USE StepFacts
<1>0. PICK m : m = job[w]
  OBVIOUS
<1>1. /\ Faults # {}
      /\ m \in Task /\ job[w] = m /\ m.doc \in Docs /\ UNCHANGED <<status, Accepted, Waiting>>
      /\ \/ job' = job /\ at' = [at EXCEPT ![w] = "ack"]
         \/ job' = [job EXCEPT ![w] = NoJob] /\ at' = [at EXCEPT ![w] = "idle"]
  BY <1>0, TaskFields DEF CommitFails, ChildLost, Fault, Goto, Free, IInv, Held, docVars, Accepted, Waiting
<1>2. \A e \in Docs, v \in Workers :
        /\ ~Runs(w, e)'
        /\ v # w => Runs(v, e)' = Runs(v, e) /\ job'[v] = job[v] /\ at'[v] = at[v]
  BY <1>1 DEF Runs
<1>3. \A e \in Docs : ~Runs(w, e) => \A n : Given(e, n)' <=> Given(e, n)
  BY <1>1, <1>2 DEF Given
<1>4. CASE \A e \in Docs : ~Runs(w, e)
  BY <1>1, <1>3, <1>4, NoChange
<1>5. CASE \E e \in Docs : Runs(w, e)
  <2>1. PICK d \in Docs : Runs(w, d)
    BY <1>5
  <2>2. SingleOf(d) /\ \A e \in Docs : e # d => ~Runs(w, e)
    BY <2>1 DEF Runs, Of, IInv, Single
  <2>3. \A e \in Docs : e # d => Chances'[e] = Chances[e]
    BY <1>3, <2>2, SameChances
  <2>4. \A n : ~Given(d, n)'
    BY <1>1, <1>2, <2>1, <2>2 DEF Given, SingleOf
  <2>5. Chances'[d] = 0
    BY <2>4 DEF ChancesAreGiven
  <2>6. PICK n : Given(d, n)
    BY <1>1, <2>1 DEF Given
  <2>7. Chances[d] = n /\ n \in 0..(MaxRetries + 1)
    BY <2>6, OneGiven DEF ChancesAreGiven
  <2>8. CASE n = 0
    <3>1. Chances' = Chances
      BY <2>3, <2>5, <2>7, <2>8 DEF Chances
    <3> QED BY <1>1, <3>1 DEF Life!vars, Chances, Accepted
  <2>9. CASE n > 0
    <3>1. Chances' = [Chances EXCEPT ![d] = 0]
      BY <2>3, <2>5 DEF Chances
    <3>2. Life!Lose(d)
      BY <1>1, <2>7, <2>9, <3>1 DEF Life!Lose, Chances, Accepted
    <3> QED BY <3>2 DEF Life!Next, Life!Attempt
  <2> QED BY <2>7, <2>8, <2>9
<1> QED BY <1>4, <1>5

\* As long as no whole worker dies, the pipeline carries out DocumentLife, its
\* liveness aside: whatever raises and whichever task is cut off, READY is
\* final, no document gets more than MaxRetries + 1 attempts, and none is lost
\* unless there are faults.
THEOREM LifeSimulation ==
  ASSUME "worker" \notin Faults
  PROVE  Spec => Life!Init /\ [][Life!Next]_(Life!vars)
<1> DEFINE Lives == \A d \in Docs : LifeOf(d)
<1>1. Spec => []Lives
  <2>1. IInv /\ [Next]_vars /\ Lives => Lives'
    BY LifeStep
  <2> QED BY <2>1, LifeInit, Inductive, PTL DEF Spec
<1>2. Init => Life!Init
  <2> SUFFICES ASSUME Init PROVE Life!Init
    OBVIOUS
  <2>1. Waiting = {} /\ IInv
    BY InitIInv DEF Init, Waiting, EmptyBag, SetToBag, BagToSet
  <2>2. \A d \in Docs : \A n : ~Given(d, n)
    BY <2>1, NoJobFields DEF Given, Runs, Of, Init
  <2>3. \A d \in Docs : Chances[d] = 0
    BY <2>1, <2>2, ChancesGiven DEF ChancesAreGiven
  <2> QED BY <2>3 DEF Init, Life!Init, Chances
<1>3. IInv /\ IInv' /\ Lives /\ [Next]_vars => [Life!Next]_(Life!vars)
  <2> SUFFICES ASSUME IInv, IInv', Lives, [Next]_vars PROVE [Life!Next]_(Life!vars)
    OBVIOUS
  <2>1. CASE \E d \in Docs : InsertRow(d) \/ PutObject(d) \/ Delay(d)
    BY <2>1, UploadLives
  <2>2. CASE \E w \in Workers : Work(w)
    BY <2>2, AttemptLives, CarryOnLives, RetryLives DEF Work
  <2>3. CASE \E w \in Workers : CommitFails(w) \/ ChildLost(w)
    BY <2>3, LossLives
  <2>4. \A w \in Workers : ~WorkerLost(w)
    BY DEF WorkerLost, Fault
  <2>5. CASE UNCHANGED vars
    BY <2>5 DEF vars, docVars, workerVars, Life!vars, Left
  <2> QED BY <2>1, <2>2, <2>3, <2>4, <2>5 DEF Next
<1> QED BY <1>1, <1>2, <1>3, Inductive, PTL DEF Spec
=============================================================================
