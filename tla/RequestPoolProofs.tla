------------------------- MODULE RequestPoolProofs -------------------------
(***************************************************************************)
(* RequestPool for any number of requests, connections and threads.  IInv  *)
(* says where a request may be while it occupies a thread or its session a *)
(* connection; that those places exclude a running or storing stream is    *)
(* what makes every connection in use the only one of a busy request.      *)
(***************************************************************************)
EXTENDS RequestPool, FiniteSetTheorems, TLAPS

ThreadInv  == \A r \in thread : at[r] \in Stages \cup {"refresh"}
SessionInv == \A r \in session : at[r] \in Stages \cup {"refresh", "closing"}

IInv == TypeOK /\ ThreadInv /\ SessionInv

USE PoolAssumption

\* Sets of requests are finite, and so have a size.
LEMMA Finite ==
  ASSUME NEW S \in SUBSET Requests
  PROVE  IsFiniteSet(S) /\ Cardinality(S) \in Nat
  BY FS_Subset, FS_CardinalityType

\* The sizes that make up Used.
LEMMA Sizes ==
  ASSUME TypeOK
  PROVE  /\ IsFiniteSet(session) /\ Cardinality(session) \in Nat
         /\ IsFiniteSet(Storing) /\ Cardinality(Storing) \in Nat
         /\ IsFiniteSet(thread) /\ Cardinality(thread) \in Nat
         /\ Used \in Nat
  BY Finite DEF TypeOK, Storing, Used

\* Moving one request between places outside _persist_results leaves Storing alone.
LEMMA StoringStays ==
  ASSUME TypeOK, NEW r \in Requests, NEW place, Goto(r, place),
         at[r] \notin {"storing", "billed"}, place \notin {"storing", "billed"}
  PROVE  Storing' = Storing
  BY DEF TypeOK, Goto, Storing

\* A set from which one request is taken does not grow.
LEMMA Less ==
  ASSUME NEW S \in SUBSET Requests, NEW r
  PROVE  S \ {r} \in SUBSET Requests /\ Cardinality(S \ {r}) <= Cardinality(S)
  BY Finite, FS_RemoveElement

\* One more request makes a set larger by one.
LEMMA More ==
  ASSUME NEW S \in SUBSET Requests, NEW r \in Requests, r \notin S
  PROVE  S \cup {r} \in SUBSET Requests /\ Cardinality(S \cup {r}) = Cardinality(S) + 1
  BY Finite, FS_AddElement

\* Nobody has come yet.
LEMMA InitIInv == Init => IInv
<1> SUFFICES ASSUME Init PROVE IInv
  OBVIOUS
<1>1. Storing = {} /\ session = {} /\ thread = {}
  BY DEF Init, Storing
<1> QED BY <1>1, FS_EmptySet DEF Init, IInv, TypeOK, ThreadInv, SessionInv, Used

\* Steps that move a request, free its thread or its connection, and take neither.
LEMMA FreeingIInv ==
  ASSUME IInv, NEW r \in Requests, NEW place \in {"auth", "tenant", "body", "streaming",
                                                  "saving", "closing", "closed"},
         Goto(r, place), at[r] \notin {"storing", "billed"},
         thread' \in {thread, thread \ {r}}, session' \in {session, session \ {r}},
         r \notin thread', r \in session' => place \in {"auth", "tenant", "body", "closing"},
         timedOut' \in SUBSET Requests
  PROVE  IInv'
<1>1. Storing' = Storing
  BY StoringStays DEF IInv
<1>2. /\ thread' \in SUBSET Requests /\ Cardinality(thread') <= Cardinality(thread)
      /\ session' \in SUBSET Requests /\ Cardinality(session') <= Cardinality(session)
      /\ Cardinality(thread') \in Nat /\ Cardinality(session') \in Nat
  <2>1. thread \in SUBSET Requests /\ session \in SUBSET Requests
    BY DEF IInv, TypeOK
  <2>2. Cardinality(thread) \in Nat /\ Cardinality(session) \in Nat
    BY Sizes DEF IInv
  <2>3. thread' \in SUBSET Requests /\ session' \in SUBSET Requests
    BY <2>1
  <2>4. Cardinality(thread') <= Cardinality(thread)
    <3>1. CASE thread' = thread
      BY <3>1, <2>2
    <3>2. CASE thread' = thread \ {r}
      BY <3>2, <2>1, Less
    <3> QED BY <3>1, <3>2
  <2>5. Cardinality(session') <= Cardinality(session)
    <3>1. CASE session' = session
      BY <3>1, <2>2
    <3>2. CASE session' = session \ {r}
      BY <3>2, <2>1, Less
    <3> QED BY <3>1, <3>2
  <2> QED BY <2>3, <2>4, <2>5, Finite
<1>3. Used' <= PoolSize /\ Cardinality(thread') <= Threads
  <2>1. Used' = Cardinality(session') + Cardinality(Storing)
    BY <1>1 DEF Used
  <2> QED BY <2>1, <1>2, Sizes DEF IInv, TypeOK, Used
<1>4. TypeOK'
  BY <1>2, <1>3 DEF IInv, TypeOK, Goto, Stages, Persistence
<1>5. ThreadInv' /\ SessionInv'
  BY DEF IInv, TypeOK, ThreadInv, SessionInv, Goto, Stages
<1> QED BY <1>4, <1>5 DEF IInv

\* A stage is given a thread only while one is free.
LEMMA DispatchIInv ==
  ASSUME IInv, NEW r \in Requests, Dispatch(r) PROVE IInv'
<1>1. thread \in SUBSET Requests /\ Storing' = Storing
  BY DEF IInv, TypeOK, Dispatch, Storing
<1>2. Cardinality(thread') <= Threads /\ thread' \subseteq Requests
  BY <1>1, More, Sizes DEF IInv, Dispatch, HasThread
<1> QED BY <1>1, <1>2 DEF IInv, TypeOK, ThreadInv, SessionInv, Dispatch, HasThread, Used

\* A session is given a connection only while one is free.
LEMMA AcquireIInv ==
  ASSUME IInv, NEW r \in Requests, Acquire(r) PROVE IInv'
<1>0. at[r] \in Stages \cup {"refresh"}
  BY DEF IInv, ThreadInv, Acquire
<1>1. CASE Used < PoolSize /\ session' = session \cup {r} /\ UNCHANGED <<at, thread, timedOut>>
  <2>1. session \in SUBSET Requests /\ Storing' = Storing
    BY <1>1 DEF IInv, TypeOK, Storing
  <2>2. Cardinality(session') = Cardinality(session) + 1 /\ session' \subseteq Requests
    BY <1>1, <2>1, More DEF Acquire
  <2>3. Used' <= PoolSize
    BY <1>1, <2>1, <2>2, Sizes DEF IInv, Used
  <2> QED BY <1>0, <1>1, <2>2, <2>3 DEF IInv, TypeOK, ThreadInv, SessionInv
<1>2. CASE /\ Goto(r, "closing") /\ thread' = thread \ {r} /\ UNCHANGED session
           /\ timedOut' \in {timedOut, timedOut \cup {r}}
  BY <1>0, <1>2, FreeingIInv DEF Acquire, IInv, TypeOK, Stages
<1> QED BY <1>1, <1>2 DEF Acquire

\* A commit frees the connection; a write keeps its thread for the refresh.
LEMMA CommitIInv ==
  ASSUME IInv, NEW r \in Requests, Commit(r) PROVE IInv'
<1>1. CASE Kind[r] = "write"
  <2>1. /\ Goto(r, "refresh") /\ UNCHANGED <<thread, timedOut>> /\ session' = session \ {r}
        /\ Storing' = Storing
    BY <1>1, StoringStays DEF Commit, IInv
  <2>2. session' \subseteq Requests /\ Cardinality(session') <= Cardinality(session)
        /\ Cardinality(session') \in Nat
    BY <2>1, Less, Finite DEF IInv, TypeOK
  <2>3. Used' <= PoolSize
    BY <2>1, <2>2, Sizes DEF IInv, TypeOK, Used
  <2> QED BY <2>1, <2>2, <2>3 DEF IInv, TypeOK, ThreadInv, SessionInv, Goto, Stages
<1>2. CASE Kind[r] = "stream"
  BY <1>2, FreeingIInv DEF Commit, IInv, TypeOK
<1> QED BY <1>1, <1>2 DEF Commit

\* _persist_results takes a connection only while one is free, and gives it back.
LEMMA StoreIInv ==
  ASSUME IInv, NEW r \in Requests, Save(r) \/ Saved(r) PROVE IInv'
<1>0. /\ Storing \in SUBSET Requests
      /\ at[r] \in Persistence => r \notin thread \cup session
  BY DEF IInv, ThreadInv, SessionInv, Stages, Persistence, Storing
<1>1. CASE Save(r) /\ Used < PoolSize /\ UNCHANGED timedOut
  <2>0. PICK place \in {"storing", "billed"} : Goto(r, place)
    <3>1. Goto(r, IF at[r] = "saving" THEN "storing" ELSE "billed")
      BY <1>1, Sizes DEF Save, IInv
    <3> QED BY <3>1
  <2>1. Storing' = Storing \cup {r} /\ r \notin Storing
    BY <1>1, <2>0 DEF IInv, TypeOK, Storing, Save, Goto
  <2>2. Cardinality(Storing') = Cardinality(Storing) + 1
    BY <1>0, <2>1, More
  <2>3. Used' <= PoolSize
    BY <1>1, <2>2, Sizes DEF IInv, Used, Save
  <2> QED BY <1>0, <1>1, <2>0, <2>3
          DEF IInv, TypeOK, ThreadInv, SessionInv, Goto, Save, Persistence
<1>2. CASE Save(r) /\ Goto(r, "closing") /\ timedOut' = timedOut \cup {r}
  BY <1>0, <1>2, FreeingIInv DEF IInv, TypeOK, Save, Persistence
<1>3. CASE Saved(r)
  <2>0. PICK place \in {"closing", "billing"} : Goto(r, place)
    BY <1>3 DEF Saved
  <2>1. Storing' = Storing \ {r}
    BY <1>3, <2>0 DEF IInv, TypeOK, Storing, Saved, Goto
  <2>2. Cardinality(Storing') <= Cardinality(Storing) /\ Cardinality(Storing') \in Nat
    BY <1>0, <2>1, Less, Finite
  <2>3. Used' <= PoolSize
    BY <1>3, <2>2, Sizes DEF IInv, TypeOK, Used, Saved
  <2> QED BY <1>0, <1>3, <2>0, <2>3
          DEF IInv, TypeOK, ThreadInv, SessionInv, Goto, Saved, Persistence
<1> QED BY <1>1, <1>2, <1>3 DEF Save

\* One step of any request.
LEMMA StepIInv ==
  ASSUME IInv, NEW r \in Requests, Arrive(r) \/ Step(r) PROVE IInv'
<1> USE DEF IInv, TypeOK
<1>0. r \in thread => at[r] \notin {"storing", "billed"}
  BY DEF ThreadInv, Stages
<1>1. CASE Arrive(r)
  BY <1>1, FreeingIInv DEF Arrive, ThreadInv, Stages
<1>2. CASE Refuse(r)
  BY <1>2, FreeingIInv DEF Refuse, HasThread
<1>3. CASE Dispatch(r)
  BY <1>3, DispatchIInv
<1>4. CASE Acquire(r)
  BY <1>4, AcquireIInv
<1>5. CASE Pass(r)
  <2>1. CASE at[r] = "auth"
    BY <1>5, <2>1, FreeingIInv DEF Pass
  <2>2. CASE at[r] = "tenant"
    BY <1>5, <2>2, FreeingIInv DEF Pass
  <2> QED BY <1>5, <2>1, <2>2 DEF Pass
<1>6. CASE Reject(r) \/ Answer(r)
  BY <1>0, <1>6, FreeingIInv DEF Reject, Answer
<1>7. CASE Commit(r)
  BY <1>7, CommitIInv
<1>8. CASE EndStream(r)
  <2>1. r \notin thread \cup session
    BY <1>8 DEF EndStream, ThreadInv, SessionInv, Stages
  <2>2. CASE Goto(r, "saving")
    BY <1>8, <2>1, <2>2, FreeingIInv DEF EndStream
  <2>3. CASE Goto(r, "closing")
    BY <1>8, <2>1, <2>3, FreeingIInv DEF EndStream
  <2> QED BY <1>8, <2>2, <2>3 DEF EndStream
<1>9. CASE Save(r) \/ Saved(r)
  BY <1>9, StoreIInv
<1>10. CASE Close(r)
  <2>1. r \notin thread
    BY <1>10 DEF Close, ThreadInv, Stages
  <2> QED BY <1>10, <2>1, FreeingIInv DEF Close
<1> QED BY <1>1, <1>2, <1>3, <1>4, <1>5, <1>6, <1>7, <1>8, <1>9, <1>10 DEF Step

\* The invariant holds in every reachable state.
THEOREM Inductive == Spec => []IInv
<1>1. IInv /\ [Next]_vars => IInv'
  <2> SUFFICES ASSUME IInv, [Next]_vars PROVE IInv'
    OBVIOUS
  <2>1. CASE Next
    BY <2>1, StepIInv DEF Next
  <2>2. CASE UNCHANGED vars
    BY <2>2 DEF vars, IInv, TypeOK, ThreadInv, SessionInv, Used, Storing
  <2> QED BY <2>1, <2>2
<1> QED BY InitIInv, <1>1, PTL DEF Spec

\* Connections in use never exceed the pool, nor busy threads their number.
THEOREM TypeCorrect == Spec => []TypeOK
  BY Inductive, PTL DEF IInv

\* A stream keeps nothing while its graph runs, its end needs one connection
\* only, and a request that is over has given everything back.
THEOREM NothingHeld == Spec => []NothingHeldIdle
<1>1. IInv => NothingHeldIdle
  BY DEF IInv, ThreadInv, SessionInv, Stages, Persistence, NothingHeldIdle
<1> QED BY <1>1, Inductive, PTL

\* No request holds two connections at a time, so those in use are as many as
\* the requests that hold one.
LEMMA Holders ==
  ASSUME IInv
  PROVE  /\ session \cap Storing = {}
         /\ IsFiniteSet(session \cup Storing) /\ Cardinality(session \cup Storing) = Used
<1>1. session \cap Storing = {}
  BY DEF IInv, SessionInv, Stages, Storing
<1>2. Cardinality(session \cap Storing) = 0
  BY <1>1, FS_EmptySet
<1>3. TypeOK /\ session \cup Storing \in SUBSET Requests
  BY DEF IInv, TypeOK, Storing
<1>4. Cardinality(session \cup Storing) = Cardinality(session) + Cardinality(Storing) - 0
  BY <1>2, <1>3, Sizes, FS_Union
<1>5. IsFiniteSet(session \cup Storing) /\ Cardinality(session \cup Storing) = Used
  BY <1>3, <1>4, Sizes, Finite DEF Used
<1> QED BY <1>1, <1>5

\* A request waits in vain only if more are busy than there are connections.
LEMMA StepTimeout ==
  ASSUME IInv, [Next]_vars, timedOut' # timedOut
  PROVE  Cardinality(Crowd) > PoolSize
<1>1. PICK r \in Requests : Acquire(r) \/ Save(r)
  BY DEF Next, Step, vars, Arrive, Refuse, Dispatch, Pass, Reject, Answer, Commit, EndStream,
         Saved, Close
<1>2. Used >= PoolSize
  BY <1>1 DEF Acquire, Save
<1>3. r \notin session \cup Storing /\ r \in Crowd
  BY <1>1 DEF Acquire, Save, Storing, Crowd, IInv, ThreadInv, SessionInv, Stages
<1>4. session \subseteq Crowd /\ Storing \subseteq Crowd
  BY DEF IInv, TypeOK, SessionInv, Stages, Crowd, Storing
<1>5. IsFiniteSet(session \cup Storing) /\ Cardinality(session \cup Storing) = Used
  BY Holders
<1>6. Cardinality((session \cup Storing) \cup {r}) = Used + 1
  BY <1>3, <1>5, FS_AddElement
<1>7. Cardinality((session \cup Storing) \cup {r}) <= Cardinality(Crowd)
  BY <1>3, <1>4, Finite, FS_Subset DEF Crowd
<1>8. Cardinality(Crowd) \in Nat /\ Used \in Nat
  BY Finite, Sizes DEF Crowd, IInv
<1> QED BY <1>2, <1>6, <1>7, <1>8

\* The action property of the same name.
THEOREM Timeouts == Spec => TimeoutNeedsCrowd
<1>1. IInv /\ [Next]_vars => [timedOut' # timedOut => Cardinality(Crowd) > PoolSize]_vars
  BY StepTimeout
<1> QED BY <1>1, Inductive, PTL DEF Spec, TimeoutNeedsCrowd
-----------------------------------------------------------------------------
\* Whoever waited in vain wants nothing more.
DeniedInv == \A r \in timedOut : at[r] \in {"closing", "closed"}

\* A timeout sends a request to its end, and no step leads back.
LEMMA DeniedStep == IInv /\ [Next]_vars /\ DeniedInv => DeniedInv'
<1> SUFFICES ASSUME IInv, [Next]_vars, DeniedInv PROVE DeniedInv'
  OBVIOUS
<1> USE DEF IInv, TypeOK, DeniedInv, Goto
<1>1. ASSUME NEW r \in Requests, Arrive(r) \/ Step(r) PROVE DeniedInv'
  <2>1. CASE Arrive(r) \/ Refuse(r) \/ Dispatch(r)
    BY <2>1 DEF Arrive, Refuse, Dispatch, HasThread
  <2>2. CASE Acquire(r)
    BY <2>2 DEF Acquire
  <2>3. CASE Pass(r)
    BY <2>3 DEF Pass
  <2>4. CASE Reject(r) \/ Answer(r)
    BY <2>4 DEF Reject, Answer
  <2>5. CASE Commit(r)
    BY <2>5 DEF Commit
  <2>6. CASE EndStream(r) \/ Save(r) \/ Saved(r)
    BY <2>6 DEF EndStream, Save, Saved
  <2>7. CASE Close(r)
    BY <2>7 DEF Close
  <2> QED BY <1>1, <2>1, <2>2, <2>3, <2>4, <2>5, <2>6, <2>7 DEF Step
<1>2. CASE UNCHANGED vars
  BY <1>2 DEF vars
<1> QED BY <1>1, <1>2 DEF Next

\* What the desk sees of a request that moves from one place to another.
LEMMA PhaseMoves ==
  ASSUME IInv, NEW r \in Requests, NEW place, NEW p, Goto(r, place),
         p = CASE place = "new"       -> "absent"
               [] place = "streaming" -> "resting"
               [] place = "closed"    -> "gone"
               [] OTHER               -> "present"
  PROVE  Phase' = [Phase EXCEPT ![r] = p]
  BY DEF IInv, TypeOK, Goto, Phase

\* The places a request is busy at.
BusyAt == Stages \cup Persistence \cup {"refresh", "closing"}

\* At each of them its client is present at the desk.
LEMMA PhaseIs ==
  ASSUME IInv, NEW r \in Requests
  PROVE  /\ at[r] = "new" => Phase[r] = "absent"
         /\ at[r] = "streaming" => Phase[r] = "resting"
         /\ at[r] = "closed" => Phase[r] = "gone"
         /\ at[r] \in BusyAt => Phase[r] = "present"
  BY DEF IInv, TypeOK, Phase, BusyAt, Stages, Persistence

\* A request that moves on among the busy places is of no interest to the desk.
LEMMA PhaseStays ==
  ASSUME IInv, NEW r \in Requests, NEW place \in BusyAt, Goto(r, place), at[r] \in BusyAt
  PROVE  Phase' = Phase
<1>1. Phase' = [Phase EXCEPT ![r] = "present"]
  BY PhaseMoves DEF BusyAt, Stages, Persistence
<1>2. Phase[r] = "present"
  BY PhaseIs
<1> QED BY <1>1, <1>2 DEF Phase

\* The desk counts as FiniteSets does.
LEMMA DeskCounts == \A S : Desk!Cardinality(S) = Cardinality(S)
  BY DEF Cardinality, Desk!Cardinality

\* Steps the desk does not see.
LEMMA Unseen ==
  ASSUME Phase' = Phase, UNCHANGED <<session, timedOut>>, Storing' = Storing
  PROVE  UNCHANGED Desk!vars
  BY DEF Desk!vars

\* Dispatch, the checks and the answers move a request among the busy places.
LEMMA BusyMoves ==
  ASSUME IInv, NEW r \in Requests,
         Refuse(r) \/ Dispatch(r) \/ Pass(r) \/ Reject(r) \/ Answer(r)
  PROVE  UNCHANGED Desk!vars
<1>1. CASE Dispatch(r)
  BY <1>1 DEF Dispatch, Desk!vars, Phase, Storing
<1>2. CASE Refuse(r) \/ Pass(r) \/ Reject(r) \/ Answer(r)
  <2>1. PICK place \in {"tenant", "body", "closing"} : Goto(r, place)
    BY <1>2 DEF Refuse, Pass, Reject, Answer
  <2>2. at[r] \in Stages \cup {"refresh"} /\ UNCHANGED <<session, timedOut>>
    BY <1>2 DEF Refuse, HasThread, Pass, Reject, Answer, IInv, ThreadInv
  <2>3. Phase' = Phase
    BY <2>1, <2>2, PhaseStays DEF BusyAt, Stages
  <2>4. Storing' = Storing
    BY <2>1, <2>2, StoringStays DEF IInv, Stages
  <2> QED BY <2>2, <2>3, <2>4, Unseen
<1> QED BY <1>1, <1>2

\* A session takes a connection, its statement raises, or it waits in vain.
LEMMA AcquireLends ==
  ASSUME IInv, DeniedInv, NEW r \in Requests, Acquire(r)
  PROVE  [Desk!Next]_(Desk!vars)
<1>1. at[r] \in Stages \cup {"refresh"} /\ r \notin session /\ Phase[r] = "present"
  BY PhaseIs DEF Acquire, IInv, ThreadInv, BusyAt
<1>2. r \notin Storing /\ r \notin timedOut
  BY <1>1 DEF Storing, DeniedInv, Stages
<1>3. Cardinality(session \cup Storing) = Used /\ Used \in Nat /\ Used <= PoolSize
  BY Holders, Sizes DEF IInv, TypeOK
<1>4. Desk!Wants(r)
  BY <1>1, <1>2 DEF Desk!Wants
<1>5. CASE Used < PoolSize /\ session' = session \cup {r} /\ UNCHANGED <<at, thread, timedOut>>
  <2>1. Phase' = Phase /\ Storing' = Storing
    BY <1>5 DEF Phase, Storing
  <2>2. Desk!Take(r)
    BY <1>3, <1>4, <1>5, <2>1, DeskCounts DEF Desk!Take
  <2> QED BY <2>2 DEF Desk!Next
<1>6. ASSUME Goto(r, "closing"), UNCHANGED session
      PROVE  Phase' = Phase /\ Storing' = Storing
  BY <1>1, <1>6, PhaseStays, StoringStays DEF BusyAt, IInv, Stages
<1>7. CASE Goto(r, "closing") /\ UNCHANGED <<session, timedOut>>
  BY <1>6, <1>7, Unseen
<1>8. CASE Used >= PoolSize /\ Goto(r, "closing") /\ timedOut' = timedOut \cup {r} /\ UNCHANGED session
  <2>1. Desk!Deny(r)
    BY <1>3, <1>4, <1>6, <1>8, PoolAssumption, DeskCounts DEF Desk!Deny
  <2> QED BY <2>1 DEF Desk!Next
<1> QED BY <1>5, <1>7, <1>8 DEF Acquire

\* A commit gives the connection back; a stream then rests.
LEMMA CommitLends ==
  ASSUME IInv, NEW r \in Requests, Commit(r)
  PROVE  [Desk!Next]_(Desk!vars)
<1>1. /\ at[r] = "body" /\ Phase[r] = "present" /\ r \notin Storing
      /\ session' = session \ {r} /\ UNCHANGED timedOut
  BY PhaseIs DEF Commit, BusyAt, Stages, Storing
<1>2. CASE Goto(r, "refresh")
  <2>1. Phase' = Phase /\ Storing' = Storing
    BY <1>1, <1>2, PhaseStays, StoringStays DEF BusyAt, IInv, Stages
  <2>2. Desk!GiveBack(r)
    BY <1>1, <2>1 DEF Desk!GiveBack
  <2> QED BY <2>2 DEF Desk!Next
<1>3. CASE Goto(r, "streaming")
  <2>1. Phase' = [Phase EXCEPT ![r] = "resting"] /\ Storing' = Storing
    BY <1>1, <1>3, PhaseMoves, StoringStays DEF IInv
  <2>2. Desk!Rest(r)
    BY <1>1, <2>1 DEF Desk!Rest, Desk!Become
  <2> QED BY <2>2 DEF Desk!Next
<1> QED BY <1>2, <1>3 DEF Commit

\* A stream comes back to the desk at its end, to store or to close.
LEMMA StreamLends ==
  ASSUME IInv, NEW r \in Requests, EndStream(r)
  PROVE  Desk!Next
<1>1. PICK place \in {"saving", "closing"} : Goto(r, place)
  BY DEF EndStream
<1>2. at[r] = "streaming" /\ Phase[r] = "resting" /\ UNCHANGED <<session, timedOut>>
  BY PhaseIs DEF EndStream
<1>3. Phase' = [Phase EXCEPT ![r] = "present"] /\ Storing' = Storing
  BY <1>1, <1>2, PhaseMoves, StoringStays DEF IInv
<1>4. Desk!Resume(r)
  BY <1>2, <1>3 DEF Desk!Resume, Desk!Become
<1> QED BY <1>4 DEF Desk!Next

\* _persist_results takes a connection and gives it back, once for the message
\* and once for the usage row, or waits in vain.
LEMMA PersistLends ==
  ASSUME IInv, DeniedInv, NEW r \in Requests, Save(r) \/ Saved(r)
  PROVE  [Desk!Next]_(Desk!vars)
<1>1. /\ at[r] \in Persistence /\ Phase[r] = "present" /\ r \notin session /\ r \notin timedOut
      /\ UNCHANGED session
  BY PhaseIs DEF Save, Saved, Persistence, BusyAt, IInv, SessionInv, Stages, DeniedInv
<1>2. Cardinality(session \cup Storing) = Used /\ Used \in Nat /\ Used <= PoolSize
  BY Holders, Sizes DEF IInv, TypeOK
<1>3. \A place \in BusyAt : Goto(r, place) => Phase' = Phase
  BY <1>1, PhaseStays DEF BusyAt
<1>4. CASE Save(r)
  <2>1. r \notin Storing
    BY <1>4 DEF Save, Storing
  <2>2. Desk!Wants(r)
    BY <1>1, <2>1 DEF Desk!Wants
  <2>3. CASE Used < PoolSize /\ UNCHANGED timedOut
    <3>1. PICK place \in {"storing", "billed"} : Goto(r, place)
      BY <1>2, <1>4, <2>3 DEF Save
    <3>2. Phase' = Phase /\ Storing' = Storing \cup {r}
      BY <1>3, <3>1 DEF BusyAt, Persistence, IInv, TypeOK, Goto, Storing
    <3>3. Desk!Take(r)
      BY <1>1, <1>2, <2>2, <2>3, <3>2, DeskCounts DEF Desk!Take
    <3> QED BY <3>3 DEF Desk!Next
  <2>4. CASE Used >= PoolSize /\ Goto(r, "closing") /\ timedOut' = timedOut \cup {r}
    <3>1. Phase' = Phase /\ Storing' = Storing
      BY <1>3, <1>4, <2>4, StoringStays DEF BusyAt, Save, IInv
    <3>2. Desk!Deny(r)
      BY <1>1, <1>2, <2>2, <2>4, <3>1, PoolAssumption, DeskCounts DEF Desk!Deny
    <3> QED BY <3>2 DEF Desk!Next
  <2> QED BY <1>4, <2>3, <2>4 DEF Save
<1>5. CASE Saved(r)
  <2>1. PICK place \in {"closing", "billing"} : Goto(r, place)
    BY <1>5 DEF Saved
  <2>2. Phase' = Phase /\ Storing' = Storing \ {r}
    BY <1>3, <2>1 DEF BusyAt, Persistence, IInv, TypeOK, Goto, Storing
  <2>3. Desk!GiveBack(r)
    BY <1>1, <1>5, <2>2 DEF Desk!GiveBack, Saved
  <2> QED BY <2>3 DEF Desk!Next
<1> QED BY <1>4, <1>5

\* The sessions and _persist_results use the pool as Lending has it, its
\* liveness aside, for any number of requests, threads and connections.
THEOREM LendingSimulation == Spec => Desk!Init /\ [][Desk!Next]_(Desk!vars)
<1>1. Init => Desk!Init /\ DeniedInv
  BY DEF Init, Desk!Init, DeniedInv, Phase, Storing
<1>2. IInv /\ DeniedInv /\ [Next]_vars => [Desk!Next]_(Desk!vars)
  <2> SUFFICES ASSUME IInv, DeniedInv, [Next]_vars PROVE [Desk!Next]_(Desk!vars)
    OBVIOUS
  <2>1. ASSUME NEW r \in Requests, Arrive(r) PROVE Desk!Next
    <3>1. at[r] = "new" /\ Phase[r] = "absent" /\ UNCHANGED <<session, timedOut>> /\ Goto(r, "auth")
      BY <2>1, PhaseIs DEF Arrive
    <3>2. Phase' = [Phase EXCEPT ![r] = "present"] /\ Storing' = Storing
      BY <3>1, PhaseMoves, StoringStays DEF IInv
    <3>3. Desk!Come(r)
      BY <3>1, <3>2 DEF Desk!Come, Desk!Become
    <3> QED BY <3>3 DEF Desk!Next
  <2>2. ASSUME NEW r \in Requests, Close(r) PROVE Desk!Next
    <3>1. /\ at[r] = "closing" /\ Phase[r] = "present" /\ r \notin Storing /\ Goto(r, "closed")
          /\ session' = session \ {r} /\ UNCHANGED timedOut
      BY <2>2, PhaseIs DEF Close, BusyAt, Storing
    <3>2. Phase' = [Phase EXCEPT ![r] = "gone"] /\ Storing' = Storing
      BY <3>1, PhaseMoves, StoringStays DEF IInv
    <3>3. Desk!Leave(r)
      BY <3>1, <3>2 DEF Desk!Leave, Desk!Become
    <3> QED BY <3>3 DEF Desk!Next
  <2>3. CASE UNCHANGED vars
    BY <2>3 DEF vars, Desk!vars, Phase, Storing
  <2> QED BY <2>1, <2>2, <2>3, BusyMoves, AcquireLends, CommitLends, StreamLends, PersistLends
          DEF Next, Step
<1> QED BY <1>1, <1>2, Inductive, DeniedStep, PTL DEF Spec
=============================================================================
