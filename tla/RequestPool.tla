---------------------------- MODULE RequestPool ----------------------------
(***************************************************************************)
(* One API process: its event loop, the threads that run synchronous       *)
(* dependencies and endpoints, and the connection pool of db/session.py.   *)
(* A request passes get_current_user and get_workspace (api/deps.py) and   *)
(* its endpoint (api/v1), each in a thread of its own and all in one       *)
(* session, which takes a connection at its first statement and gives it   *)
(* back when it commits or closes.  A stream runs on the event loop, and   *)
(* so does _persist_results at its end, in a session of its own.           *)
(***************************************************************************)
EXTENDS Integers, FiniteSets

CONSTANTS
  Requests,   \* requests put to the process
  Kind,       \* "read", "write" (commits, then refreshes) or "stream"
  PoolSize,   \* pool_size + max_overflow
  Threads     \* threads for synchronous code

ASSUME PoolAssumption ==
  /\ IsFiniteSet(Requests)
  /\ Kind \in [Requests -> {"read", "write", "stream"}]
  /\ PoolSize \in Nat \ {0}
  /\ Threads \in Nat \ {0}

VARIABLES
  at,        \* how far each request is
  thread,    \* requests that occupy a thread
  session,   \* requests whose session holds a connection
  timedOut   \* requests that waited for a connection in vain

vars == <<at, thread, session, timedOut>>

Stages == {"auth", "tenant", "body"}

\* While _persist_results runs, nothing else does on the loop.
Persistence == {"saving", "storing", "billing", "billed"}
LoopFree    == \A r \in Requests : at[r] \notin Persistence

\* Connections in use, those of _persist_results among them: it stores the
\* message with one, gives it back at the commit, and bills with another.
Storing  == {r \in Requests : at[r] \in {"storing", "billed"}}
Used     == Cardinality(session) + Cardinality(Storing)
-----------------------------------------------------------------------------
Init ==
  /\ at = [r \in Requests |-> "new"]
  /\ thread = {} /\ session = {} /\ timedOut = {}

Goto(r, place) == at' = [at EXCEPT ![r] = place]

Arrive(r) ==
  /\ at[r] = "new"
  /\ LoopFree
  /\ Goto(r, "auth")
  /\ UNCHANGED <<thread, session, timedOut>>

\* The loop hands the next stage of a request to a thread.
HasThread(r) ==
  /\ at[r] \in Stages /\ r \notin thread
  /\ LoopFree
  /\ Cardinality(thread) < Threads

\* No token, or not a good one: refused before the database is asked.
Refuse(r) ==
  /\ HasThread(r) /\ at[r] = "auth"
  /\ Goto(r, "closing")
  /\ UNCHANGED <<thread, session, timedOut>>

Dispatch(r) ==
  /\ HasThread(r)
  /\ thread' = thread \cup {r}
  /\ UNCHANGED <<at, session, timedOut>>

\* Mutants of Acquire: one connection too many, and no timeout.
AcquireOneMore(r) ==
  /\ r \in thread \ session
  /\ Used <= PoolSize
  /\ session' = session \cup {r}
  /\ UNCHANGED <<at, thread, timedOut>>
AcquireWaits(r) ==
  /\ r \in thread \ session
  /\ Used < PoolSize
  /\ session' = session \cup {r}
  /\ UNCHANGED <<at, thread, timedOut>>
\* The session's first statement takes a connection, or raises if there is no
\* database behind it.  If none is free the thread waits for one until the
\* pool's timeout raises.
Acquire(r) ==
  /\ r \in thread \ session
  /\ \/ /\ Used < PoolSize
        /\ session' = session \cup {r}
        /\ UNCHANGED <<at, thread, timedOut>>
     \/ /\ Used < PoolSize
        /\ Goto(r, "closing")
        /\ thread' = thread \ {r}
        /\ UNCHANGED <<session, timedOut>>
     \/ /\ Used >= PoolSize
        /\ Goto(r, "closing")
        /\ thread' = thread \ {r}
        /\ timedOut' = timedOut \cup {r}
        /\ UNCHANGED session

\* A dependency lets the request pass; the session keeps its connection.
Pass(r) ==
  /\ at[r] \in {"auth", "tenant"} /\ r \in thread \cap session
  /\ Goto(r, IF at[r] = "auth" THEN "tenant" ELSE "body")
  /\ thread' = thread \ {r}
  /\ UNCHANGED <<session, timedOut>>

\* A dependency or the endpoint raises: no such user, no member, no such row,
\* a database error.
Reject(r) ==
  /\ r \in thread \cap session
  /\ Goto(r, "closing")
  /\ thread' = thread \ {r}
  /\ UNCHANGED <<session, timedOut>>

\* An endpoint that reads, or one that has refreshed the row it wrote.
Answer(r) ==
  /\ r \in thread \cap session
  /\ (at[r] = "body" /\ Kind[r] = "read") \/ at[r] = "refresh"
  /\ Goto(r, "closing")
  /\ thread' = thread \ {r}
  /\ UNCHANGED <<session, timedOut>>

\* Mutant of Commit: the row is flushed, the transaction left open.
CommitFlushes(r) ==
  /\ at[r] = "body" /\ r \in thread \cap session
  /\ Kind[r] \in {"write", "stream"}
  /\ IF Kind[r] = "write"
     THEN Goto(r, "refresh") /\ UNCHANGED thread
     ELSE Goto(r, "streaming") /\ thread' = thread \ {r}
  /\ UNCHANGED <<session, timedOut>>
\* The commit gives the connection back.  A write then refreshes its row,
\* which takes another; stream_message returns, and the stream begins.
Commit(r) ==
  /\ at[r] = "body" /\ r \in thread \cap session
  /\ Kind[r] \in {"write", "stream"}
  /\ session' = session \ {r}
  /\ IF Kind[r] = "write"
     THEN Goto(r, "refresh") /\ UNCHANGED thread
     ELSE Goto(r, "streaming") /\ thread' = thread \ {r}
  /\ UNCHANGED timedOut
-----------------------------------------------------------------------------
\* The graph is done, and its results are stored; or it has failed, or the
\* client has gone, and there is nothing to store.
EndStream(r) ==
  /\ at[r] = "streaming"
  /\ LoopFree
  /\ Goto(r, "saving") \/ Goto(r, "closing")
  /\ UNCHANGED <<thread, session, timedOut>>

\* _persist_results takes a connection on the loop, for the message and again
\* for the usage row; the timeout's exception is swallowed, and what was to be
\* stored is gone.
Save(r) ==
  /\ at[r] \in {"saving", "billing"}
  /\ \/ /\ Used < PoolSize
        /\ Goto(r, IF at[r] = "saving" THEN "storing" ELSE "billed")
        /\ UNCHANGED timedOut
     \/ /\ Used >= PoolSize
        /\ Goto(r, "closing")
        /\ timedOut' = timedOut \cup {r}
  /\ UNCHANGED <<thread, session>>

\* The commit of the message is followed by the usage row, if there is one.
Saved(r) ==
  /\ at[r] \in {"storing", "billed"}
  /\ \/ Goto(r, "closing")
     \/ at[r] = "storing" /\ Goto(r, "billing")
  /\ UNCHANGED <<thread, session, timedOut>>

\* Mutant of Close: get_db without its finally.
CloseLeaks(r) ==
  /\ at[r] = "closing"
  /\ LoopFree
  /\ Goto(r, "closed")
  /\ UNCHANGED <<thread, session, timedOut>>
\* The response is out; the loop has get_db closed, outside the threads' limit.
Close(r) ==
  /\ at[r] = "closing"
  /\ LoopFree
  /\ Goto(r, "closed")
  /\ session' = session \ {r}
  /\ UNCHANGED <<thread, timedOut>>

Step(r) ==
  \/ Refuse(r) \/ Dispatch(r) \/ Acquire(r) \/ Pass(r) \/ Reject(r) \/ Answer(r) \/ Commit(r)
  \/ EndStream(r) \/ Save(r) \/ Saved(r) \/ Close(r)

Next == \E r \in Requests : Arrive(r) \/ Step(r)

\* A request that can go on goes on: the loop serves what is ready, threads
\* run, and a wait for a connection ends, by getting one or by the timeout.
Fairness == \A r \in Requests : WF_vars(Step(r))

Spec == Init /\ [][Next]_vars /\ Fairness
-----------------------------------------------------------------------------
TypeOK ==
  /\ at \in [Requests -> Stages \cup Persistence \cup {"new", "refresh", "streaming",
                                                        "closing", "closed"}]
  /\ thread \subseteq Requests /\ Cardinality(thread) <= Threads
  /\ session \subseteq Requests /\ Used <= PoolSize
  /\ timedOut \subseteq Requests

\* However long its graph runs, a stream keeps neither a thread nor a
\* connection from others ("SSE streams hold connections, not threads",
\* docs/15-scalability.md:20), and its end never needs two connections.  A
\* request that is over, however it ended, has given everything back.
NothingHeldIdle ==
  \A r \in Requests :
    at[r] \in Persistence \cup {"streaming", "closed"} => r \notin session \cup thread

\* Requests that may hold or want a connection.
Crowd == {r \in Requests : at[r] \notin {"new", "streaming", "closed"}}

\* Nobody waits in vain while no more requests are busy than there are
\* connections; running streams do not count.
TimeoutNeedsCrowd ==
  [][timedOut' # timedOut => Cardinality(Crowd) > PoolSize]_vars

\* Where a client of the pool is that a request stands for.
Phase ==
  [r \in Requests |-> CASE at[r] = "new"       -> "absent"
                        [] at[r] = "streaming" -> "resting"
                        [] at[r] = "closed"    -> "gone"
                        [] OTHER               -> "present"]

\* The pool of the engine is used as Lending has it, by sessions and by
\* _persist_results alike (db/session.py:14-23).  Every request that has come
\* is over in the end, although holders of connections wait for threads,
\* holders of threads for connections, and the loop for both.
Desk == INSTANCE Lending WITH
  Clients <- Requests,
  Items   <- PoolSize,
  phase   <- Phase,
  holding <- session \cup Storing,
  denied  <- timedOut

\* Every step is one at the desk, and everyone who came leaves.
ImplementsLending == Desk!Spec
=============================================================================
