------------------------------- MODULE Resources -------------------------------
(***************************************************************************)
(* What requests wait for: a thread of FastAPI's threadpool, a connection  *)
(* of the SQLAlchemy pool of app/database.py, and the row locks of upload  *)
(* sessions.                                                               *)
(*                                                                         *)
(* A database session checks a connection out with its first statement     *)
(* and returns it at COMMIT.  db.refresh after the COMMIT is a statement   *)
(* of a new transaction: it checks a connection out AGAIN, and may wait    *)
(* or time out although the chunk is stored.  A handler that raises or     *)
(* only reads keeps its connection and its row locks until get_db closes   *)
(* the session, when its thread is already free.                           *)
(*                                                                         *)
(* What a handler returns is validated against its response model in a     *)
(* thread of the same threadpool, before get_db closes: such a request     *)
(* waits for a thread a second time, with the connection it has read on.   *)
(*                                                                         *)
(* A writer locks one row FOR UPDATE.  The INSERT of a comparison locks    *)
(* two rows FOR KEY SHARE, one after the other: any number of comparisons  *)
(* hold a row together, and PostgreSQL lets them pass a waiting writer.    *)
(*                                                                         *)
(* The rows are left out: what a handler decides is any of its outcomes.   *)
(***************************************************************************)
EXTENDS Naturals, FiniteSets, Sequences

CONSTANTS Requests,     \* requests that are in the service at the same time
          Writers,      \* those that lock FOR UPDATE
          Rows(_),      \* the sessions whose rows a request locks, in its order
          Sessions,     \* upload sessions
          Threads,      \* the size of the threadpool
          Connections,  \* pool_size + max_overflow
          None

ASSUME ResourcesAssumption ==
  /\ Threads \in Nat \ {0} /\ Connections \in Nat \ {0}
  /\ IsFiniteSet(Requests) /\ Writers \subseteq Requests
  /\ None \notin Requests \cup Sessions
  /\ \A r \in Requests : Rows(r) \in Seq(Sessions) /\ (r \in Writers => Len(Rows(r)) = 1)

VARIABLES
  pc,        \* where each request is
  locked,    \* how many of its rows it has locked
  lock,      \* the writer that holds a session's row FOR UPDATE, or None
  shares,    \* the comparisons that hold it FOR KEY SHARE
  holds      \* the requests whose database session has a connection checked out

vars == <<pc, locked, lock, shares, holds>>

Init ==
  /\ pc = [r \in Requests |-> "away"]
  /\ locked = [r \in Requests |-> 0]
  /\ lock = [s \in Sessions |-> None]
  /\ shares = [s \in Sessions |-> {}]
  /\ holds = {}

Goes(r, from, to) == pc[r] = from /\ pc' = [pc EXCEPT ![r] = to]

\* The end of a transaction gives its row locks back.
Unlock(r) ==
  /\ lock' = [s \in Sessions |-> IF lock[s] = r THEN None ELSE lock[s]]
  /\ shares' = [s \in Sessions |-> shares[s] \ {r}]

KeepsLocks == UNCHANGED <<locked, lock, shares>>

\* A handler occupies a thread from its call to its return.
InHandler == {r \in Requests : pc[r] \notin {"away", "queued", "validate", "returned"}}

FreeThread == Cardinality(InHandler) < Threads

FreeConnection == Cardinality(holds) < Connections

-------------------------------------------------------------------------------
Arrive(r) == Goes(r, "away", "queued") /\ KeepsLocks /\ UNCHANGED holds

Call(r) ==
  /\ FreeThread
  /\ Goes(r, "queued", "connect")
  /\ KeepsLocks /\ UNCHANGED holds

\* The first statement of the session.
Checkout(r) ==
  /\ FreeConnection
  /\ holds' = holds \cup {r}
  /\ Goes(r, "connect", IF Rows(r) = <<>> THEN "work" ELSE "lock")
  /\ KeepsLocks

LockRow_Exclusive(r) ==
  /\ Goes(r, "lock", IF locked[r] + 1 = Len(Rows(r)) THEN "work" ELSE "lock")
  /\ locked' = [locked EXCEPT ![r] = @ + 1]
  /\ LET s == Rows(r)[locked[r] + 1]
     IN  lock[s] = None /\ shares[s] = {} /\ lock' = [lock EXCEPT ![s] = r]
  /\ UNCHANGED <<shares, holds>>

\* A statement that locks the next row waits in the database, on its connection.
LockRow(r) ==
  /\ Goes(r, "lock", IF locked[r] + 1 = Len(Rows(r)) THEN "work" ELSE "lock")
  /\ locked' = [locked EXCEPT ![r] = @ + 1]
  /\ LET s == Rows(r)[locked[r] + 1]
     IN  /\ lock[s] = None
         /\ IF r \in Writers
            THEN shares[s] = {} /\ lock' = [lock EXCEPT ![s] = r] /\ UNCHANGED shares
            ELSE shares' = [shares EXCEPT ![s] = @ \cup {r}] /\ UNCHANGED lock
  /\ UNCHANGED holds

\* Nothing is committed.  A handler that raises, or that returns a Response of its
\* own (download_content), is done; what another reader returns is validated.
Return(r) ==
  /\ Goes(r, "work", "returned") \/ (Rows(r) = <<>> /\ Goes(r, "work", "validate"))
  /\ KeepsLocks /\ UNCHANGED holds

\* A comparison that finds no sealed archive ends before its INSERT.
Refuse(r) ==
  /\ r \notin Writers /\ locked[r] = 0
  /\ Goes(r, "lock", "returned")
  /\ KeepsLocks /\ UNCHANGED holds

AfterCommit(r) == \E next \in {"validate", "refresh", "returned"} : Goes(r, "work", next)

Commit_ReturnsNoConnection(r) ==
  /\ AfterCommit(r)
  /\ Unlock(r) /\ locked' = [locked EXCEPT ![r] = 0]
  /\ holds' = holds

\* COMMIT gives the row locks back and returns the connection to the pool.  Then
\* the handler answers (a replay, a compaction), refreshes its row (an accepted
\* chunk, a new session, a comparison) or raises (a 0-byte package that failed).
Commit(r) ==
  /\ AfterCommit(r)
  /\ Unlock(r) /\ locked' = [locked EXCEPT ![r] = 0]
  /\ holds' = holds \ {r}

AfterRefresh(r) == Goes(r, "refresh", "validate") \/ Goes(r, "refresh", "returned")

Refresh_Unbounded(r) ==
  /\ AfterRefresh(r)
  /\ holds' = holds \cup {r}
  /\ KeepsLocks

\* db.refresh: the second checkout of the request.  The last chunk of a package
\* with a wrong digest raises after it.
Refresh(r) ==
  /\ FreeConnection
  /\ AfterRefresh(r)
  /\ holds' = holds \cup {r}
  /\ KeepsLocks

\* No connection within pool_timeout: the request answers 500.
CheckoutTimeout(r) ==
  /\ ~FreeConnection
  /\ Goes(r, "connect", "returned") \/ Goes(r, "refresh", "returned")
  /\ KeepsLocks /\ UNCHANGED holds

\* FastAPI validates the answer in a thread, for no longer than a step.
Validate(r) ==
  /\ FreeThread
  /\ Goes(r, "validate", "returned")
  /\ KeepsLocks /\ UNCHANGED holds

Close_KeepsLocks(r) ==
  /\ Goes(r, "returned", "away")
  /\ locked' = [locked EXCEPT ![r] = 0] /\ UNCHANGED <<lock, shares>>
  /\ holds' = holds \ {r}

\* get_db closes the session, in a thread that handlers never occupy.
Close(r) ==
  /\ Goes(r, "returned", "away")
  /\ Unlock(r) /\ locked' = [locked EXCEPT ![r] = 0]
  /\ holds' = holds \ {r}

Step(r) == \/ Call(r) \/ Checkout(r) \/ LockRow(r) \/ Return(r) \/ Refuse(r)
           \/ Commit(r) \/ Refresh(r) \/ Validate(r) \/ Close(r)

Next == \E r \in Requests : Arrive(r) \/ Step(r) \/ CheckoutTimeout(r)

Spec == Init /\ [][Next]_vars

\* Handlers run on; the queues of the threadpool, of the connection pool and of a
\* row lock are first come, first served, so nobody is passed over for ever.  While
\* no connection comes back, one of those who wait is refused after pool_timeout.
FairSpec ==
  /\ Spec
  /\ \A r \in Requests : SF_vars(Step(r))
  /\ WF_vars(\E r \in Requests : CheckoutTimeout(r))

-------------------------------------------------------------------------------
\* The types, and a pool that never hands out more connections than it has.
TypeOK ==
  /\ pc \in [Requests ->
              {"away", "queued", "connect", "lock", "work", "refresh", "validate", "returned"}]
  /\ locked \in [Requests -> Nat]
  /\ lock \in [Sessions -> Writers \cup {None}]
  /\ shares \in [Sessions -> SUBSET (Requests \ Writers)]
  /\ holds \subseteq Requests
  /\ Cardinality(holds) <= Connections

Owns(r, s) == lock[s] = r \/ r \in shares[s]

\* No connection and no lock leaks.  Between requests, before its first and before
\* its second checkout a request holds nothing, so that whoever waits for the pool
\* keeps only its thread from the others.  Who waits for a thread to validate its
\* answer may keep a connection, but no row lock: its transaction has only read.
WaitersHoldNothing ==
  \A r \in Requests :
    /\ pc[r] \in {"away", "queued", "connect", "refresh"} => r \notin holds
    /\ pc[r] \in {"away", "queued", "connect", "refresh", "validate"} =>
         \A s \in Sessions : ~Owns(r, s)

\* Who holds a row lock has the connection it needs to give it back, and a row is
\* never locked FOR UPDATE and FOR KEY SHARE at the same time.
LockHoldersAreConnected ==
  \A r \in Requests, s \in Sessions :
    Owns(r, s) => /\ r \in holds
                  /\ pc[r] \in {"lock", "work", "returned"}
                  /\ lock[s] = None \/ shares[s] = {}

\* The next row of r is free for it.
RowIsFree(r) ==
  LET s == Rows(r)[locked[r] + 1]
  IN  lock[s] = None /\ (r \in Writers => shares[s] = {})

\* Some step of r other than a timeout is possible.
CanStep(r) ==
  \/ pc[r] \in {"queued", "validate"} /\ FreeThread
  \/ pc[r] \in {"connect", "refresh"} /\ FreeConnection
  \/ pc[r] = "lock" /\ RowIsFree(r)
  \/ pc[r] \in {"work", "returned"}

Standstill == (\E r \in Requests : pc[r] # "away") /\ \A r \in Requests : ~CanStep(r)

\* There is one circle the requests can close: every connection is kept by a request
\* that waits for a thread to validate its answer, and every thread by a handler that
\* waits for a connection.  No row is locked then, and the timeout of a checkout ends
\* it.  Row locks close no circle, which no timeout would end: not with the pool, not
\* with the threads, and not among comparisons that lock in opposite order.
OnlyCheckoutsStandStill ==
  Standstill =>
    /\ InHandler # {} /\ \A r \in InHandler : pc[r] \in {"connect", "refresh"}
    /\ ~FreeConnection /\ \A r \in holds : pc[r] = "validate"
    /\ \A s \in Sessions : lock[s] = None /\ shares[s] = {}

\* Every request is answered, with fewer threads and connections than requests, if
\* need be by the timeout of its checkout: writers that wait for one row lock may
\* take every thread and every connection but the one its holder has, comparisons of
\* one pair may lock its rows in opposite order, and requests that validate their
\* answers may have the connections that all threads wait for.  Only comparisons
\* that hold a row one after the other without a pause keep a writer from it.
NobodyWaitsForEver ==
  (\A s \in Sessions : []<>(shares[s] = {})) =>
    \A r \in Requests : pc[r] # "away" ~> pc[r] = "away"
==============================================================================
