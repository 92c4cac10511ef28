-------------------------------- MODULE Startup --------------------------------
(***************************************************************************)
(* The API container between its supervisor and a database that comes and  *)
(* goes: the lifespan of app/main.py, wait_for_database, init_db and the   *)
(* pool of app/database.py, `restart: unless-stopped` of                   *)
(* docker-compose.yml.                                                     *)
(*                                                                         *)
(* A connection is the incarnation of the database it was opened to: it is *)
(* dead once the database has stopped, and the pool does not notice.       *)
(* Requests are the ones FastAPI's worker threads run, GET /health among   *)
(* them; each is one checkout and one statement.                           *)
(***************************************************************************)
EXTENDS Naturals, Sequences

CONSTANTS Requests,     \* requests that may be in progress together
          Attempts,     \* connection attempts before DB_CONNECT_TIMEOUT is over
          MaxOutages,   \* bound on stops of the database
          MaxCrashes,   \* bound on crashes of the API process
          Closed        \* no connection

ASSUME StartupAssumption ==
  /\ {Attempts, MaxOutages, MaxCrashes} \subseteq Nat /\ Attempts > 0
  /\ Closed \notin Nat

VARIABLES up,        \* whether the database accepts connections
          outages,   \* stops of the database so far: its incarnation
          tables,    \* whether the schema is there; it outlives every process
          api,       \* the API process
          attempts,  \* attempts made since it started
          crashes,   \* crashes of it so far
          pool,      \* idle connections, first in first out
          request,   \* the request of each thread: where it is
          held,      \* the connection it checked out
          outage     \* whether the database was down at some time since it began

vars == <<up, outages, tables, api, attempts, crashes, pool, request, held, outage>>
process == <<api, attempts, crashes>>
database == <<up, outages>>
threads == <<request, held, outage>>

Init ==
  /\ up \in BOOLEAN /\ outages = 0 /\ tables = FALSE
  /\ api = "exited" /\ attempts = 0 /\ crashes = 0 /\ pool = <<>>
  /\ request = [r \in Requests |-> "none"] /\ held = [r \in Requests |-> Closed]
  /\ outage = [r \in Requests |-> FALSE]

Alive(c) == up /\ c = outages

-------------------------------------------------------------------------------
(***************************************************************************)
(* The process: supervisor, lifespan, init_db.                             *)
(***************************************************************************)
Start_OldDeadline ==
  /\ api = "exited"
  /\ api' = "waiting"
  /\ UNCHANGED <<database, tables, attempts, crashes, pool, threads>>

\* docker-compose.yml: unless-stopped, whatever the exit code.
Start ==
  /\ api = "exited"
  /\ api' = "waiting" /\ attempts' = 0
  /\ UNCHANGED <<database, tables, crashes, pool, threads>>

Attempt_WithoutDeadline ==
  /\ api = "waiting"
  /\ IF up THEN api' = "creating" /\ pool' = <<outages>> ELSE UNCHANGED <<api, pool>>
  /\ attempts' = attempts + 1
  /\ UNCHANGED <<database, tables, crashes, threads>>

\* wait_for_database: one attempt; the connection goes to the pool.
Attempt ==
  /\ api = "waiting" /\ attempts < Attempts
  /\ IF up THEN api' = "creating" /\ pool' = <<outages>> ELSE UNCHANGED <<api, pool>>
  /\ attempts' = attempts + 1
  /\ UNCHANGED <<database, tables, crashes, threads>>

GiveUp_ServesAnyway ==
  /\ api = "waiting" /\ attempts = Attempts
  /\ api' = "serving" /\ pool' = <<>>
  /\ UNCHANGED <<database, tables, attempts, crashes, threads>>

\* The deadline: RuntimeError ends the lifespan, and the process with it.
GiveUp ==
  /\ api = "waiting" /\ attempts = Attempts
  /\ api' = "exited" /\ pool' = <<>>
  /\ UNCHANGED <<database, tables, attempts, crashes, threads>>

\* create_all: one transaction; it leaves existing tables alone.
CreateAll ==
  /\ api = "creating"
  /\ IF up THEN api' = "serving" /\ tables' = TRUE /\ pool' = <<outages>>
     ELSE api' = "exited" /\ pool' = <<>> /\ UNCHANGED tables
  /\ UNCHANGED <<database, attempts, crashes, threads>>

\* The process dies with its pool and the requests it was serving.
Crash ==
  /\ api # "exited" /\ crashes < MaxCrashes
  /\ api' = "exited" /\ crashes' = crashes + 1 /\ pool' = <<>>
  /\ request' = [r \in Requests |-> "none"] /\ held' = [r \in Requests |-> Closed]
  /\ outage' = [r \in Requests |-> FALSE]
  /\ UNCHANGED <<database, tables, attempts>>

-------------------------------------------------------------------------------
(***************************************************************************)
(* A request: get_db, a statement, close.                                  *)
(***************************************************************************)
Accept(r) ==
  /\ api = "serving" /\ request[r] = "none"
  /\ request' = [request EXCEPT ![r] = "accepted"]
  /\ outage' = [outage EXCEPT ![r] = ~up]
  /\ UNCHANGED <<database, tables, process, pool, held>>

\* A new connection; if there is none to be had the request ends in a 500.
Connects(r) ==
  IF up THEN held' = [held EXCEPT ![r] = outages]
             /\ request' = [request EXCEPT ![r] = "connected"]
  ELSE request' = [request EXCEPT ![r] = "failed"] /\ UNCHANGED held

Takes(r) ==
  /\ pool' = Tail(pool) /\ held' = [held EXCEPT ![r] = Head(pool)]
  /\ request' = [request EXCEPT ![r] = "connected"]

Checkout_WithoutPing(r) ==
  /\ request[r] = "accepted"
  /\ IF pool = <<>> THEN Connects(r) /\ UNCHANGED pool ELSE Takes(r)
  /\ UNCHANGED <<database, tables, process, outage>>

\* pool_pre_ping: a connection that does not answer is replaced, and so is, when
\* its turn comes, every other one that is as old.
Checkout(r) ==
  /\ request[r] = "accepted"
  /\ IF pool = <<>> THEN Connects(r) /\ UNCHANGED pool
     ELSE IF Alive(Head(pool)) THEN Takes(r)
     ELSE Connects(r) /\ pool' = <<>>
  /\ UNCHANGED <<database, tables, process, outage>>

\* The statement; close() gives the connection back, a dead one is dropped.
Execute(r) ==
  /\ request[r] = "connected"
  /\ request' = [request EXCEPT ![r] = IF Alive(held[r]) THEN "answered" ELSE "failed"]
  /\ pool' = IF Alive(held[r]) THEN Append(pool, held[r]) ELSE pool
  /\ held' = [held EXCEPT ![r] = Closed]
  /\ UNCHANGED <<database, tables, process, outage>>

Respond(r) ==
  /\ request[r] \in {"answered", "failed"}
  /\ request' = [request EXCEPT ![r] = "none"]
  /\ outage' = [outage EXCEPT ![r] = FALSE]
  /\ UNCHANGED <<database, tables, process, pool, held>>

-------------------------------------------------------------------------------
\* The database, outside the program.
Stop ==
  /\ up /\ outages < MaxOutages
  /\ up' = FALSE /\ outages' = outages + 1
  /\ outage' = [r \in Requests |-> request[r] # "none"]
  /\ UNCHANGED <<tables, process, pool, request, held>>

Recover ==
  /\ ~up /\ up' = TRUE
  /\ UNCHANGED <<outages, tables, process, pool, threads>>

Boot == Start \/ Attempt \/ GiveUp \/ CreateAll
Handle(r) == Checkout(r) \/ Execute(r) \/ Respond(r)

Next == Boot \/ Crash \/ Stop \/ Recover \/ \E r \in Requests : Accept(r) \/ Handle(r)

Spec == Init /\ [][Next]_vars

\* The supervisor and the process run; so does each thread.  Nothing is assumed
\* of the database: it may stay down for ever.
FairSpec ==
  Spec /\ WF_vars(Boot) /\ \A r \in Requests : WF_vars(Handle(r))

-------------------------------------------------------------------------------
TypeOK ==
  /\ up \in BOOLEAN /\ outages \in 0..MaxOutages /\ tables \in BOOLEAN
  /\ api \in {"exited", "waiting", "creating", "serving"}
  /\ attempts \in 0..Attempts /\ crashes \in 0..MaxCrashes
  /\ pool \in Seq(0..outages)
  /\ request \in [Requests -> {"none", "accepted", "connected", "answered", "failed"}]
  /\ held \in [Requests -> {Closed} \cup 0..outages]
  /\ outage \in [Requests -> BOOLEAN]

\* database.py: "so an API restart never hits a cold DB".  No request is taken
\* before the schema is there, through every outage during start-up.
ServesWithSchema == (\E r \in Requests : request[r] # "none") => tables

\* pool_pre_ping: a connection that died in an earlier outage never costs a
\* request its answer; a request fails only if the database was down while it ran.
FailsOnlyInOutage ==
  \A r \in Requests : request[r] = "failed" => outage[r]

\* Once the database stays up, the API comes to serve and goes on serving, however
\* often the deadline passed or the process crashed before.
ComesToServe == <>[]up => <>[](api = "serving")
==============================================================================
