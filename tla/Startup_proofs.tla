----------------------------- MODULE Startup_proofs -----------------------------
(***************************************************************************)
(* For every number of requests and attempts and every bound on outages    *)
(* and crashes: no request runs before the schema is there, and none fails *)
(* for a connection that died before it began.                             *)
(***************************************************************************)
EXTENDS Startup, SequenceTheorems, TLAPS

\* The types the argument needs; it says nothing of the pool, whose connections
\* may be as old as they like.
ThreadTypes ==
  /\ up \in BOOLEAN /\ outages \in Nat /\ tables \in BOOLEAN
  /\ request \in [Requests -> {"none", "accepted", "connected", "answered", "failed"}]
  /\ held \in [Requests -> {Closed} \cup Nat]
  /\ outage \in [Requests -> BOOLEAN]
  /\ pool \in Seq(Nat)

\* Requests are taken while the process serves, and it serves with the schema.
OnlyServingRuns ==
  /\ api = "serving" => tables
  /\ \A r \in Requests : request[r] # "none" => api = "serving"

\* Whoever met a database that is down, or has a connection that is dead, knows of
\* an outage during its own time.
OutagesAreSeen ==
  \A r \in Requests :
    /\ request[r] # "none" /\ ~up => outage[r]
    /\ request[r] = "connected" /\ held[r] # outages => outage[r]
    /\ request[r] = "failed" => outage[r]

Inv == ThreadTypes /\ OnlyServingRuns /\ OutagesAreSeen

\* What a pool gives and takes are connections.
LEMMA PoolKeepsSet ==
  ASSUME NEW S, NEW p \in Seq(S), NEW c \in S
  PROVE  /\ <<c>> \in Seq(S) /\ <<>> \in Seq(S) /\ Append(p, c) \in Seq(S)
         /\ p # <<>> => Head(p) \in S /\ Tail(p) \in Seq(S)
<1>1. <<c>> \in Seq(S) /\ <<>> \in Seq(S) /\ Append(p, c) \in Seq(S)  OBVIOUS
<1>2. ASSUME p # <<>>  PROVE Head(p) \in S /\ Tail(p) \in Seq(S)
  BY <1>2, HeadTailProperties
<1> QED  BY <1>1, <1>2

\* The same for connections numbered without a bound.
LEMMA PoolKeepsType ==
  ASSUME NEW p \in Seq(Nat), NEW c \in Nat
  PROVE  /\ <<c>> \in Seq(Nat) /\ <<>> \in Seq(Nat) /\ Append(p, c) \in Seq(Nat)
         /\ p # <<>> => Head(p) \in Nat /\ Tail(p) \in Seq(Nat)
BY PoolKeepsSet

\* A container that starts runs no request.
LEMMA InvInit == Init => Inv
<1> SUFFICES ASSUME Init PROVE Inv  OBVIOUS
<1>1. outage \in [Requests -> BOOLEAN] /\ pool \in Seq(Nat)  BY EmptySeq DEF Init
<1>2. ThreadTypes  BY <1>1 DEF Init, ThreadTypes
<1>3. OnlyServingRuns /\ OutagesAreSeen  BY DEF Init, OnlyServingRuns, OutagesAreSeen
<1> QED  BY <1>2, <1>3 DEF Inv

\* Every step keeps the invariant.
LEMMA InvNext == Inv /\ [Next]_vars => Inv'
<1> SUFFICES ASSUME Inv, [Next]_vars PROVE Inv'  OBVIOUS
<1> USE StartupAssumption
<1>a. ThreadTypes /\ OnlyServingRuns /\ OutagesAreSeen  BY DEF Inv
<1>1. CASE Start
  BY <1>a, <1>1
  DEF Start, Inv, ThreadTypes, OnlyServingRuns, OutagesAreSeen, database, threads
<1>2. CASE Attempt
  BY <1>a, <1>2, PoolKeepsType
  DEF Attempt, Inv, ThreadTypes, OnlyServingRuns, OutagesAreSeen, database, threads
<1>3. CASE GiveUp
  BY <1>a, <1>3, PoolKeepsType
  DEF GiveUp, Inv, ThreadTypes, OnlyServingRuns, OutagesAreSeen, database, threads
<1>4. CASE CreateAll
  BY <1>a, <1>4, PoolKeepsType
  DEF CreateAll, Inv, ThreadTypes, OnlyServingRuns, OutagesAreSeen, database, threads
<1>5. CASE Crash
  <2>1. outage' \in [Requests -> BOOLEAN] /\ pool' \in Seq(Nat)  BY <1>5, EmptySeq DEF Crash
  <2>2. ThreadTypes'  BY <1>a, <1>5, <2>1 DEF Crash, ThreadTypes, database
  <2>3. OnlyServingRuns' /\ OutagesAreSeen'
    BY <1>a, <1>5 DEF Crash, OnlyServingRuns, OutagesAreSeen, database
  <2> QED  BY <2>2, <2>3 DEF Inv
<1>6. CASE Stop
  <2>1. outage' = [r \in Requests |-> request[r] # "none"]  BY <1>6 DEF Stop
  <2>2. outage' \in [Requests -> BOOLEAN]  BY <2>1, Zenon
  <2>3. \A r \in Requests : request[r] # "none" => outage'[r]  BY <2>1, Zenon
  <2>4. ThreadTypes'
    <3>1. up' \in BOOLEAN /\ outages' = outages + 1 /\ UNCHANGED <<tables, pool, request, held>>
      BY <1>6, Zenon DEF Stop
    <3>2. outages' \in Nat  BY <1>a, <3>1 DEF ThreadTypes
    <3> QED  BY <1>a, <2>2, <3>1, <3>2, Zenon DEF ThreadTypes
  <2>5. OutagesAreSeen'
    <3>1. request' = request  BY <1>6 DEF Stop
    <3>2. "connected" # "none" /\ "failed" # "none"  OBVIOUS
    <3> QED  BY <2>3, <3>1, <3>2, Zenon DEF OutagesAreSeen
  <2>6. OnlyServingRuns'  BY <1>a, <1>6 DEF Stop, OnlyServingRuns, process
  <2> QED  BY <2>4, <2>5, <2>6 DEF Inv
<1>7. CASE Recover
  BY <1>a, <1>7
  DEF Recover, Inv, ThreadTypes, OnlyServingRuns, OutagesAreSeen, process, threads
<1>8. ASSUME NEW r \in Requests, Accept(r)  PROVE Inv'
  BY <1>a, <1>8
  DEF Accept, Inv, ThreadTypes, OnlyServingRuns, OutagesAreSeen, process, database
<1>9. ASSUME NEW r \in Requests, Checkout(r)  PROVE Inv'
  <2>1. pool' \in Seq(Nat) /\ (pool # <<>> => Head(pool) \in Nat)
    BY <1>a, <1>9, PoolKeepsType DEF Checkout, Takes, ThreadTypes
  <2> QED
    BY <1>a, <1>9, <2>1
    DEF Checkout, Connects, Takes, Alive, Inv, ThreadTypes, OnlyServingRuns,
        OutagesAreSeen, process, database
<1>10. ASSUME NEW r \in Requests, Execute(r)  PROVE Inv'
  <2>1. pool' \in Seq(Nat)
    BY <1>a, <1>10, PoolKeepsType DEF Execute, Alive, ThreadTypes
  <2> QED
    BY <1>a, <1>10, <2>1
    DEF Execute, Alive, Inv, ThreadTypes, OnlyServingRuns, OutagesAreSeen, process, database
<1>11. ASSUME NEW r \in Requests, Respond(r)  PROVE Inv'
  BY <1>a, <1>11
  DEF Respond, Inv, ThreadTypes, OnlyServingRuns, OutagesAreSeen, process, database
<1>12. CASE UNCHANGED vars
  BY <1>a, <1>12
  DEF vars, Inv, ThreadTypes, OnlyServingRuns, OutagesAreSeen
<1> QED
  BY <1>1, <1>2, <1>3, <1>4, <1>5, <1>6, <1>7, <1>8, <1>9, <1>10, <1>11, <1>12
  DEF Next, Boot, Handle

\* No request runs before the schema is there, however often start-up failed.
THEOREM SchemaFirst == Spec => []ServesWithSchema
<1>1. Inv => ServesWithSchema  BY DEF Inv, OnlyServingRuns, ServesWithSchema
<1> QED  BY <1>1, InvInit, InvNext, PTL DEF Spec

\* A request fails only if the database was down while it ran, however old the
\* connections of the pool are.
THEOREM NoStaleConnection == Spec => []FailsOnlyInOutage
<1>1. Inv => FailsOnlyInOutage  BY DEF Inv, OutagesAreSeen, FailsOnlyInOutage
<1> QED  BY <1>1, InvInit, InvNext, PTL DEF Spec

-------------------------------------------------------------------------------
(***************************************************************************)
(* Connections are of the present or of an earlier incarnation of the      *)
(* database, and no counter leaves its bounds.                             *)
(***************************************************************************)
\* Every step keeps the types.
LEMMA TypeNext == TypeOK /\ [Next]_vars => TypeOK'
<1> SUFFICES ASSUME TypeOK, [Next]_vars PROVE TypeOK'  OBVIOUS
<1> USE StartupAssumption
<1>a. /\ outages \in Nat /\ 0..outages \subseteq Nat /\ outages \in 0..outages
      /\ attempts \in Nat /\ crashes \in Nat
  BY DEF TypeOK
<1>1. CASE Start  BY <1>1 DEF Start, TypeOK, database, threads
<1>2. CASE Attempt
  <2>1. pool' \in Seq(0..outages)  BY <1>a, <1>2, PoolKeepsSet DEF Attempt, TypeOK
  <2> QED  BY <1>a, <1>2, <2>1 DEF Attempt, TypeOK, database, threads
<1>3. CASE GiveUp
  <2>1. pool' \in Seq(0..outages)  BY <1>3, EmptySeq DEF GiveUp
  <2> QED  BY <1>3, <2>1 DEF GiveUp, TypeOK, database, threads
<1>4. CASE CreateAll
  <2>1. pool' \in Seq(0..outages)  BY <1>a, <1>4, PoolKeepsSet DEF CreateAll, TypeOK
  <2> QED  BY <1>4, <2>1 DEF CreateAll, TypeOK, database, threads
<1>5. CASE Crash
  <2>1. pool' \in Seq(0..outages)  BY <1>5, EmptySeq DEF Crash
  <2>2. outage' \in [Requests -> BOOLEAN]  BY <1>5 DEF Crash
  <2>3. crashes' \in 0..MaxCrashes  BY <1>a, <1>5 DEF Crash, TypeOK
  <2> QED  BY <1>5, <2>1, <2>2, <2>3 DEF Crash, TypeOK, database
<1>6. CASE Stop
  <2>1. /\ outages' = outages + 1 /\ outages < MaxOutages /\ up' = FALSE
        /\ UNCHANGED <<tables, process, pool, request, held>>
    BY <1>6, Zenon DEF Stop
  <2>2. outages' \in 0..MaxOutages /\ 0..outages \subseteq 0..outages'
    BY <1>a, <2>1
  <2>3. pool' \in Seq(0..outages')
    <3>1. pool \in Seq(0..outages)  BY DEF TypeOK
    <3>2. Len(pool) \in Nat /\ pool \in [1..Len(pool) -> 0..outages]
      BY <3>1, LenProperties
    <3>3. pool \in [1..Len(pool) -> 0..outages']  BY <2>2, <3>2
    <3>4. pool \in Seq(0..outages')  BY <3>2, <3>3, SeqDef
    <3> QED  BY <2>1, <3>4
  <2>4. held' \in [Requests -> {Closed} \cup 0..outages']  BY <2>1, <2>2 DEF TypeOK
  <2>5. outage' \in [Requests -> BOOLEAN]
    <3>1. outage' = [r \in Requests |-> request[r] # "none"]  BY <1>6 DEF Stop
    <3> QED  BY <3>1, Zenon
  <2> QED  BY <2>1, <2>2, <2>3, <2>4, <2>5 DEF TypeOK, process
<1>7. CASE Recover  BY <1>7 DEF Recover, TypeOK, process, threads
<1>8. ASSUME NEW r \in Requests, Accept(r)  PROVE TypeOK'
  BY <1>8 DEF Accept, TypeOK, process, database
<1>9. ASSUME NEW r \in Requests, Checkout(r)  PROVE TypeOK'
  <2>1. pool' \in Seq(0..outages) /\ (pool # <<>> => Head(pool) \in 0..outages)
    <3>1. pool \in Seq(0..outages)  BY DEF TypeOK
    <3>2. pool # <<>> => Head(pool) \in 0..outages /\ Tail(pool) \in Seq(0..outages)
      BY <1>a, <3>1, PoolKeepsSet
    <3>3. <<>> \in Seq(0..outages)  BY EmptySeq
    <3>4. pool' = pool \/ (pool # <<>> /\ pool' = Tail(pool)) \/ pool' = <<>>
      BY <1>9 DEF Checkout, Takes
    <3> QED  BY <3>1, <3>2, <3>3, <3>4
  <2> QED
    BY <1>a, <1>9, <2>1 DEF Checkout, Connects, Takes, Alive, TypeOK, process, database
<1>10. ASSUME NEW r \in Requests, Execute(r)  PROVE TypeOK'
  <2>1. pool' \in Seq(0..outages)
    BY <1>a, <1>10, PoolKeepsSet DEF Execute, Alive, TypeOK
  <2> QED  BY <1>10, <2>1 DEF Execute, TypeOK, process, database
<1>11. ASSUME NEW r \in Requests, Respond(r)  PROVE TypeOK'
  BY <1>11 DEF Respond, TypeOK, process, database
<1>12. CASE UNCHANGED vars  BY <1>12 DEF vars, TypeOK
<1> QED
  BY <1>1, <1>2, <1>3, <1>4, <1>5, <1>6, <1>7, <1>8, <1>9, <1>10, <1>11, <1>12
  DEF Next, Boot, Handle

\* No connection, idle or checked out, is of an incarnation of the database that
\* is still to come, and every counter stays within its bounds.
THEOREM ConnectionsAreOfThePast == Spec => []TypeOK
<1>1. Init => TypeOK
  <2> SUFFICES ASSUME Init PROVE TypeOK  OBVIOUS
  <2>1. /\ outages = 0 /\ pool = <<>> /\ pool \in Seq(0..outages)
        /\ attempts = 0 /\ crashes = 0
    BY EmptySeq DEF Init
  <2>2. outage \in [Requests -> BOOLEAN] /\ held \in [Requests -> {Closed} \cup 0..outages]
    BY DEF Init
  <2>3. outages \in 0..MaxOutages /\ attempts \in 0..Attempts /\ crashes \in 0..MaxCrashes
    BY <2>1, StartupAssumption
  <2>4. up \in BOOLEAN /\ tables = FALSE /\ api = "exited"
        /\ request \in [Requests -> {"none", "accepted", "connected", "answered", "failed"}]
    BY DEF Init
  <2> QED  BY <2>1, <2>2, <2>3, <2>4 DEF TypeOK
<1> QED  BY <1>1, TypeNext, PTL DEF Spec
==============================================================================
