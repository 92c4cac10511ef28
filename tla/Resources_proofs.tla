---------------------------- MODULE Resources_proofs ----------------------------
(***************************************************************************)
(* For every number of requests, sessions, threads and connections: nobody *)
(* who waits for the pool keeps a connection or a row lock from another,   *)
(* whoever holds a row lock has the connection it needs to give it back,   *)
(* and the one circle of waiting requests is one that a timeout ends.      *)
(***************************************************************************)
EXTENDS Resources, FiniteSetTheorems, TLAPS

\* What the invariants need to be inductive: a request that locks rows or works
\* has a connection, and while it locks rows there is another one to lock.  Who
\* waits for a thread or for the pool has locked none.
LockersAreConnected ==
  \A r \in Requests :
    /\ pc[r] \in {"lock", "work"} => r \in holds
    /\ pc[r] = "lock" => locked[r] < Len(Rows(r))
    /\ locked[r] <= Len(Rows(r))
    /\ pc[r] \in {"away", "queued", "connect", "refresh", "validate"} => locked[r] = 0

\* Who owns a row has locked one.
OwnersHaveLocked == \A r \in Requests, s \in Sessions : Owns(r, s) => locked[r] # 0

Inv == TypeOK /\ WaitersHoldNothing /\ LockHoldersAreConnected /\ LockersAreConnected

\* One more request in the pool is one more connection in use, and no more.
LEMMA CheckoutCounts ==
  ASSUME TypeOK, NEW r \in Requests, FreeConnection
  PROVE  Cardinality(holds \cup {r}) <= Connections
<1>1. IsFiniteSet(holds)  BY ResourcesAssumption, FS_Subset DEF TypeOK
<1>2. Cardinality(holds) \in Nat  BY <1>1, FS_CardinalityType
<1>3. Cardinality(holds \cup {r}) \in {Cardinality(holds), Cardinality(holds) + 1}
  BY <1>1, FS_AddElement
<1> QED  BY <1>2, <1>3, ResourcesAssumption DEF FreeConnection

\* A connection given back is never one more in use.
LEMMA ReturnCounts ==
  ASSUME TypeOK, NEW r \in Requests
  PROVE  Cardinality(holds \ {r}) <= Connections
<1>1. IsFiniteSet(holds)  BY ResourcesAssumption, FS_Subset DEF TypeOK
<1>2. Cardinality(holds) \in Nat /\ Cardinality(holds) <= Connections
  BY <1>1, FS_CardinalityType DEF TypeOK
<1>3. Cardinality(holds \ {r}) \in {Cardinality(holds), Cardinality(holds) - 1}
  BY <1>1, FS_RemoveElement
<1> QED  BY <1>2, <1>3, ResourcesAssumption

\* The end of a transaction takes row locks away from one request only.
LEMMA UnlockFrees ==
  ASSUME TypeOK, NEW r \in Requests, Unlock(r)
  PROVE  /\ lock' \in [Sessions -> Writers \cup {None}]
         /\ shares' \in [Sessions -> SUBSET (Requests \ Writers)]
         /\ \A s \in Sessions :
              /\ lock'[s] = IF lock[s] = r THEN None ELSE lock[s]
              /\ shares'[s] = shares[s] \ {r}
BY DEF TypeOK, Unlock

\* The row a request waits for is one of the sessions'.
LEMMA NextRow ==
  ASSUME Inv, NEW r \in Requests, pc[r] = "lock"
  PROVE  Rows(r)[locked[r] + 1] \in Sessions
<1>1. Rows(r) \in Seq(Sessions)  BY ResourcesAssumption
<1>2. locked[r] \in Nat /\ locked[r] < Len(Rows(r))
  BY DEF Inv, TypeOK, LockersAreConnected
<1>3. locked[r] + 1 \in 1..Len(Rows(r))  BY <1>1, <1>2
<1> QED  BY <1>1, <1>3

\* No request is in the service at first.
LEMMA InvInit == Init => Inv
<1> SUFFICES ASSUME Init PROVE Inv  OBVIOUS
<1>1. Cardinality({}) = 0  BY FS_EmptySet
<1>2. TypeOK  BY <1>1, ResourcesAssumption DEF Init, TypeOK
<1> QED
  BY <1>2, ResourcesAssumption
  DEF Init, Inv, WaitersHoldNothing, LockHoldersAreConnected, LockersAreConnected, Owns

\* A lock is taken with the count of the locked rows, and they are lost together.
LEMMA OwnersHaveLockedNext ==
  ASSUME Inv, OwnersHaveLocked, [Next]_vars
  PROVE  OwnersHaveLocked'
<1> USE ResourcesAssumption
<1>a. TypeOK  BY DEF Inv
<1>1. ASSUME KeepsLocks  PROVE OwnersHaveLocked'
  BY <1>1 DEF KeepsLocks, OwnersHaveLocked, Owns
<1>2. ASSUME NEW r \in Requests, LockRow(r)  PROVE OwnersHaveLocked'
  <2> DEFINE s == Rows(r)[locked[r] + 1]
  <2>1. locked' = [locked EXCEPT ![r] = locked[r] + 1]  BY <1>2 DEF LockRow
  <2>2. s \in Sessions  BY <1>2, NextRow DEF LockRow, Goes
  <2>3. \/ lock' = [lock EXCEPT ![s] = r] /\ shares' = shares
        \/ shares' = [shares EXCEPT ![s] = shares[s] \cup {r}] /\ lock' = lock
    BY <1>2 DEF LockRow
  <2>4. ASSUME NEW q \in Requests, NEW u \in Sessions, Owns(q, u)', q # r
        PROVE  Owns(q, u)
    <3>1. q = lock'[u] \/ q \in shares'[u]  BY <2>4 DEF Owns
    <3>2. CASE lock' = [lock EXCEPT ![s] = r] /\ shares' = shares
      <4>1. lock'[u] = r \/ lock'[u] = lock[u]  BY <1>a, <3>2 DEF TypeOK
      <4> QED  BY <2>4, <3>1, <3>2, <4>1 DEF Owns
    <3>3. CASE shares' = [shares EXCEPT ![s] = shares[s] \cup {r}] /\ lock' = lock
      <4>1. shares'[u] \subseteq shares[u] \cup {r}  BY <1>a, <3>3 DEF TypeOK
      <4> QED  BY <2>4, <3>1, <3>3, <4>1 DEF Owns
    <3> QED  BY <2>3, <3>2, <3>3
  <2>5. locked'[r] # 0 /\ \A q \in Requests : q # r => locked'[q] = locked[q]
    BY <1>a, <2>1 DEF TypeOK
  <2> QED  BY <2>4, <2>5 DEF OwnersHaveLocked
<1>3. ASSUME NEW r \in Requests, Unlock(r), locked' = [locked EXCEPT ![r] = 0]
      PROVE  OwnersHaveLocked'
  <2>1. \A q \in Requests, s \in Sessions : Owns(q, s)' => q # r /\ Owns(q, s)
    BY <1>a, <1>3, UnlockFrees DEF Owns, TypeOK
  <2>2. \A q \in Requests : q # r => locked'[q] = locked[q]  BY <1>a, <1>3 DEF TypeOK
  <2> QED  BY <2>1, <2>2 DEF OwnersHaveLocked
<1>4. ASSUME NEW r \in Requests, Arrive(r) \/ Step(r) \/ CheckoutTimeout(r)
      PROVE  OwnersHaveLocked'
  <2>1. CASE LockRow(r)  BY <1>2, <2>1
  <2>2. CASE Commit(r) \/ Close(r)  BY <1>3, <2>2 DEF Commit, Close
  <2>3. CASE \/ Arrive(r) \/ Call(r) \/ Checkout(r) \/ Return(r) \/ Refuse(r)
             \/ Refresh(r) \/ Validate(r) \/ CheckoutTimeout(r)
    BY <1>1, <2>3
    DEF Arrive, Call, Checkout, Return, Refuse, Refresh, Validate, CheckoutTimeout
  <2> QED  BY <1>4, <2>1, <2>2, <2>3 DEF Step
<1>5. CASE UNCHANGED vars  BY <1>1, <1>5 DEF vars, KeepsLocks
<1> QED  BY <1>4, <1>5 DEF Next

\* A request without rows has locked none and owns none.
LEMMA ReadersLockNothing ==
  ASSUME Inv, OwnersHaveLocked, NEW r \in Requests, Rows(r) = <<>>
  PROVE  locked[r] = 0 /\ \A s \in Sessions : ~Owns(r, s)
<1>1. Len(Rows(r)) = 0  OBVIOUS
<1>2. locked[r] \in Nat /\ locked[r] <= 0  BY <1>1 DEF Inv, TypeOK, LockersAreConnected
<1>3. locked[r] = 0  BY <1>2
<1> QED  BY <1>3 DEF OwnersHaveLocked

\* Every step keeps the invariant.
LEMMA InvNext == Inv /\ OwnersHaveLocked /\ [Next]_vars => Inv'
<1> SUFFICES ASSUME Inv, OwnersHaveLocked, [Next]_vars PROVE Inv'  OBVIOUS
<1> USE ResourcesAssumption
<1>a. TypeOK /\ WaitersHoldNothing /\ LockHoldersAreConnected /\ LockersAreConnected
  BY DEF Inv
<1>1. ASSUME NEW r \in Requests, Arrive(r)  PROVE Inv'
  BY <1>a, <1>1
  DEF Inv, TypeOK, WaitersHoldNothing, LockHoldersAreConnected, LockersAreConnected,
      Owns, Arrive, Goes, KeepsLocks
<1>2. ASSUME NEW r \in Requests, Call(r)  PROVE Inv'
  BY <1>a, <1>2
  DEF Inv, TypeOK, WaitersHoldNothing, LockHoldersAreConnected, LockersAreConnected,
      Owns, Call, Goes, KeepsLocks
<1>3. ASSUME NEW r \in Requests, Checkout(r)  PROVE Inv'
  <2>1. Cardinality(holds') <= Connections  BY <1>a, <1>3, CheckoutCounts DEF Checkout
  <2> QED
    BY <1>a, <1>3, <2>1
    DEF Inv, TypeOK, WaitersHoldNothing, LockHoldersAreConnected, LockersAreConnected,
        Owns, Checkout, Goes, KeepsLocks
<1>4. ASSUME NEW r \in Requests, LockRow(r)  PROVE Inv'
  <2> DEFINE s == Rows(r)[locked[r] + 1]
  <2>1. pc[r] = "lock" /\ s \in Sessions  BY <1>4, NextRow DEF LockRow, Goes
  <2>2. locked' = [locked EXCEPT ![r] = locked[r] + 1] /\ holds' = holds
    BY <1>4 DEF LockRow
  <2>3. locked[r] \in Nat /\ locked[r] < Len(Rows(r)) /\ Len(Rows(r)) \in Nat
    BY <1>a, <2>1 DEF TypeOK, LockersAreConnected
  <2>4. pc' = [pc EXCEPT ![r] = IF locked[r] + 1 = Len(Rows(r)) THEN "work" ELSE "lock"]
    BY <1>4 DEF LockRow, Goes
  <2>5. r \in holds  BY <1>a, <2>1 DEF LockersAreConnected
  <2>6. LockersAreConnected'
    BY <1>a, <2>1, <2>2, <2>3, <2>4, <2>5 DEF LockersAreConnected, TypeOK
  <2>7. CASE r \in Writers
    <3>1. /\ lock[s] = None /\ shares[s] = {}
          /\ lock' = [lock EXCEPT ![s] = r] /\ shares' = shares
      BY <1>4, <2>7 DEF LockRow
    <3>2. TypeOK'  BY <1>a, <2>1, <2>2, <2>3, <2>4, <2>7, <3>1 DEF TypeOK
    <3>3. \A q \in Requests, u \in Sessions : Owns(q, u)' => q = r \/ Owns(q, u)
      BY <1>a, <2>1, <3>1 DEF Owns, TypeOK
    <3>4. WaitersHoldNothing'
      BY <1>a, <2>1, <2>2, <2>4, <3>3 DEF WaitersHoldNothing, TypeOK
    <3>5. LockHoldersAreConnected'
      BY <1>a, <2>1, <2>2, <2>4, <2>5, <3>1, <3>3
      DEF LockHoldersAreConnected, TypeOK, Owns
    <3> QED  BY <2>6, <3>2, <3>4, <3>5 DEF Inv
  <2>8. CASE r \notin Writers
    <3>1. /\ lock[s] = None /\ lock' = lock
          /\ shares' = [shares EXCEPT ![s] = shares[s] \cup {r}]
      BY <1>4, <2>8 DEF LockRow
    <3>2. TypeOK'  BY <1>a, <2>1, <2>2, <2>3, <2>4, <2>8, <3>1 DEF TypeOK
    <3>3. \A q \in Requests, u \in Sessions : Owns(q, u)' => q = r \/ Owns(q, u)
      BY <1>a, <2>1, <3>1 DEF Owns, TypeOK
    <3>4. WaitersHoldNothing'
      BY <1>a, <2>1, <2>2, <2>4, <3>3 DEF WaitersHoldNothing, TypeOK
    <3>5. LockHoldersAreConnected'
      BY <1>a, <2>1, <2>2, <2>4, <2>5, <3>1, <3>3
      DEF LockHoldersAreConnected, TypeOK, Owns
    <3> QED  BY <2>6, <3>2, <3>4, <3>5 DEF Inv
  <2> QED  BY <2>7, <2>8
<1>5. ASSUME NEW r \in Requests, Return(r)  PROVE Inv'
  <2>1. pc[r] = "work" /\ UNCHANGED <<locked, lock, shares, holds>>
    BY <1>5 DEF Return, Goes, KeepsLocks
  <2>2. CASE pc' = [pc EXCEPT ![r] = "returned"]
    BY <1>a, <2>1, <2>2
    DEF Inv, TypeOK, WaitersHoldNothing, LockHoldersAreConnected, LockersAreConnected, Owns
  <2>3. CASE Rows(r) = <<>> /\ pc' = [pc EXCEPT ![r] = "validate"]
    <3>1. locked[r] = 0 /\ \A s \in Sessions : ~Owns(r, s)
      BY <2>1, <2>3, ReadersLockNothing
    <3> QED
      BY <1>a, <2>1, <2>3, <3>1
      DEF Inv, TypeOK, WaitersHoldNothing, LockHoldersAreConnected, LockersAreConnected,
          Owns
  <2> QED  BY <1>5, <2>2, <2>3 DEF Return, Goes
<1>6. ASSUME NEW r \in Requests, Refuse(r)  PROVE Inv'
  BY <1>a, <1>6
  DEF Inv, TypeOK, WaitersHoldNothing, LockHoldersAreConnected, LockersAreConnected,
      Owns, Refuse, Goes, KeepsLocks
<1>7. ASSUME NEW r \in Requests, Commit(r)  PROVE Inv'
  <2>1. Cardinality(holds') <= Connections  BY <1>a, <1>7, ReturnCounts DEF Commit
  <2>2. /\ lock' \in [Sessions -> Writers \cup {None}]
        /\ shares' \in [Sessions -> SUBSET (Requests \ Writers)]
        /\ \A s \in Sessions :
             /\ lock'[s] = IF lock[s] = r THEN None ELSE lock[s]
             /\ shares'[s] = shares[s] \ {r}
    BY <1>a, <1>7, UnlockFrees DEF Commit
  <2>3. TypeOK'  BY <1>a, <1>7, <2>1, <2>2 DEF TypeOK, Commit, AfterCommit, Goes
  <2>4. \A q \in Requests, s \in Sessions : Owns(q, s)' => q # r /\ Owns(q, s)
    BY <1>a, <2>2 DEF Owns, TypeOK
  <2>5. WaitersHoldNothing'
    BY <1>a, <1>7, <2>4 DEF WaitersHoldNothing, Commit, AfterCommit, Goes, TypeOK
  <2>6. LockHoldersAreConnected'
    <3> SUFFICES ASSUME NEW q \in Requests, NEW s \in Sessions, Owns(q, s)'
                 PROVE  /\ q \in holds'
                        /\ pc'[q] \in {"lock", "work", "returned"}
                        /\ lock'[s] = None \/ shares'[s] = {}
      BY DEF LockHoldersAreConnected
    <3>1. q # r /\ Owns(q, s)  BY <2>4
    <3>2. /\ q \in holds /\ pc[q] \in {"lock", "work", "returned"}
          /\ lock[s] = None \/ shares[s] = {}
      BY <1>a, <3>1 DEF LockHoldersAreConnected
    <3>3. q \in holds' /\ pc'[q] = pc[q]
      BY <1>a, <1>7, <3>1, <3>2 DEF Commit, AfterCommit, Goes, TypeOK
    <3> QED  BY <2>2, <3>2, <3>3
  <2>7. LockersAreConnected'
    BY <1>a, <1>7 DEF LockersAreConnected, Commit, AfterCommit, Goes, TypeOK
  <2> QED  BY <2>3, <2>5, <2>6, <2>7 DEF Inv
<1>8. ASSUME NEW r \in Requests, Refresh(r)  PROVE Inv'
  <2>1. Cardinality(holds') <= Connections  BY <1>a, <1>8, CheckoutCounts DEF Refresh
  <2>2. /\ pc[r] = "refresh" /\ holds' = holds \cup {r}
        /\ UNCHANGED <<locked, lock, shares>>
        /\ \E next \in {"validate", "returned"} : pc' = [pc EXCEPT ![r] = next]
    BY <1>8 DEF Refresh, AfterRefresh, Goes, KeepsLocks
  <2>3. PICK next \in {"validate", "returned"} : pc' = [pc EXCEPT ![r] = next]  BY <2>2
  <2>4. TypeOK'  BY <1>a, <2>1, <2>2, <2>3 DEF TypeOK
  <2>5. \A s \in Sessions : ~Owns(r, s)  BY <1>a, <2>2 DEF WaitersHoldNothing
  <2>6. WaitersHoldNothing'
    BY <1>a, <2>2, <2>3, <2>5 DEF WaitersHoldNothing, Owns, TypeOK
  <2>7. LockHoldersAreConnected'
    BY <1>a, <2>2, <2>3, <2>5 DEF LockHoldersAreConnected, Owns, TypeOK
  <2>8. LockersAreConnected'
    BY <1>a, <2>2, <2>3 DEF LockersAreConnected, TypeOK
  <2> QED  BY <2>4, <2>6, <2>7, <2>8 DEF Inv
<1>9. ASSUME NEW r \in Requests, Close(r)  PROVE Inv'
  <2>1. Cardinality(holds') <= Connections  BY <1>a, <1>9, ReturnCounts DEF Close
  <2>2. /\ lock' \in [Sessions -> Writers \cup {None}]
        /\ shares' \in [Sessions -> SUBSET (Requests \ Writers)]
        /\ \A s \in Sessions :
             /\ lock'[s] = IF lock[s] = r THEN None ELSE lock[s]
             /\ shares'[s] = shares[s] \ {r}
    BY <1>a, <1>9, UnlockFrees DEF Close
  <2>3. TypeOK'  BY <1>a, <1>9, <2>1, <2>2 DEF TypeOK, Close, Goes
  <2>4. \A q \in Requests, s \in Sessions : Owns(q, s)' => q # r /\ Owns(q, s)
    BY <1>a, <2>2 DEF Owns, TypeOK
  <2>5. WaitersHoldNothing'
    BY <1>a, <1>9, <2>4 DEF WaitersHoldNothing, Close, Goes, TypeOK
  <2>6. LockHoldersAreConnected'
    <3> SUFFICES ASSUME NEW q \in Requests, NEW s \in Sessions, Owns(q, s)'
                 PROVE  /\ q \in holds'
                        /\ pc'[q] \in {"lock", "work", "returned"}
                        /\ lock'[s] = None \/ shares'[s] = {}
      BY DEF LockHoldersAreConnected
    <3>1. q # r /\ Owns(q, s)  BY <2>4
    <3>2. /\ q \in holds /\ pc[q] \in {"lock", "work", "returned"}
          /\ lock[s] = None \/ shares[s] = {}
      BY <1>a, <3>1 DEF LockHoldersAreConnected
    <3>3. q \in holds' /\ pc'[q] = pc[q]
      BY <1>a, <1>9, <3>1, <3>2 DEF Close, Goes, TypeOK
    <3> QED  BY <2>2, <3>2, <3>3
  <2>7. LockersAreConnected'
    BY <1>a, <1>9 DEF LockersAreConnected, Close, Goes, TypeOK
  <2> QED  BY <2>3, <2>5, <2>6, <2>7 DEF Inv
<1>10. ASSUME NEW r \in Requests, CheckoutTimeout(r)  PROVE Inv'
  <2>1. /\ pc[r] \in {"connect", "refresh"} /\ pc' = [pc EXCEPT ![r] = "returned"]
        /\ UNCHANGED <<locked, lock, shares, holds>>
    BY <1>10 DEF CheckoutTimeout, Goes, KeepsLocks
  <2> QED
    BY <1>a, <2>1
    DEF Inv, TypeOK, WaitersHoldNothing, LockHoldersAreConnected, LockersAreConnected, Owns
<1>11. ASSUME NEW r \in Requests, Validate(r)  PROVE Inv'
  BY <1>a, <1>11
  DEF Inv, TypeOK, WaitersHoldNothing, LockHoldersAreConnected, LockersAreConnected,
      Owns, Validate, Goes, KeepsLocks
<1>12. CASE UNCHANGED vars
  BY <1>a, <1>12
  DEF Inv, TypeOK, WaitersHoldNothing, LockHoldersAreConnected, LockersAreConnected,
      Owns, vars
<1> QED
  BY <1>1, <1>2, <1>3, <1>4, <1>5, <1>6, <1>7, <1>8, <1>9, <1>10, <1>11,
     <1>12 DEF Next, Step

\* The strengthened invariant holds in every reachable state.
LEMMA InvHolds == Spec => [](Inv /\ OwnersHaveLocked)
<1>1. Init => OwnersHaveLocked
  BY ResourcesAssumption DEF Init, OwnersHaveLocked, Owns
<1>2. Inv /\ OwnersHaveLocked /\ [Next]_vars => OwnersHaveLocked'  BY OwnersHaveLockedNext
<1> QED  BY <1>1, <1>2, InvInit, InvNext, PTL DEF Spec

\* The pool never hands out more connections than it has, whatever the load.
THEOREM PoolIsBounded == Spec => []TypeOK
<1>1. Inv => TypeOK  BY DEF Inv
<1> QED  BY <1>1, InvHolds, PTL

\* Requests wait for their first and their second checkout without a connection and
\* without a row lock, and for a thread without a row lock: what a request in
\* db.refresh or in front of the validation of its answer keeps is no writer's row.
THEOREM WaitsKeepNoRow == Spec => []WaitersHoldNothing
<1>1. Inv => WaitersHoldNothing  BY DEF Inv
<1> QED  BY <1>1, InvHolds, PTL

\* Whoever holds a row lock has the connection it needs to give it back, and no
\* row is locked FOR UPDATE and FOR KEY SHARE at once, so every row lock ends
\* without a wait for the pool.
THEOREM LockOwnersAreConnected == Spec => []LockHoldersAreConnected
<1>1. Inv => LockHoldersAreConnected  BY DEF Inv
<1> QED  BY <1>1, InvHolds, PTL

-------------------------------------------------------------------------------
(***************************************************************************)
(* Where requests wait.  Whoever has a row lock runs on, so nobody stands  *)
(* still for a row; what is left is threads against connections.           *)
(***************************************************************************)
\* A writer that has its row can go on.
LEMMA WritersGoOn ==
  ASSUME Inv, OwnersHaveLocked, NEW s \in Sessions, lock[s] # None
  PROVE  CanStep(lock[s])
<1> DEFINE w == lock[s]
<1>1. w \in Writers /\ w \in Requests /\ Owns(w, s)
  BY ResourcesAssumption DEF Inv, TypeOK, Owns
<1>2. pc[w] \in {"lock", "work", "returned"} /\ locked[w] # 0
  BY <1>1 DEF Inv, LockHoldersAreConnected, OwnersHaveLocked
<1>3. pc[w] # "lock"
  <2>1. Len(Rows(w)) = 1  BY <1>1, ResourcesAssumption
  <2>2. locked[w] \in Nat /\ (pc[w] = "lock" => locked[w] < 1)
    BY <1>1, <2>1 DEF Inv, TypeOK, LockersAreConnected
  <2> QED  BY <1>2, <2>2
<1> QED  BY <1>2, <1>3 DEF CanStep

\* Where a request waits for a row, somebody can go on: itself, the writer that has
\* the row, a comparison that has it, or the writer that this comparison waits for.
LEMMA RowWaitersEnd ==
  ASSUME Inv, OwnersHaveLocked, NEW r \in Requests, pc[r] = "lock"
  PROVE  \E q \in Requests : CanStep(q)
<1> DEFINE s == Rows(r)[locked[r] + 1]
<1>1. s \in Sessions  BY NextRow
<1>2. \A u \in Sessions : lock[u] # None => lock[u] \in Requests
  BY ResourcesAssumption DEF Inv, TypeOK
<1>3. CASE lock[s] # None  BY <1>1, <1>2, <1>3, WritersGoOn
<1>4. CASE lock[s] = None /\ shares[s] # {}
  <2>1. PICK k \in shares[s] : TRUE  BY <1>4
  <2>2. k \in Requests /\ k \notin Writers /\ Owns(k, s)
    BY <1>1, <2>1 DEF Inv, TypeOK, Owns
  <2>3. pc[k] \in {"lock", "work", "returned"}
    BY <1>1, <2>2 DEF Inv, LockHoldersAreConnected
  <2>4. CASE pc[k] # "lock"  BY <2>2, <2>3, <2>4 DEF CanStep
  <2>5. CASE pc[k] = "lock"
    <3> DEFINE u == Rows(k)[locked[k] + 1]
    <3>1. u \in Sessions  BY <2>2, <2>5, NextRow
    <3>2. CASE lock[u] # None  BY <1>2, <3>1, <3>2, WritersGoOn
    <3>3. CASE lock[u] = None
      <4>1. RowIsFree(k)  BY <2>2, <3>3 DEF RowIsFree
      <4> QED  BY <2>2, <2>5, <4>1 DEF CanStep
    <3> QED  BY <3>2, <3>3
  <2> QED  BY <2>4, <2>5
<1>5. CASE lock[s] = None /\ shares[s] = {}
  <2>1. RowIsFree(r)  BY <1>5 DEF RowIsFree
  <2> QED  BY <2>1 DEF CanStep
<1> QED  BY <1>3, <1>4, <1>5

\* Where nobody can go on, the handlers wait for a connection.
LEMMA HandlersWaitForThePool ==
  ASSUME Inv, OwnersHaveLocked, \A q \in Requests : ~CanStep(q), NEW r \in InHandler
  PROVE  pc[r] \in {"connect", "refresh"}
<1>1. r \in Requests /\ pc[r] \in {"connect", "lock", "work", "refresh"}
  BY DEF InHandler, Inv, TypeOK
<1>2. pc[r] # "lock"  BY <1>1, RowWaitersEnd
<1>3. pc[r] # "work"  BY <1>1 DEF CanStep
<1> QED  BY <1>1, <1>2, <1>3

\* And whoever has a connection waits for a thread to validate its answer.
LEMMA ConnectionsWaitForThreads ==
  ASSUME Inv, OwnersHaveLocked, \A q \in Requests : ~CanStep(q), NEW r \in holds
  PROVE  pc[r] = "validate"
<1>1. r \in Requests  BY DEF Inv, TypeOK
<1>2. pc[r] \in {"lock", "work", "validate", "returned"}
  BY <1>1 DEF Inv, TypeOK, WaitersHoldNothing
<1>3. pc[r] # "lock"  BY <1>1, RowWaitersEnd
<1>4. pc[r] \notin {"work", "returned"}  BY <1>1 DEF CanStep
<1> QED  BY <1>2, <1>3, <1>4

\* And no row is locked.
LEMMA NoRowInAStandstill ==
  ASSUME Inv, OwnersHaveLocked, \A q \in Requests : ~CanStep(q), NEW s \in Sessions
  PROVE  lock[s] = None /\ shares[s] = {}
<1>1. \A r \in Requests : ~Owns(r, s)
  <2> SUFFICES ASSUME NEW r \in Requests, Owns(r, s)  PROVE FALSE  OBVIOUS
  <2>1. r \in holds /\ pc[r] # "validate"  BY DEF Inv, LockHoldersAreConnected
  <2> QED  BY <2>1, ConnectionsWaitForThreads
<1>2. lock[s] \in Requests \cup {None} /\ shares[s] \subseteq Requests
  BY ResourcesAssumption DEF Inv, TypeOK
<1> QED  BY <1>1, <1>2 DEF Owns

\* Whatever the load, requests stand still only where handlers with all the threads
\* wait for connections, and the requests that have these for a thread; then the
\* checkouts of the former end in their timeout.  Row locks never take part, with
\* one thread and one connection, and with comparisons in opposite order.
THEOREM StandstillsTimeOut == Spec => []OnlyCheckoutsStandStill
<1>1. Inv /\ OwnersHaveLocked => OnlyCheckoutsStandStill
  <2> SUFFICES ASSUME Inv, OwnersHaveLocked, Standstill
               PROVE  /\ InHandler # {}
                      /\ \A r \in InHandler : pc[r] \in {"connect", "refresh"}
                      /\ ~FreeConnection /\ \A r \in holds : pc[r] = "validate"
                      /\ \A s \in Sessions : lock[s] = None /\ shares[s] = {}
    BY DEF OnlyCheckoutsStandStill
  <2>1. \A q \in Requests : ~CanStep(q)  BY DEF Standstill
  <2>2. \A r \in InHandler : pc[r] \in {"connect", "refresh"}
    BY <2>1, HandlersWaitForThePool
  <2>3. \A r \in holds : pc[r] = "validate"  BY <2>1, ConnectionsWaitForThreads
  <2>4. \A s \in Sessions : lock[s] = None /\ shares[s] = {}
    BY <2>1, NoRowInAStandstill
  <2>5. InHandler # {}
    <3> SUFFICES ASSUME InHandler = {}  PROVE FALSE  OBVIOUS
    <3>1. FreeThread
      <4>1. Cardinality({}) = 0  BY FS_EmptySet
      <4> QED  BY <4>1, ResourcesAssumption DEF FreeThread
    <3>2. PICK r \in Requests : pc[r] # "away"  BY DEF Standstill
    <3>3. pc[r] \in {"queued", "validate", "returned"}
      BY <3>2 DEF InHandler, Inv, TypeOK
    <3> QED  BY <2>1, <3>1, <3>2, <3>3 DEF CanStep
  <2>6. ~FreeConnection
    <3>1. PICK r \in InHandler : pc[r] \in {"connect", "refresh"}  BY <2>2, <2>5
    <3>2. r \in Requests  BY DEF InHandler
    <3> QED  BY <2>1, <3>1, <3>2 DEF CanStep
  <2> QED  BY <2>2, <2>3, <2>4, <2>5, <2>6
<1> QED  BY <1>1, InvHolds, PTL
==============================================================================
