---------------------------- MODULE Ingest_proofs ----------------------------
(***************************************************************************)
(* The safety of Ingest for every set of sessions, workers, registrations  *)
(* and requests, every length bound and every digest function.             *)
(*                                                                         *)
(* First the tables.  The argument is the inductive invariant Inv of       *)
(* IngestInvariant.  A step of a worker leaves the other workers' part of  *)
(* it alone, because they own other sessions (OtherWorkersKeep); a flush   *)
(* must leave the archive it is going to commit sound (PutAppendStep,      *)
(* CompactRewriteStep); the commit then only makes that archive the stored *)
(* one (CommitStep).                                                       *)
(*                                                                         *)
(* Then what clients may rely on: terminal sessions stay as they are, the  *)
(* audit trail has one seal, acknowledged chunks stay archived, identical  *)
(* resends are honoured and readers see whole layouts.  PromiseInv adds to *)
(* Inv what is certain at each place of a handler.  The other workers'     *)
(* facts survive a step because packages only grow (StepKeepsBytes),       *)
(* terminal rows do not change (StepIsFinal) and a lock keeps the tables   *)
(* of its session (OthersKeepPromises); what is left is one lemma per      *)
(* action about the worker that took it.                                   *)
(***************************************************************************)
EXTENDS PromiseInvariant, ChunkLayout_proofs

-------------------------------------------------------------------------------
\* _next_audit_sequence counts the audit rows of a trail without gaps.
LEMMA NextSequenceCounts ==
  ASSUME NEW s \in Sessions, Numbered(audit_events[s])
  PROVE  /\ Cardinality(audit_events[s]) \in Nat
         /\ NextAuditSequence(s) = Cardinality(audit_events[s]) + 1
<1> DEFINE A == audit_events[s]
           n == Cardinality(A)
<1>1. n \in Nat /\ {f.sequence : f \in A} = 1..n
  BY FS_CardinalityType DEF Numbered
<1>2. {f.sequence : f \in A} \cup {0} = 0..n  BY <1>1
<1>3. \A k \in Nat : Max(0..k) = k  BY DEF Max
<1> QED  BY <1>1, <1>2, <1>3 DEF NextAuditSequence

\* The audit row numbered by _next_audit_sequence continues the trail.
LEMMA NextSequenceContinues ==
  ASSUME NEW s \in Sessions, Numbered(audit_events[s]),
         NEW STATE e, e.sequence = NextAuditSequence(s)
  PROVE  /\ NextAuditSequence(s) \in Nat \ {0}
         /\ \A f \in audit_events[s] : e.sequence # f.sequence
         /\ Numbered(audit_events[s] \cup {e})
<1> DEFINE A == audit_events[s]
           n == Cardinality(A)
<1>1. n \in Nat /\ IsFiniteSet(A) /\ {f.sequence : f \in A} = 1..n
  BY FS_CardinalityType DEF Numbered
<1>4. NextAuditSequence(s) = n + 1  BY NextSequenceCounts
<1>5. \A f \in A : f.sequence \in 1..n  BY <1>1
<1>6. \A f \in A : e.sequence # f.sequence  BY <1>1, <1>4, <1>5
<1>7. e \notin A  BY <1>6
<1>8. IsFiniteSet(A \cup {e}) /\ Cardinality(A \cup {e}) = n + 1
  BY <1>1, <1>7, FS_AddElement
<1>9. {f.sequence : f \in A \cup {e}} = 1..(n + 1)
  <2>1. {f.sequence : f \in A \cup {e}} = {f.sequence : f \in A} \cup {e.sequence}
    OBVIOUS
  <2> QED  BY <2>1, <1>1, <1>4
<1>10. Numbered(A \cup {e})  BY <1>8, <1>9 DEF Numbered
<1>11. NextAuditSequence(s) \in Nat \ {0}  BY <1>1, <1>4
<1> QED  BY <1>6, <1>10, <1>11

\* Requests of the three kinds.
LEMMA RequestFacts ==
  ASSUME NEW r \in Requests
  PROVE  /\ r \in Request /\ r # None /\ r.session \in Sessions
         /\ r.kind = "put" => r \in PutRequest
         /\ r.kind = "compact" => r \in CompactRequest
<1>1. r \in Request  BY RequestsAssumption
<1> QED  BY <1>1, NoneIsDistinct DEF Request, PutRequest, CompactRequest, ReadRequest

\* What the type invariant says of one worker.
LEMMA WorkerFacts ==
  ASSUME TypeOK, NEW w \in Workers
  PROVE  /\ worker[w] \in WorkerState
         /\ w # None
         /\ worker[w].req # None => worker[w].req \in Requests /\ Target(w) \in Sessions
  BY NoneIsDistinct, RequestFacts DEF TypeOK, WorkerState, Target

-------------------------------------------------------------------------------
\* A worker keeps its part of the invariant while another one steps: its state
\* and its locks are as before, and so are the tables of the session it locks.
LEMMA OtherWorkersKeep ==
  ASSUME Inv, NEW v \in Workers,
         worker'[v] = worker[v],
         \A s \in Sessions : lock'[s] = v <=> lock[s] = v,
         \A s \in Sessions : lock[s] = v =>
           /\ upload_sessions'[s] = upload_sessions[s]
           /\ chunks'[s] = chunks[s]
           /\ audit_events'[s] = audit_events[s],
         \A s \in Sessions : Registered(s) => upload_sessions'[s] # None
  PROVE  WorkerInv(v)'
<1>1. TypeOK /\ WorkerInv(v)  BY DEF Inv
<1>2. worker[v].req # None => Target(v) \in Sessions  BY <1>1, WorkerFacts
<1>3. worker[v].pc # "idle" => worker[v].req # None  BY <1>1 DEF WorkerInv, RequestKnown
<1>4. RequestKnown(v)'
  <2>1. RequestKnown(v)  BY <1>1 DEF WorkerInv
  <2>2. RequestError(worker[v].req)' = RequestError(worker[v].req)
    BY DEF RequestError
  <2> QED  BY <2>1, <2>2, <1>2, <1>3 DEF RequestKnown, IsWriter, Target, Registered
<1>5. LockOwned(v)'
  <2>1. LockOwned(v)  BY <1>1 DEF WorkerInv
  <2> QED  BY <2>1 DEF LockOwned, Target, Registered
<1>6. Owns(v)'
  <2>1. Owns(v)  BY <1>1 DEF WorkerInv
  <2> QED  BY <2>1, <1>2, <1>3 DEF Owns, Target
<1>7. LoadedIsFresh(v)'
  <2>1. LoadedIsFresh(v) /\ Owns(v) /\ LockOwned(v)  BY <1>1 DEF WorkerInv
  <2>2. Fresh(v)' <=> Fresh(v)  BY DEF Fresh
  <2>3. Fresh(v) => Target(v) \in Sessions /\ lock[Target(v)] = v
    BY <2>1, <1>2, <1>3 DEF Fresh, Owns, LockOwned
  <2> QED  BY <2>1, <2>2, <2>3 DEF LoadedIsFresh, Target
<1>8. CommitIsSound(v)'
  <2> SUFFICES ASSUME worker[v].pc = "commit"  PROVE CommitIsSound(v)'
    BY DEF CommitIsSound
  <2>1. CommitIsSound(v) /\ Owns(v)  BY <1>1 DEF WorkerInv
  <2>2. Target(v) \in Sessions /\ lock[Target(v)] = v /\ Target(v)' = Target(v)
    BY <2>1, <1>2, <1>3 DEF Owns, Target
  <2>3. /\ upload_sessions'[Target(v)] = upload_sessions[Target(v)]
        /\ chunks'[Target(v)] = chunks[Target(v)]
        /\ audit_events'[Target(v)] = audit_events[Target(v)]
    BY <2>2
  <2>4. RowAfter(v)' = RowAfter(v) /\ ChunksAfter(v)' = ChunksAfter(v)
    BY <2>2, <2>3 DEF RowAfter, ChunksAfter
  <2>5. FlushIsUnique(v)' <=> FlushIsUnique(v)  BY <2>2, <2>3 DEF FlushIsUnique
  <2> QED  BY <2>1, <2>2, <2>3, <2>4, <2>5 DEF CommitIsSound
<1> QED  BY <1>4, <1>5, <1>6, <1>7, <1>8 DEF WorkerInv

\* A step that leaves the tables alone preserves Inv if it preserves the types
\* and the part of its own worker.
LEMMA TablesUntouched ==
  ASSUME Inv, NEW w \in Workers,
         UNCHANGED <<upload_sessions, chunks, audit_events>>,
         lock' \in [Sessions -> {None} \cup Workers],
         worker' \in [Workers -> WorkerState],
         \A v \in Workers \ {w} : worker'[v] = worker[v],
         \A s \in Sessions : \A v \in Workers \ {w} : lock'[s] = v <=> lock[s] = v,
         WorkerInv(w)'
  PROVE  Inv'
<1>1. TypeOK'  BY DEF Inv, TypeOK
<1>2. CheckpointMatchesArchive'
  BY DEF Inv, CheckpointMatchesArchive, Registered
<1>3. VerdictIsTrue'  BY DEF Inv, VerdictIsTrue, Registered
<1>4. (\A s \in Sessions : Numbered(audit_events[s]))'  BY DEF Inv
<1>5. ASSUME NEW v \in Workers  PROVE WorkerInv(v)'
  <2>1. CASE v = w  BY <2>1
  <2>2. CASE v # w
    <3>1. \A s \in Sessions : Registered(s) => upload_sessions'[s] # None
      BY DEF Registered
    <3> QED  BY <2>2, <3>1, OtherWorkersKeep
  <2> QED  BY <2>1, <2>2
<1> QED  BY <1>1, <1>2, <1>3, <1>4, <1>5 DEF Inv

-------------------------------------------------------------------------------
\* A step that answers: no lock is taken, the request and the row stay known.
\* It covers every refusal, every read and every failure.
LEMMA Answered ==
  ASSUME Inv, NEW w \in Workers,
         UNCHANGED <<upload_sessions, chunks, audit_events>>,
         worker' \in [Workers -> WorkerState],
         \A v \in Workers \ {w} : worker'[v] = worker[v],
         worker'[w].pc = "done",
         worker'[w].req = worker[w].req,
         worker[w].pc # "idle",
         \/ lock' = Unlocked(w)
         \/ /\ lock' = lock
            /\ \/ worker'[w].code = "server_error"
               \/ worker'[w].loaded = worker[w].loaded /\ worker[w].pc = "handle"
               \/ worker[w].pc \notin {"handle", "commit", "done"}
  PROVE  Inv'
<1>1. TypeOK /\ WorkerInv(w) /\ w # None  BY NoneIsDistinct DEF Inv
<1>2. /\ worker[w].req # None
      /\ \A s \in Sessions : lock[s] = w =>
           worker[w].pc \in {"handle", "commit", "done"} /\ Target(w) = s /\ Registered(s)
      /\ LoadedIsFresh(w)
  BY <1>1 DEF WorkerInv, RequestKnown, LockOwned
<1>3. /\ lock' \in [Sessions -> {None} \cup Workers]
      /\ \A s \in Sessions : \A v \in Workers \ {w} : lock'[s] = v <=> lock[s] = v
      /\ \A s \in Sessions : lock'[s] = w => lock[s] = w /\ lock' = lock
  BY <1>1, NoneIsDistinct DEF TypeOK, Unlocked
<1>4. WorkerInv(w)'
  <2>1. RequestKnown(w)'  BY <1>2 DEF RequestKnown
  <2>2. LockOwned(w)'  BY <1>2, <1>3 DEF LockOwned, Target, Registered
  <2>3. Owns(w)'  BY DEF Owns
  <2>4. LoadedIsFresh(w)'
    <3> SUFFICES ASSUME worker'[w].code # "server_error",
                        NEW s \in Sessions, lock'[s] = w
                 PROVE  worker'[w].loaded = upload_sessions'[Target(w)']
      BY DEF LoadedIsFresh, Fresh
    <3>1. lock[s] = w /\ lock' = lock  BY <1>3
    <3>2. worker[w].pc = "handle" /\ worker'[w].loaded = worker[w].loaded
      BY <3>1, <1>1, <1>2 DEF Unlocked
    <3>3. worker[w].loaded = upload_sessions[Target(w)]
      BY <3>2, <1>2 DEF LoadedIsFresh, Fresh
    <3> QED  BY <3>2, <3>3 DEF Target
  <2>5. CommitIsSound(w)'  BY DEF CommitIsSound
  <2> QED  BY <2>1, <2>2, <2>3, <2>4, <2>5 DEF WorkerInv
<1> QED  BY <1>3, <1>4, TablesUntouched

-------------------------------------------------------------------------------
(***************************************************************************)
(* The steps that leave the tables alone.                                  *)
(***************************************************************************)
\* Receiving a request.
LEMMA ReceiveStep ==
  ASSUME Inv, NEW w \in Workers, NEW r \in Requests, Receive(w, r)
  PROVE  Inv'
<1>1. TypeOK /\ WorkerInv(w) /\ w # None  BY NoneIsDistinct DEF Inv
<1>2. r # None /\ worker[w] \in WorkerState /\ worker[w].pc = "idle"
  BY <1>1, RequestFacts, WorkerFacts DEF Receive
<1>3. /\ worker' = [worker EXCEPT ![w].pc = "select", ![w].req = r]
      /\ UNCHANGED <<upload_sessions, chunks, audit_events, lock>>
      /\ RequestError(r) = None
  BY DEF Receive
<1>4. /\ worker' \in [Workers -> WorkerState]
      /\ worker'[w].pc = "select" /\ worker'[w].req = r
      /\ \A v \in Workers \ {w} : worker'[v] = worker[v]
  BY <1>1, <1>2, <1>3 DEF TypeOK, WorkerState
<1>5. \A s \in Sessions : lock[s] # w
  BY <1>1, <1>2 DEF WorkerInv, LockOwned
<1>6. WorkerInv(w)'
  <2>1. RequestError(worker[w].req)' = RequestError(r)  BY <1>4 DEF RequestError
  <2>2. RequestKnown(w)'  BY <1>2, <1>3, <1>4, <2>1 DEF RequestKnown
  <2>3. LockOwned(w)'  BY <1>3, <1>5 DEF LockOwned
  <2>4. Owns(w)' /\ LoadedIsFresh(w)' /\ CommitIsSound(w)'
    BY <1>4 DEF Owns, LoadedIsFresh, Fresh, CommitIsSound
  <2> QED  BY <2>2, <2>3, <2>4 DEF WorkerInv
<1>7. lock' \in [Sessions -> {None} \cup Workers]  BY <1>1, <1>3 DEF TypeOK
<1> QED  BY <1>3, <1>4, <1>6, <1>7, TablesUntouched

\* Rejecting one: the code is a string, and nothing was locked.
LEMMA RejectStep ==
  ASSUME Inv, NEW w \in Workers, NEW r \in Requests, Reject(w, r)
  PROVE  Inv'
<1>1. TypeOK /\ WorkerInv(w) /\ w # None  BY NoneIsDistinct DEF Inv
<1>2. r # None /\ worker[w] \in WorkerState /\ worker[w].pc = "idle"
  BY <1>1, RequestFacts, WorkerFacts DEF Reject
<1>3. /\ worker' = [worker EXCEPT ![w].pc = "done", ![w].req = r,
                                  ![w].code = RequestError(r)]
      /\ UNCHANGED <<upload_sessions, chunks, audit_events, lock>>
      /\ RequestError(r) # None
  BY DEF Reject
<1>4. RequestError(r) \in {None} \cup Codes
  <2>1. r.kind \in {"put", "compact", "session", "chunks", "content", "audit"}
    BY RequestFacts DEF Request, PutRequest, CompactRequest, ReadRequest
  <2> QED  BY <2>1 DEF Codes, RequestError
<1>5. /\ worker' \in [Workers -> WorkerState]
      /\ worker'[w].pc = "done" /\ worker'[w].req = r
      /\ \A v \in Workers \ {w} : worker'[v] = worker[v]
  BY <1>1, <1>2, <1>3, <1>4, ZenonT(60) DEF TypeOK, WorkerState, Codes
<1>6. \A s \in Sessions : lock[s] # w
  BY <1>1, <1>2 DEF WorkerInv, LockOwned
<1>7. WorkerInv(w)'
  <2>1. RequestKnown(w)'  BY <1>2, <1>5 DEF RequestKnown
  <2>2. LockOwned(w)'  BY <1>3, <1>6 DEF LockOwned
  <2>3. LoadedIsFresh(w)'  BY <1>3, <1>5, <1>6 DEF LoadedIsFresh, Fresh
  <2>4. Owns(w)' /\ CommitIsSound(w)'  BY <1>5 DEF Owns, CommitIsSound
  <2> QED  BY <2>1, <2>2, <2>3, <2>4 DEF WorkerInv
<1>8. lock' \in [Sessions -> {None} \cup Workers]  BY <1>1, <1>3 DEF TypeOK
<1> QED  BY <1>3, <1>5, <1>7, <1>8, TablesUntouched

\* Granting the row lock: the row that is read is the committed one.
LEMMA LockSessionStep ==
  ASSUME Inv, NEW w \in Workers, LockSession(w)
  PROVE  Inv'
<1>1. TypeOK /\ WorkerInv(w) /\ w # None  BY NoneIsDistinct DEF Inv
<1>2. /\ worker[w].pc = "select" /\ IsWriter(w)
      /\ upload_sessions[Target(w)] # None
      /\ lock[Target(w)] = None
      /\ lock' = [lock EXCEPT ![Target(w)] = w]
      /\ worker' = [worker EXCEPT ![w].pc = "handle",
                                  ![w].loaded = upload_sessions[Target(w)]]
      /\ UNCHANGED <<upload_sessions, chunks, audit_events>>
  BY DEF LockSession
<1>3. /\ worker[w].req # None /\ RequestError(worker[w].req) = None
      /\ worker[w].req \in Requests /\ Target(w) \in Sessions
      /\ worker[w] \in WorkerState
  BY <1>1, <1>2, WorkerFacts DEF WorkerInv, RequestKnown
<1>4. /\ worker' \in [Workers -> WorkerState]
      /\ worker'[w].pc = "handle"
      /\ worker'[w].req = worker[w].req
      /\ worker'[w].loaded = upload_sessions[Target(w)]
      /\ \A v \in Workers \ {w} : worker'[v] = worker[v]
  BY <1>1, <1>2, <1>3 DEF TypeOK, WorkerState
<1>5. \A s \in Sessions : lock[s] # w
  BY <1>1, <1>2 DEF WorkerInv, LockOwned
<1>6. /\ lock' \in [Sessions -> {None} \cup Workers]
      /\ \A s \in Sessions : lock'[s] = IF s = Target(w) THEN w ELSE lock[s]
  BY <1>1, <1>2, <1>3 DEF TypeOK
<1>7. WorkerInv(w)'
  <2>1. worker[w].req.kind = "compact" => worker[w].req.target_chunk_bytes > 0
    <3> SUFFICES ASSUME worker[w].req.kind = "compact"
                 PROVE  worker[w].req.target_chunk_bytes > 0
      OBVIOUS
    <3>1. worker[w].req.target_chunk_bytes \in Int
      BY <1>3, RequestFacts DEF CompactRequest
    <3>2. ~(worker[w].req.target_chunk_bytes <= 0)
      BY <1>3, NoneIsDistinct DEF RequestError, Codes
    <3> QED  BY <3>1, <3>2
  <2>2. RequestKnown(w)'
    BY <1>2, <1>3, <1>4, <2>1 DEF RequestKnown, IsWriter, Target, Registered
  <2>3. LockOwned(w)'
    BY <1>2, <1>3, <1>4, <1>5, <1>6 DEF LockOwned, Target, Registered
  <2>4. Owns(w)'  BY <1>3, <1>4, <1>6 DEF Owns, Target
  <2>5. LoadedIsFresh(w)'  BY <1>2, <1>4 DEF LoadedIsFresh, Fresh, Target
  <2>6. CommitIsSound(w)'  BY <1>4 DEF CommitIsSound
  <2> QED  BY <2>2, <2>3, <2>4, <2>5, <2>6 DEF WorkerInv
<1>8. \A s \in Sessions : \A v \in Workers \ {w} : lock'[s] = v <=> lock[s] = v
  BY <1>1, <1>2, <1>3, <1>6, NoneIsDistinct
<1> QED  BY <1>2, <1>4, <1>6, <1>7, <1>8, TablesUntouched

\* The answers that give no lock back, and the ones that do.
LEMMA AnswerSteps ==
  ASSUME Inv, NEW w \in Workers,
         \/ LockMissing(w) \/ PutRefuse(w) \/ PutReplay(w)
         \/ CompactRefuse(w) \/ CompactRollback(w) \/ DbError(w)
         \/ ReadAudit(w) \/ ReadChunks(w) \/ ReadContent(w)
  PROVE  Inv'
<1>1. TypeOK /\ WorkerInv(w) /\ worker[w] \in WorkerState
  BY WorkerFacts DEF Inv
<1>2. worker \in [Workers -> WorkerState]  BY <1>1 DEF TypeOK
<1>3. worker[w].pc # "idle" => worker[w].req # None /\ Target(w) \in Sessions
  BY <1>1, WorkerFacts DEF WorkerInv, RequestKnown
<1>4. CASE LockMissing(w)
  <2>1. /\ worker[w].pc = "select"
        /\ worker' = [worker EXCEPT ![w].pc = "done", ![w].code = "session_not_found"]
        /\ UNCHANGED <<upload_sessions, chunks, audit_events>>
        /\ lock' = lock
    BY <1>4 DEF LockMissing
  <2>2. worker' \in [Workers -> WorkerState]
    BY <1>1, <1>2, <2>1 DEF WorkerState, Codes
  <2>3. /\ worker'[w].pc = "done" /\ worker'[w].req = worker[w].req
        /\ \A v \in Workers \ {w} : worker'[v] = worker[v]
    BY <1>1, <1>2, <2>1 DEF WorkerState
  <2> QED  BY <2>1, <2>2, <2>3, Answered
<1>5. CASE PutRefuse(w)
  <2>0. Verdict(w) \in Codes
    BY <1>5 DEF PutRefuse, Codes, Verdict, PutVerdict, ActiveVerdict, TerminalVerdict
  <2>1. /\ worker[w].pc = "handle"
        /\ worker' = [worker EXCEPT ![w].pc = "done", ![w].code = Verdict(w)]
        /\ UNCHANGED <<upload_sessions, chunks, audit_events>>
        /\ lock' = lock
    BY <1>5 DEF PutRefuse, Handles
  <2>2. worker' \in [Workers -> WorkerState]
    BY <1>1, <1>2, <2>0, <2>1 DEF WorkerState
  <2>3. /\ worker'[w].pc = "done" /\ worker'[w].req = worker[w].req
        /\ \A v \in Workers \ {w} : worker'[v] = worker[v]
    BY <1>1, <1>2, <2>1 DEF WorkerState
  <2>4. worker'[w].loaded = worker[w].loaded  BY <1>1, <1>2, <2>1 DEF WorkerState
  <2> QED  BY <2>1, <2>2, <2>3, <2>4, Answered
<1>6. CASE PutReplay(w)
  <2>1. /\ worker[w].pc = "handle"
        /\ worker' = [worker EXCEPT ![w].pc = "done", ![w].code = "replayed"]
        /\ UNCHANGED <<upload_sessions, chunks, audit_events>>
        /\ lock' = Unlocked(w)
    BY <1>6 DEF PutReplay, Handles
  <2>2. worker' \in [Workers -> WorkerState]
    BY <1>1, <1>2, <2>1 DEF WorkerState, Codes
  <2>3. /\ worker'[w].pc = "done" /\ worker'[w].req = worker[w].req
        /\ \A v \in Workers \ {w} : worker'[v] = worker[v]
    BY <1>1, <1>2, <2>1 DEF WorkerState
  <2> QED  BY <2>1, <2>2, <2>3, Answered
<1>7. CASE CompactRefuse(w)
  <2>1. /\ worker[w].pc = "handle"
        /\ worker' = [worker EXCEPT ![w].pc = "done",
                                    ![w].code = "compaction_state_conflict"]
        /\ UNCHANGED <<upload_sessions, chunks, audit_events>>
        /\ lock' = lock
    BY <1>7 DEF CompactRefuse, Handles
  <2>2. worker' \in [Workers -> WorkerState]
    BY <1>1, <1>2, <2>1 DEF WorkerState, Codes
  <2>3. /\ worker'[w].pc = "done" /\ worker'[w].req = worker[w].req
        /\ \A v \in Workers \ {w} : worker'[v] = worker[v]
    BY <1>1, <1>2, <2>1 DEF WorkerState
  <2>4. worker'[w].loaded = worker[w].loaded  BY <1>1, <1>2, <2>1 DEF WorkerState
  <2> QED  BY <2>1, <2>2, <2>3, <2>4, Answered
<1>8. CASE CompactRollback(w)
  <2> DEFINE error == CompactError(worker[w].loaded, chunks[Target(w)],
                                   worker[w].req.target_chunk_bytes)
  <2>0. error \in {None} \cup Codes  BY DEF Codes, CompactError
  <2> HIDE DEF error
  <2>1. /\ worker[w].pc = "handle"
        /\ worker' = [worker EXCEPT ![w].pc = "done", ![w].code = error]
        /\ UNCHANGED <<upload_sessions, chunks, audit_events>>
        /\ lock' = Unlocked(w)
    BY <1>8 DEF CompactRollback, Compacts, Handles, error
  <2>2. worker' \in [Workers -> WorkerState]
    BY <1>1, <1>2, <2>0, <2>1 DEF WorkerState
  <2>3. /\ worker'[w].pc = "done" /\ worker'[w].req = worker[w].req
        /\ \A v \in Workers \ {w} : worker'[v] = worker[v]
    BY <1>1, <1>2, <2>1 DEF WorkerState
  <2> QED  BY <2>1, <2>2, <2>3, Answered
<1>9. CASE DbError(w)
  <2>1. /\ worker[w].pc # "idle"
        /\ worker' = [worker EXCEPT ![w].pc = "done", ![w].pending = None,
                                    ![w].code = "server_error"]
        /\ UNCHANGED <<upload_sessions, chunks, audit_events>>
        /\ lock' = lock \/ lock' = Unlocked(w)
    BY <1>9 DEF DbError, InProgress
  <2>2. worker' \in [Workers -> WorkerState]
    BY <1>1, <1>2, <2>1, ZenonT(60) DEF WorkerState, Codes
  <2>3. /\ worker'[w].pc = "done" /\ worker'[w].req = worker[w].req
        /\ \A v \in Workers \ {w} : worker'[v] = worker[v]
    BY <1>1, <1>2, <2>1 DEF WorkerState
  <2>4. worker'[w].code = "server_error"  BY <1>1, <1>2, <2>1 DEF WorkerState
  <2> QED  BY <2>1, <2>2, <2>3, <2>4, Answered
<1>10. CASE ReadAudit(w)
  <2>0. audit_events[Target(w)] \subseteq AuditEvent
    BY <1>1, <1>3, <1>10 DEF TypeOK, ReadAudit
  <2>1. /\ worker[w].pc = "rows"
        /\ worker' = [worker EXCEPT ![w].pc = "done", ![w].code = "ok",
                                    ![w].fetched = audit_events[Target(w)]]
        /\ UNCHANGED <<upload_sessions, chunks, audit_events>>
        /\ lock' = lock
    BY <1>10 DEF ReadAudit
  <2>2. worker' \in [Workers -> WorkerState]
    BY <1>1, <1>2, <2>0, <2>1 DEF WorkerState, Codes
  <2>3. /\ worker'[w].pc = "done" /\ worker'[w].req = worker[w].req
        /\ \A v \in Workers \ {w} : worker'[v] = worker[v]
    BY <1>1, <1>2, <2>1 DEF WorkerState
  <2> QED  BY <2>1, <2>2, <2>3, Answered
<1>11. CASE ReadChunks(w)
  <2>0. chunks[Target(w)] \subseteq ChunkRow
    BY <1>1, <1>3, <1>11 DEF TypeOK, ReadChunks
  <2>1. /\ worker[w].pc = "rows"
        /\ worker' = [worker EXCEPT ![w].pc = "done", ![w].code = "ok",
                                    ![w].fetched = chunks[Target(w)]]
        /\ UNCHANGED <<upload_sessions, chunks, audit_events>>
        /\ lock' = lock
    BY <1>11 DEF ReadChunks
  <2>2. worker' \in [Workers -> WorkerState]
    BY <1>1, <1>2, <2>0, <2>1 DEF WorkerState, Codes
  <2>3. /\ worker'[w].pc = "done" /\ worker'[w].req = worker[w].req
        /\ \A v \in Workers \ {w} : worker'[v] = worker[v]
    BY <1>1, <1>2, <2>1 DEF WorkerState
  <2> QED  BY <2>1, <2>2, <2>3, Answered
<1>12. CASE ReadContent(w)
  <2> DEFINE row  == worker[w].loaded
             code == IF ArchiveVerifies(chunks[Target(w)], row.total_bytes, row.whole_sha256)
                     THEN "ok" ELSE "sealed_integrity_error"
  <2>0. chunks[Target(w)] \subseteq ChunkRow /\ code \in Codes
    BY <1>1, <1>3, <1>12 DEF Codes, TypeOK, ReadContent
  <2> HIDE DEF code
  <2>1. /\ worker[w].pc = "rows"
        /\ worker' = [worker EXCEPT ![w].pc = "done",
                                    ![w].fetched = chunks[Target(w)], ![w].code = code]
        /\ UNCHANGED <<upload_sessions, chunks, audit_events>>
        /\ lock' = lock
    BY <1>12 DEF ReadContent, code
  <2>2. worker' \in [Workers -> WorkerState]
    BY <1>1, <1>2, <2>0, <2>1 DEF WorkerState
  <2>3. /\ worker'[w].pc = "done" /\ worker'[w].req = worker[w].req
        /\ \A v \in Workers \ {w} : worker'[v] = worker[v]
    BY <1>1, <1>2, <2>1 DEF WorkerState
  <2> QED  BY <2>1, <2>2, <2>3, Answered
<1> QED  BY <1>4, <1>5, <1>6, <1>7, <1>8, <1>9, <1>10, <1>11, <1>12

\* The refresh answers the PUT: the row may be a later one, the lock is gone.
LEMMA RefreshStep ==
  ASSUME Inv, NEW w \in Workers, Refresh(w)
  PROVE  Inv'
<1> DEFINE row  == upload_sessions[Target(w)]
           code == IF EndOf(worker[w].req) = row.total_bytes /\ row.status = "failed"
                   THEN "whole_digest_mismatch" ELSE "ok"
<1>1. TypeOK /\ WorkerInv(w) /\ worker[w] \in WorkerState
  BY WorkerFacts DEF Inv
<1>2. worker \in [Workers -> WorkerState]  BY <1>1 DEF TypeOK
<1>3. code \in Codes  BY DEF Codes
<1>4. row \in {None} \cup UploadSession
  BY <1>1, WorkerFacts DEF TypeOK, WorkerInv, RequestKnown, Refresh
<1>5. /\ worker[w].pc = "refresh"
      /\ worker' = [worker EXCEPT ![w].pc = "done", ![w].loaded = row, ![w].code = code]
      /\ UNCHANGED <<upload_sessions, chunks, audit_events, lock>>
  BY DEF Refresh
<1> HIDE DEF row, code
<1>6. worker' \in [Workers -> WorkerState]
  BY <1>1, <1>2, <1>3, <1>4, <1>5 DEF WorkerState
<1>7. /\ worker'[w].pc = "done" /\ worker'[w].req = worker[w].req
      /\ \A v \in Workers \ {w} : worker'[v] = worker[v]
  BY <1>1, <1>2, <1>5 DEF WorkerState
<1> QED  BY <1>5, <1>6, <1>7, Answered

\* The first statement of a reader answers it or takes it to the second one.
LEMMA ReadSessionStep ==
  ASSUME Inv, NEW w \in Workers, ReadSession(w)
  PROVE  Inv'
<1> DEFINE row  == upload_sessions[Target(w)]
           code == ReadCode(row, worker[w].req)
           next == IF code = None THEN "rows" ELSE "done"
<1>1. TypeOK /\ WorkerInv(w) /\ worker[w] \in WorkerState
  BY WorkerFacts DEF Inv
<1>2. worker \in [Workers -> WorkerState]  BY <1>1 DEF TypeOK
<1>3. code \in {None} \cup Codes  BY DEF ReadCode, Codes
<1>4. /\ worker[w].pc = "select"
      /\ worker' = [worker EXCEPT ![w].loaded = row, ![w].code = code, ![w].pc = next]
      /\ UNCHANGED <<upload_sessions, chunks, audit_events, lock>>
  BY DEF ReadSession
<1>5. row \in {None} \cup UploadSession
  BY <1>1, <1>4, WorkerFacts DEF TypeOK, WorkerInv, RequestKnown
<1>6. next \in {"rows", "done"}  OBVIOUS
<1> HIDE DEF row, code, next
<1>7. worker' \in [Workers -> WorkerState]
  BY <1>1, <1>2, <1>3, <1>4, <1>5, <1>6 DEF WorkerState
<1>8. /\ worker'[w].pc = next /\ worker'[w].req = worker[w].req
      /\ \A v \in Workers \ {w} : worker'[v] = worker[v]
  BY <1>1, <1>2, <1>4 DEF WorkerState
<1>9. CASE next = "done"  BY <1>4, <1>7, <1>8, <1>9, Answered
<1>10. CASE next = "rows"
  <2>1. \A s \in Sessions : lock[s] # w
    BY <1>1, <1>4 DEF WorkerInv, LockOwned
  <2>2. RequestKnown(w)'  BY <1>1, <1>4, <1>8, <1>10 DEF WorkerInv, RequestKnown
  <2>3. LockOwned(w)'  BY <1>4, <2>1 DEF LockOwned
  <2>4. Owns(w)' /\ LoadedIsFresh(w)' /\ CommitIsSound(w)'
    BY <1>8, <1>10 DEF Owns, LoadedIsFresh, Fresh, CommitIsSound
  <2>5. WorkerInv(w)'  BY <2>2, <2>3, <2>4 DEF WorkerInv
  <2>6. lock' \in [Sessions -> {None} \cup Workers]  BY <1>1, <1>4 DEF TypeOK
  <2> QED  BY <1>4, <1>7, <1>8, <2>5, <2>6, TablesUntouched
<1> QED  BY <1>6, <1>9, <1>10

\* An idle worker that holds no lock has nothing to keep.
LEMMA IdleKeeps ==
  ASSUME NEW w \in Workers, worker'[w] = Idle, \A s \in Sessions : lock'[s] # w
  PROVE  WorkerInv(w)'
<1>1. worker'[w].pc = "idle"  BY DEF Idle
<1>2. RequestKnown(w)'  BY <1>1 DEF RequestKnown
<1>3. LockOwned(w)'  BY DEF LockOwned
<1>4. Owns(w)' /\ LoadedIsFresh(w)' /\ CommitIsSound(w)'
  BY <1>1 DEF Owns, LoadedIsFresh, Fresh, CommitIsSound
<1> QED  BY <1>2, <1>3, <1>4 DEF WorkerInv

\* An idle worker is well typed.
LEMMA IdleIsWorkerState == Idle \in WorkerState
  BY DEF Idle, WorkerState

\* Closing the database session gives back what it still held.
LEMMA CloseStep ==
  ASSUME Inv, NEW w \in Workers, Close(w)
  PROVE  Inv'
<1>1. TypeOK /\ w # None  BY NoneIsDistinct DEF Inv
<1>2. /\ lock' = Unlocked(w)
      /\ worker' = [worker EXCEPT ![w] = Idle]
      /\ UNCHANGED <<upload_sessions, chunks, audit_events>>
  BY DEF Close
<1>3. /\ worker' \in [Workers -> WorkerState] /\ worker'[w] = Idle
      /\ \A v \in Workers \ {w} : worker'[v] = worker[v]
  BY <1>1, <1>2, IdleIsWorkerState DEF TypeOK
<1>4. /\ lock' \in [Sessions -> {None} \cup Workers]
      /\ \A s \in Sessions : lock'[s] # w
      /\ \A s \in Sessions : \A v \in Workers \ {w} : lock'[s] = v <=> lock[s] = v
  BY <1>1, <1>2, NoneIsDistinct DEF TypeOK, Unlocked
<1>5. WorkerInv(w)'  BY <1>3, <1>4, IdleKeeps
<1> QED  BY <1>2, <1>3, <1>4, <1>5, TablesUntouched

\* When the process dies every worker is idle again and every row unlocked.
LEMMA AllIdle ==
  ASSUME Inv,
         lock' = [s \in Sessions |-> None],
         worker' = [w \in Workers |-> Idle],
         UNCHANGED <<upload_sessions, chunks, audit_events>>
  PROVE  Inv'
<1>1. TypeOK  BY DEF Inv
<1>2. /\ lock' = [s \in Sessions |-> None]
      /\ worker' = [w \in Workers |-> Idle]
      /\ UNCHANGED <<upload_sessions, chunks, audit_events>>
  OBVIOUS
<1>3. TypeOK'
  <2>1. worker' \in [Workers -> WorkerState]  BY <1>2, IdleIsWorkerState
  <2> QED  BY <1>1, <1>2, <2>1 DEF TypeOK
<1>4. CheckpointMatchesArchive'
  BY <1>2 DEF Inv, CheckpointMatchesArchive, Registered
<1>5. VerdictIsTrue'  BY <1>2 DEF Inv, VerdictIsTrue, Registered
<1>6. (\A s \in Sessions : Numbered(audit_events[s]))'  BY <1>2 DEF Inv
<1>7. (\A w \in Workers : WorkerInv(w))'  BY <1>2, IdleKeeps, NoneIsDistinct
<1> QED  BY <1>3, <1>4, <1>5, <1>6, <1>7 DEF Inv

\* A restart of the API process.
LEMMA RestartStep ==
  ASSUME Inv, Restart
  PROVE  Inv'
BY AllIdle DEF Restart

-------------------------------------------------------------------------------
(***************************************************************************)
(* The flush of an accepted chunk.                                         *)
(***************************************************************************)
\* put_chunk appends only new bytes that start at the checkpoint of an active
\* session and end within the package.
LEMMA AppendVerdict ==
  ASSUME NEW row, NEW C, NEW r, PutVerdict(row, C, r) = "append"
  PROVE  /\ Len(r.payload) = r.length
         /\ ~(EndOf(r) > row.total_bytes)
         /\ row.status = "active"
         /\ r.start_offset = row.confirmed_offset
         /\ EndOf(r) > row.confirmed_offset
<1>1. TerminalVerdict(row, C, r) # "append"  BY DEF TerminalVerdict
<1>2. PutVerdict(row, C, r) = "append" =>
        /\ Len(r.payload) = r.length
        /\ ~(EndOf(r) > row.total_bytes)
        /\ row.status = "active"
        /\ ActiveVerdict(row, C, r) = "append"
  BY <1>1 DEF PutVerdict
<1>3. ActiveVerdict(row, C, r) = "append" =>
        r.start_offset = row.confirmed_offset /\ EndOf(r) > row.confirmed_offset
  BY DEF ActiveVerdict
<1> QED  BY <1>2, <1>3

\* A chunk appended at the checkpoint leaves a sound archive of the same
\* package, and the verdict that completes it is the true one.
LEMMA AdvancedIsSound ==
  ASSUME NEW row \in UploadSession, NEW C, ArchiveAgrees(row, C), row.status = "active",
         NEW x \in Blobs, Len(x) > 0, NEW k, k = row.confirmed_offset + Len(x),
         k <= row.total_bytes,
         NEW D, D = C \cup {RowOf(row.confirmed_offset, x)},
         NEW new, new = Advanced(row, D, k)
  PROVE  /\ new \in UploadSession
         /\ ArchiveAgrees(new, D)
         /\ VerdictAgrees(new, D)
         /\ SamePackage(row, C, new, D)
         /\ new.status = "sealed" => new.computed_sha256 \in Digests
<1>1. /\ row.confirmed_offset \in Nat /\ row.total_bytes \in 0..MaxBytes
      /\ Len(x) \in Nat /\ k \in Nat /\ k \in 0..MaxBytes /\ k > row.confirmed_offset
  BY BlobIsSequence, MaxBytesAssumption DEF UploadSession
<1>2. Tiles(D, k) /\ \A m \in 0..row.confirmed_offset : Whole(D, m) = Whole(C, m)
  BY <1>1, AppendTiles DEF ArchiveAgrees
<1>3. Whole(D, row.confirmed_offset) = Whole(C, row.confirmed_offset)
  <2>1. row.confirmed_offset \in 0..row.confirmed_offset  BY <1>1
  <2> QED  BY <1>2, <2>1
<1>4. CASE k # row.total_bytes
  <2>1. new = [row EXCEPT !.confirmed_offset = k]  BY <1>4 DEF Advanced
  <2>2. new \in UploadSession  BY <2>1, <1>1 DEF UploadSession
  <2>3. /\ new.confirmed_offset = k /\ new.status = "active"
        /\ new.total_bytes = row.total_bytes /\ new.whole_sha256 = row.whole_sha256
    BY <2>1 DEF UploadSession
  <2>4. ArchiveAgrees(new, D)  BY <2>3, <1>1, <1>2, <1>4 DEF ArchiveAgrees
  <2>5. VerdictAgrees(new, D)  BY <2>3 DEF VerdictAgrees
  <2>6. SamePackage(row, C, new, D)  BY <2>3, <1>1, <1>3 DEF SamePackage
  <2> QED  BY <2>2, <2>3, <2>4, <2>5, <2>6
<1>5. CASE k = row.total_bytes
  <2> DEFINE computed == ComputedDigest(D, row.total_bytes)
             status   == IF computed # None /\ computed = row.whole_sha256
                         THEN "sealed" ELSE "failed"
  <2>1. computed = Sha256(Whole(D, row.total_bytes)) /\ computed \in Digests
    BY <1>1, <1>2, <1>5, TilesDigest
  <2>2. status \in {"sealed", "failed"} /\ (status = "sealed" <=> computed = row.whole_sha256)
    BY <2>1, NoneAssumption
  <2>3. [row EXCEPT !.confirmed_offset = k].total_bytes = row.total_bytes
        /\ [row EXCEPT !.confirmed_offset = k].whole_sha256 = row.whole_sha256
    BY DEF UploadSession
  <2>4. new = [[row EXCEPT !.confirmed_offset = k] EXCEPT !.status = status,
                                                          !.computed_sha256 = computed]
    BY <1>5, <2>3 DEF Advanced, Finalized
  <2> HIDE DEF computed, status
  <2>5. new \in UploadSession  BY <2>1, <2>2, <2>4, <1>1 DEF UploadSession, Status
  <2>6. /\ new.confirmed_offset = k /\ new.status = status
        /\ new.computed_sha256 = computed
        /\ new.total_bytes = row.total_bytes /\ new.whole_sha256 = row.whole_sha256
    BY <2>4 DEF UploadSession
  <2>7. ArchiveAgrees(new, D)  BY <2>2, <2>6, <1>1, <1>2, <1>5 DEF ArchiveAgrees
  <2>8. VerdictAgrees(new, D)  BY <2>1, <2>2, <2>6 DEF VerdictAgrees
  <2>9. SamePackage(row, C, new, D)  BY <2>6, <1>1, <1>3 DEF SamePackage
  <2> QED  BY <2>1, <2>5, <2>6, <2>7, <2>8, <2>9
<1> QED  BY <1>4, <1>5

\* A flush takes no lock: Inv is preserved if the commit it leads to is sound.
LEMMA Flushed ==
  ASSUME Inv, NEW w \in Workers,
         worker[w].pc = "handle",
         UNCHANGED <<upload_sessions, chunks, audit_events, lock>>,
         worker' \in [Workers -> WorkerState],
         \A v \in Workers \ {w} : worker'[v] = worker[v],
         worker'[w].pc = "commit",
         worker'[w].req = worker[w].req,
         CommitIsSound(w)'
  PROVE  Inv'
<1>1. TypeOK /\ WorkerInv(w)  BY DEF Inv
<1>2. RequestKnown(w)'
  BY <1>1 DEF WorkerInv, RequestKnown, IsWriter, Target, Registered
<1>3. LockOwned(w)'
  BY <1>1 DEF WorkerInv, LockOwned, Target, Registered
<1>4. Owns(w)'  BY <1>1 DEF WorkerInv, Owns, Target
<1>5. LoadedIsFresh(w)'  BY DEF LoadedIsFresh, Fresh
<1>6. WorkerInv(w)'  BY <1>2, <1>3, <1>4, <1>5 DEF WorkerInv
<1>7. lock' \in [Sessions -> {None} \cup Workers]  BY <1>1 DEF TypeOK
<1> QED  BY <1>6, <1>7, TablesUntouched

\* What a writer that owns a session knows when it decides.
LEMMA OwnerKnows ==
  ASSUME Inv, NEW w \in Workers, worker[w].pc = "handle"
  PROVE  /\ Target(w) \in Sessions /\ Registered(Target(w))
         /\ worker[w].req \in Requests /\ IsWriter(w)
         /\ worker[w].loaded = upload_sessions[Target(w)]
         /\ worker[w].loaded \in UploadSession
         /\ ArchiveAgrees(worker[w].loaded, chunks[Target(w)])
         /\ VerdictAgrees(worker[w].loaded, chunks[Target(w)])
         /\ Numbered(audit_events[Target(w)])
         /\ worker[w].req.kind = "compact" => worker[w].req.target_chunk_bytes > 0
<1>1. TypeOK /\ WorkerInv(w)  BY DEF Inv
<1>2. /\ worker[w].req \in Requests /\ Target(w) \in Sessions
      /\ Registered(Target(w)) /\ IsWriter(w)
      /\ worker[w].req.kind = "compact" => worker[w].req.target_chunk_bytes > 0
  BY <1>1, WorkerFacts DEF WorkerInv, RequestKnown
<1>3. worker[w].loaded = upload_sessions[Target(w)]
  BY <1>1 DEF WorkerInv, LoadedIsFresh, Fresh
<1>4. upload_sessions[Target(w)] \in UploadSession
  BY <1>1, <1>2 DEF TypeOK, Registered
<1>5. ArchiveAgrees(upload_sessions[Target(w)], chunks[Target(w)])
  BY <1>2 DEF Inv, CheckpointMatchesArchive
<1>6. VerdictAgrees(upload_sessions[Target(w)], chunks[Target(w)])
  BY <1>2 DEF Inv, VerdictIsTrue
<1>7. Numbered(audit_events[Target(w)])  BY <1>2 DEF Inv
<1> QED  BY <1>2, <1>3, <1>4, <1>5, <1>6, <1>7

\* Flushing an accepted chunk.
LEMMA PutAppendStep ==
  ASSUME Inv, NEW w \in Workers, PutAppend(w)
  PROVE  Inv'
<1> DEFINE s     == Target(w)
           r     == worker[w].req
           old   == worker[w].loaded
           C     == chunks[s]
           piece == RowOf(r.start_offset, r.payload)
           D     == C \cup {piece}
           row   == Advanced(old, D, EndOf(r))
           event == SealedEvent(NextAuditSequence(s), row.total_bytes, row.computed_sha256)
           audit == IF row.status = "sealed" THEN {event} ELSE {}
<1>1. TypeOK /\ worker[w] \in WorkerState /\ worker[w].pc = "handle"
      /\ worker \in [Workers -> WorkerState]
  BY WorkerFacts DEF Inv, TypeOK, PutAppend, Handles
<1>2. /\ s \in Sessions /\ Registered(s) /\ r \in Requests
      /\ old = upload_sessions[s] /\ old \in UploadSession
      /\ ArchiveAgrees(old, C) /\ Numbered(audit_events[s])
  BY <1>1, OwnerKnows
<1>3. r.kind = "put" /\ PutVerdict(old, C, r) = "append"
  BY DEF PutAppend, Handles, Verdict
<1>4. /\ r.payload \in Blobs /\ r.start_offset \in Int /\ r.length \in Int
      /\ Len(r.payload) \in Nat
  BY <1>2, <1>3, RequestFacts, BlobIsSequence DEF PutRequest
<1>5. /\ Len(r.payload) = r.length /\ ~(EndOf(r) > old.total_bytes)
      /\ old.status = "active" /\ r.start_offset = old.confirmed_offset
      /\ EndOf(r) > old.confirmed_offset
  BY <1>3, AppendVerdict
<1>6. /\ old.confirmed_offset \in Nat /\ old.total_bytes \in Nat
  BY <1>2, MaxBytesAssumption DEF UploadSession
<1>7. /\ Len(r.payload) > 0 /\ EndOf(r) = old.confirmed_offset + Len(r.payload)
      /\ EndOf(r) <= old.total_bytes
  BY <1>4, <1>5, <1>6 DEF EndOf
<1>8. D = C \cup {RowOf(old.confirmed_offset, r.payload)}  BY <1>5
<1>9. /\ row \in UploadSession
      /\ ArchiveAgrees(row, D)
      /\ VerdictAgrees(row, D)
      /\ SamePackage(old, C, row, D)
      /\ row.status = "sealed" => row.computed_sha256 \in Digests
  <2> HIDE DEF D, old, C, r
  <2> QED  BY <1>2, <1>4, <1>5, <1>7, <1>8, AdvancedIsSound
<1>10. /\ worker' = [worker EXCEPT ![w].pc = "commit", ![w].loaded = row,
                                   ![w].pending = Writes({piece}, {}, audit)]
       /\ UNCHANGED <<upload_sessions, chunks, audit_events, lock>>
  BY DEF PutAppend
<1>11. event.sequence = NextAuditSequence(s)  BY DEF SealedEvent
<1>12. /\ NextAuditSequence(s) \in Nat \ {0}
       /\ \A f \in audit_events[s] : event.sequence # f.sequence
       /\ Numbered(audit_events[s] \cup {event})
  <2> HIDE DEF event, s
  <2> QED  BY <1>2, <1>11, NextSequenceContinues
<1>13. /\ audit \subseteq AuditEvent
       /\ \A e \in audit, f \in audit_events[s] : e.sequence # f.sequence
       /\ Numbered(audit_events[s] \cup audit)
  <2>1. CASE row.status = "sealed"
    <3>1. audit = {event}  BY <2>1
    <3>2. event \in AuditEvent
      <4> HIDE DEF row
      <4> QED  BY <2>1, <1>9, <1>12 DEF SealedEvent, AuditEvent, UploadSession
    <3> QED  BY <3>1, <3>2, <1>12
  <2>2. CASE row.status # "sealed"
    <3>1. audit = {}  BY <2>2
    <3> QED  BY <3>1, <1>2
  <2> QED  BY <2>1, <2>2
<1>14. piece \in ChunkRow /\ \A d \in C : piece.start_offset # d.start_offset
  <2>1. piece \in D /\ piece \in ChunkRow  BY <1>9 DEF ArchiveAgrees, Tiles
  <2>2. \A d \in C : /\ d.start_offset \in Nat /\ d.end_offset \in Nat
                     /\ d.start_offset < d.end_offset
                     /\ d.end_offset <= old.confirmed_offset
    BY <1>2 DEF ArchiveAgrees, Tiles, ChunkRow
  <2>3. piece.start_offset = old.confirmed_offset  BY <1>5 DEF RowOf
  <2>4. \A d \in C : d.start_offset # old.confirmed_offset  BY <2>2, <1>6
  <2> QED  BY <2>1, <2>3, <2>4
<1>15. Writes({piece}, {}, audit) \in Pending
  BY <1>13, <1>14 DEF Writes, Pending
<1> DEFINE p == Writes({piece}, {}, audit)
<1>16. p.inserted = {piece} /\ p.deleted = {} /\ p.audit = audit  BY DEF Writes
<1>17. p # None  BY <1>15, NoneIsDistinct
<1> HIDE DEF p, row, audit
<1>18. worker' \in [Workers -> WorkerState]
  BY <1>1, <1>9, <1>10, <1>15 DEF WorkerState, p
<1>19. /\ worker'[w].pc = "commit" /\ worker'[w].req = r
       /\ worker'[w].loaded = row /\ worker'[w].pending = p
       /\ \A v \in Workers \ {w} : worker'[v] = worker[v]
  BY <1>1, <1>10 DEF WorkerState, p
<1>20. CommitIsSound(w)'
  <2>1. RowAfter(w)' = row  BY <1>3, <1>19 DEF RowAfter
  <2>2. Target(w)' = s  BY <1>19 DEF Target
  <2>3. ChunksAfter(w)' = D  BY <2>2, <1>10, <1>16, <1>19 DEF ChunksAfter
  <2>4. FlushIsUnique(w)'
    BY <2>2, <1>10, <1>13, <1>14, <1>16, <1>19, ZenonT(60) DEF FlushIsUnique
  <2>5. SamePackage(upload_sessions'[s], chunks'[s], row, D)  BY <1>2, <1>9, <1>10
  <2>6. Numbered(audit_events'[s] \cup worker'[w].pending.audit)
    BY <1>10, <1>13, <1>16, <1>19
  <2> QED  BY <2>1, <2>2, <2>3, <2>4, <2>5, <2>6, <1>9, <1>17, <1>19
           DEF CommitIsSound
<1> QED  BY <1>1, <1>10, <1>18, <1>19, <1>20, Flushed

-------------------------------------------------------------------------------
(***************************************************************************)
(* The flush of a compaction.                                              *)
(***************************************************************************)
\* The layout a compaction writes holds the bytes of the sealed archive.
LEMMA CompactedIsSound ==
  ASSUME NEW row \in UploadSession, NEW C, ArchiveAgrees(row, C), VerdictAgrees(row, C),
         row.status = "sealed", NEW target \in Nat \ {0},
         NEW N, N = NewChunks(row, C, target)
  PROVE  /\ ArchiveAgrees(row, N)
         /\ VerdictAgrees(row, N)
         /\ SamePackage(row, C, row, N)
         /\ C \subseteq ChunkRow /\ Cardinality(C) \in Nat
         /\ N \subseteq ChunkRow /\ Cardinality(N) \in Nat
<1> DEFINE total  == row.total_bytes
           buffer == Whole(C, total)
<1>1. /\ row.confirmed_offset \in 0..MaxBytes /\ total \in 0..MaxBytes
      /\ total \in Nat /\ row.confirmed_offset \in Nat
  BY MaxBytesAssumption DEF UploadSession
<1>2. row.confirmed_offset = total  BY <1>1 DEF ArchiveAgrees
<1>3. Tiles(C, total)  BY <1>2 DEF ArchiveAgrees
<1>4. buffer \in Blobs /\ Len(buffer) = total
  <2>1. total \in 0..total  BY <1>1
  <2> QED  BY <1>1, <1>3, <2>1, WholeIsBlob
<1>5. N = Rechunked(buffer, Len(buffer), target)  BY <1>4 DEF NewChunks
<1>6. Tiles(N, total) /\ Whole(N, total) = buffer
  <2> HIDE DEF buffer, total
  <2> QED  BY <1>4, <1>5, RechunkedKeepsBytes
<1>7. ArchiveAgrees(row, N)  BY <1>2, <1>6 DEF ArchiveAgrees
<1>8. VerdictAgrees(row, N)  BY <1>6 DEF VerdictAgrees
<1>9. SamePackage(row, C, row, N)  BY <1>1, <1>2, <1>6 DEF SamePackage
<1>10. IsFiniteSet(C) /\ IsFiniteSet(N)  BY <1>1, <1>3, <1>6, TilesFinite
<1>11. Cardinality(C) \in Nat /\ Cardinality(N) \in Nat  BY <1>10, FS_CardinalityType
<1>12. C \subseteq ChunkRow /\ N \subseteq ChunkRow  BY <1>3, <1>6 DEF Tiles
<1> QED  BY <1>7, <1>8, <1>9, <1>11, <1>12

\* Its rows are the planned ones, and so are the rows that are kept when the
\* comparison of the layouts finds no difference.
LEMMA CompactedLayout ==
  ASSUME NEW row \in UploadSession, NEW C, ArchiveAgrees(row, C), VerdictAgrees(row, C),
         row.status = "sealed", NEW target \in Nat \ {0},
         NEW N, N = NewChunks(row, C, target)
  PROVE  /\ Cardinality(Layout(C)) = Cardinality(C)
         /\ Cardinality(Layout(N)) = Cardinality(N)
         /\ Spans(N) = PlannedSpans(row.total_bytes, target)
<1> DEFINE total  == row.total_bytes
           buffer == Whole(C, total)
<1>1. /\ row.confirmed_offset \in 0..MaxBytes /\ total \in 0..MaxBytes
      /\ total \in Nat /\ row.confirmed_offset \in Nat
  BY MaxBytesAssumption DEF UploadSession
<1>2. row.confirmed_offset = total  BY <1>1 DEF ArchiveAgrees
<1>3. Tiles(C, total) /\ Tiles(N, total)
  BY <1>2, CompactedIsSound DEF ArchiveAgrees
<1>4. buffer \in Blobs /\ Len(buffer) = total
  <2>1. total \in 0..total  BY <1>1
  <2> QED  BY <1>1, <1>3, <2>1, WholeIsBlob
<1>5. N = Rechunked(buffer, Len(buffer), target)  BY <1>4 DEF NewChunks
<1>6. Spans(N) = PlannedSpans(total, target)
  <2> HIDE DEF buffer, total
  <2> QED  BY <1>4, <1>5, RechunkedSpans
<1> QED  BY <1>1, <1>3, <1>6, LayoutCounts

\* compact_sealed is only called with a positive target (schemas.CompactRequest).
LEMMA CompactTarget ==
  ASSUME Inv, NEW w \in Workers, worker[w].pc = "handle", worker[w].req.kind = "compact"
  PROVE  worker[w].req.target_chunk_bytes \in Nat \ {0}
<1>1. worker[w].req \in Requests /\ worker[w].req.target_chunk_bytes > 0
  BY OwnerKnows
<1>2. worker[w].req.target_chunk_bytes \in Int
  BY <1>1, RequestFacts DEF CompactRequest
<1> QED  BY <1>1, <1>2

\* Flushing a rewritten or an unchanged layout with its audit row.
LEMMA CompactRewriteStep ==
  ASSUME Inv, NEW w \in Workers, CompactRewrite(w)
  PROVE  Inv'
<1> DEFINE s      == Target(w)
           row    == worker[w].loaded
           target == worker[w].req.target_chunk_bytes
           C      == chunks[s]
           N      == NewChunks(row, C, target)
           event  == CompactedEvent(NextAuditSequence(s), row, target,
                                    Cardinality(C), Cardinality(N))
           p      == IF Layout(C) = Layout(N) THEN Writes({}, {}, {event})
                                              ELSE Writes(N, C, {event})
<1>1. TypeOK /\ worker[w] \in WorkerState /\ worker[w].pc = "handle"
      /\ worker \in [Workers -> WorkerState]
  BY WorkerFacts DEF Inv, TypeOK, CompactRewrite, Compacts, Handles
<1>2. /\ s \in Sessions /\ worker[w].req \in Requests
      /\ row = upload_sessions[s] /\ row \in UploadSession
      /\ ArchiveAgrees(row, C) /\ VerdictAgrees(row, C) /\ Numbered(audit_events[s])
      /\ worker[w].req.kind = "compact" => target > 0
  BY <1>1, OwnerKnows
<1>3. worker[w].req.kind = "compact" /\ row.status = "sealed"
  BY DEF CompactRewrite, Compacts, Handles
<1>4. target \in Nat \ {0}  BY <1>1, <1>3, CompactTarget
<1>5. /\ worker' = [worker EXCEPT ![w].pc = "commit", ![w].pending = p]
      /\ UNCHANGED <<upload_sessions, chunks, audit_events, lock>>
  BY DEF CompactRewrite
<1>6. /\ ArchiveAgrees(row, N) /\ VerdictAgrees(row, N) /\ SamePackage(row, C, row, N)
      /\ C \subseteq ChunkRow /\ Cardinality(C) \in Nat
      /\ N \subseteq ChunkRow /\ Cardinality(N) \in Nat
  <2> HIDE DEF C, row, target, N
  <2>1. N = NewChunks(row, C, target)  BY DEF N
  <2> QED  BY <1>2, <1>3, <1>4, <2>1, CompactedIsSound
<1>7. SamePackage(row, C, row, C)
  BY <1>2, MaxBytesAssumption DEF SamePackage, UploadSession
<1>8. event.sequence = NextAuditSequence(s)  BY DEF CompactedEvent
<1>9. /\ NextAuditSequence(s) \in Nat \ {0}
      /\ \A f \in audit_events[s] : event.sequence # f.sequence
      /\ Numbered(audit_events[s] \cup {event})
  <2> HIDE DEF event, s
  <2> QED  BY <1>2, <1>8, NextSequenceContinues
<1>10. event \in AuditEvent
  <2> HIDE DEF row, target, C, N, s
  <2> QED  BY <1>2, <1>4, <1>6, <1>9 DEF CompactedEvent, AuditEvent, UploadSession
<1> HIDE DEF event
<1>11. /\ p.audit = {event}
       /\ \/ p.inserted = {} /\ p.deleted = {}
          \/ p.inserted = N /\ p.deleted = C
  BY DEF Writes
<1>12. p \in Pending
  <2> HIDE DEF N, C
  <2>1. Writes({}, {}, {event}) \in Pending  BY <1>10 DEF Writes, Pending
  <2>2. Writes(N, C, {event}) \in Pending  BY <1>6, <1>10 DEF Writes, Pending
  <2> QED  BY <2>1, <2>2
<1>13. p # None  BY <1>12, NoneIsDistinct
<1> HIDE DEF p
<1>14. worker' \in [Workers -> WorkerState]
  BY <1>1, <1>5, <1>12 DEF WorkerState
<1>15. /\ worker'[w].pc = "commit" /\ worker'[w].req = worker[w].req
       /\ worker'[w].pending = p
       /\ \A v \in Workers \ {w} : worker'[v] = worker[v]
  BY <1>1, <1>5 DEF WorkerState
<1> HIDE DEF N
<1>16. CommitIsSound(w)'
  <2>1. Target(w)' = s  BY <1>15 DEF Target
  <2>2. RowAfter(w)' = row  BY <1>2, <1>3, <1>5, <1>15, <2>1 DEF RowAfter
  <2>3. ChunksAfter(w)' = (C \ p.deleted) \cup p.inserted
    BY <2>1, <1>5, <1>15 DEF ChunksAfter
  <2>4. ChunksAfter(w)' = C \/ ChunksAfter(w)' = N  BY <2>3, <1>11
  <2>5. /\ ArchiveAgrees(row, ChunksAfter(w)')
        /\ VerdictAgrees(row, ChunksAfter(w)')
        /\ SamePackage(row, C, row, ChunksAfter(w)')
    BY <2>4, <1>2, <1>6, <1>7
  <2>6. FlushIsUnique(w)'
    BY <2>1, <1>5, <1>9, <1>11, <1>15 DEF FlushIsUnique
  <2>7. upload_sessions'[s] = row /\ chunks'[s] = C  BY <1>2, <1>5
  <2>8. Numbered(audit_events'[s] \cup worker'[w].pending.audit)
    BY <1>5, <1>9, <1>11, <1>15
  <2> QED  BY <2>1, <2>2, <2>5, <2>6, <2>7, <2>8, <1>2, <1>13, <1>15
           DEF CommitIsSound
<1> QED  BY <1>1, <1>5, <1>14, <1>15, <1>16, Flushed

-------------------------------------------------------------------------------
(***************************************************************************)
(* The steps that change the tables.                                       *)
(***************************************************************************)
\* COMMIT makes the tables of one session what the flush left to expect.
LEMMA CommitTables ==
  ASSUME Inv, NEW w \in Workers, worker[w].pc = "commit", CommitWrites(w)
  PROVE  /\ Target(w) \in Sessions /\ Registered(Target(w))
         /\ upload_sessions' = [upload_sessions EXCEPT ![Target(w)] = RowAfter(w)]
         /\ chunks' = [chunks EXCEPT ![Target(w)] = ChunksAfter(w)]
         /\ audit_events' = [audit_events EXCEPT ![Target(w)] =
                               audit_events[Target(w)] \cup worker[w].pending.audit]
         /\ lock' = Unlocked(w)
         /\ CommitIsSound(w)
         /\ worker[w].pending \in Pending
         /\ lock[Target(w)] = w
<1>1. TypeOK /\ WorkerInv(w) /\ worker[w] \in WorkerState
  BY WorkerFacts DEF Inv
<1>2. /\ Target(w) \in Sessions /\ Registered(Target(w)) /\ IsWriter(w)
      /\ CommitIsSound(w) /\ lock[Target(w)] = w
  BY <1>1, WorkerFacts DEF WorkerInv, RequestKnown, Owns
<1>3. worker[w].pending \in Pending
  BY <1>1, <1>2 DEF CommitIsSound, WorkerState
<1>4. /\ chunks' = [chunks EXCEPT ![Target(w)] = ChunksAfter(w)]
      /\ audit_events' = [audit_events EXCEPT ![Target(w)] =
                            audit_events[Target(w)] \cup worker[w].pending.audit]
      /\ lock' = Unlocked(w)
  BY DEF CommitWrites, ChunksAfter
<1>5. upload_sessions' = [upload_sessions EXCEPT ![Target(w)] = RowAfter(w)]
  <2>1. CASE worker[w].req.kind = "put"
    BY <2>1 DEF CommitWrites, RowAfter
  <2>2. CASE worker[w].req.kind # "put"
    <3>1. upload_sessions' = upload_sessions  BY <2>2 DEF CommitWrites
    <3>2. RowAfter(w) = upload_sessions[Target(w)]  BY <2>2 DEF RowAfter
    <3> QED  BY <3>1, <3>2, <1>1 DEF TypeOK
  <2> QED  BY <2>1, <2>2
<1> QED  BY <1>2, <1>3, <1>4, <1>5

\* The tables stay typed and sound, and the other workers keep their part.
LEMMA CommitStep ==
  ASSUME Inv, NEW w \in Workers,
         CommitPut(w) \/ CommitCompact(w) \/ CommitUnanswered(w)
  PROVE  Inv'
<1> DEFINE s == Target(w)
<1>1. /\ TypeOK /\ WorkerInv(w) /\ worker[w] \in WorkerState /\ w # None
      /\ worker \in [Workers -> WorkerState]
  BY WorkerFacts DEF Inv, TypeOK
<1>2. worker[w].pc = "commit" /\ CommitWrites(w)
  BY DEF CommitPut, CommitCompact, CommitUnanswered
<1>3. /\ s \in Sessions /\ Registered(s)
      /\ upload_sessions' = [upload_sessions EXCEPT ![s] = RowAfter(w)]
      /\ chunks' = [chunks EXCEPT ![s] = ChunksAfter(w)]
      /\ audit_events' = [audit_events EXCEPT ![s] =
                            audit_events[s] \cup worker[w].pending.audit]
      /\ lock' = Unlocked(w)
      /\ CommitIsSound(w)
      /\ worker[w].pending \in Pending
      /\ lock[s] = w
  BY <1>2, CommitTables
<1>4. /\ RowAfter(w) \in UploadSession /\ RowAfter(w) # None
      /\ ArchiveAgrees(RowAfter(w), ChunksAfter(w))
      /\ VerdictAgrees(RowAfter(w), ChunksAfter(w))
      /\ Numbered(audit_events[s] \cup worker[w].pending.audit)
  BY <1>2, <1>3, NoneIsDistinct DEF CommitIsSound
<1>5. /\ worker' \in [Workers -> WorkerState]
      /\ \A v \in Workers \ {w} : worker'[v] = worker[v]
      /\ worker'[w].req = worker[w].req
      /\ \/ worker'[w].pc = "done"
         \/ worker'[w].pc = "refresh" /\ worker[w].req.kind = "put"
  <2>1. CASE CommitPut(w)
    BY <1>1, <2>1 DEF CommitPut, WorkerState
  <2>2. CASE CommitCompact(w)
    BY <1>1, <2>2 DEF CommitCompact, WorkerState, Codes
  <2>3. CASE CommitUnanswered(w)
    BY <1>1, <2>3 DEF CommitUnanswered, WorkerState, Codes
  <2> QED  BY <2>1, <2>2, <2>3
<1>6. /\ lock' \in [Sessions -> {None} \cup Workers]
      /\ \A x \in Sessions : lock'[x] # w
      /\ \A x \in Sessions : \A v \in Workers \ {w} : lock'[x] = v <=> lock[x] = v
  BY <1>1, <1>3, NoneIsDistinct DEF TypeOK, Unlocked
<1>7. TypeOK'
  <2>1. upload_sessions' \in [Sessions -> {None} \cup UploadSession]
    BY <1>1, <1>3, <1>4 DEF TypeOK
  <2>2. ChunksAfter(w) \subseteq ChunkRow
    BY <1>1, <1>3 DEF TypeOK, ChunksAfter, Pending
  <2>3. chunks' \in [Sessions -> SUBSET ChunkRow]
    BY <1>1, <1>3, <2>2 DEF TypeOK
  <2>4. audit_events[s] \cup worker[w].pending.audit \in SUBSET AuditEvent
    BY <1>1, <1>3 DEF TypeOK, Pending
  <2>5. audit_events' \in [Sessions -> SUBSET AuditEvent]
    BY <1>1, <1>3, <2>4 DEF TypeOK
  <2> QED  BY <2>1, <2>3, <2>5, <1>5, <1>6 DEF TypeOK
<1>8. \A x \in Sessions : /\ upload_sessions'[x] = IF x = s THEN RowAfter(w)
                                                            ELSE upload_sessions[x]
                          /\ chunks'[x] = IF x = s THEN ChunksAfter(w) ELSE chunks[x]
                          /\ audit_events'[x] = IF x = s
                               THEN audit_events[s] \cup worker[w].pending.audit
                               ELSE audit_events[x]
  BY <1>1, <1>3 DEF TypeOK
<1> HIDE DEF s
<1>9. CheckpointMatchesArchive'
  BY <1>3, <1>4, <1>8 DEF Inv, CheckpointMatchesArchive, Registered
<1>10. VerdictIsTrue'
  BY <1>3, <1>4, <1>8 DEF Inv, VerdictIsTrue, Registered
<1>11. (\A x \in Sessions : Numbered(audit_events[x]))'
  BY <1>3, <1>4, <1>8 DEF Inv
<1>12. WorkerInv(w)'
  <2>1. IsWriter(w) /\ worker[w].req # None /\ Target(w) = s
    BY <1>1, <1>2 DEF WorkerInv, RequestKnown, s
  <2>2. RequestKnown(w)'
    BY <2>1, <1>3, <1>4, <1>5, <1>8 DEF RequestKnown, IsWriter, Registered, Target
  <2>3. LockOwned(w)'  BY <1>6 DEF LockOwned
  <2>4. Owns(w)'  BY <1>5 DEF Owns
  <2>5. LoadedIsFresh(w)'  BY <1>5, <1>6 DEF LoadedIsFresh, Fresh
  <2>6. CommitIsSound(w)'  BY <1>5 DEF CommitIsSound
  <2> QED  BY <2>2, <2>3, <2>4, <2>5, <2>6 DEF WorkerInv
<1>13. ASSUME NEW v \in Workers, v # w  PROVE WorkerInv(v)'
  <2>1. worker'[v] = worker[v]  BY <1>5, <1>13
  <2>2. \A x \in Sessions : lock'[x] = v <=> lock[x] = v  BY <1>6, <1>13
  <2>3. \A x \in Sessions : lock[x] = v =>
          /\ upload_sessions'[x] = upload_sessions[x]
          /\ chunks'[x] = chunks[x]
          /\ audit_events'[x] = audit_events[x]
    BY <1>3, <1>8, <1>13
  <2>4. \A x \in Sessions : Registered(x) => upload_sessions'[x] # None
    BY <1>4, <1>8 DEF Registered
  <2> QED  BY <2>1, <2>2, <2>3, <2>4, OtherWorkersKeep
<1> QED  BY <1>7, <1>9, <1>10, <1>11, <1>12, <1>13 DEF Inv

\* What registration stores is a sound, still empty archive.
LEMMA RegisteredIsSound ==
  ASSUME NEW m \in Registrations,
         NEW row, row = RegisteredRow(m.total_bytes, m.whole_sha256)
  PROVE  row \in UploadSession /\ ArchiveAgrees(row, {}) /\ VerdictAgrees(row, {})
<1>1. m.total_bytes \in 0..MaxBytes /\ m.whole_sha256 \in Digests /\ m.total_bytes \in Nat
  BY RegistrationsAssumption, MaxBytesAssumption
<1>2. EmptySha256 \in Digests /\ EmptySha256 # None /\ \A C : Sha256(Whole(C, 0)) = EmptySha256
  BY NothingTiled, Sha256Assumption, NoneAssumption DEF EmptySha256
<1>3. row \in UploadSession
  BY <1>1, <1>2, MaxBytesAssumption DEF RegisteredRow, UploadSession, Status
<1>4. /\ row.confirmed_offset = 0 /\ row.total_bytes = m.total_bytes
      /\ row.whole_sha256 = m.whole_sha256
      /\ row.status = "active" <=> m.total_bytes > 0
      /\ m.total_bytes = 0 => /\ row.computed_sha256 = EmptySha256
                              /\ row.status = "sealed" <=> m.whole_sha256 = EmptySha256
  BY <1>1 DEF RegisteredRow
<1>5. ArchiveAgrees(row, {})  BY <1>1, <1>4, NothingTiled DEF ArchiveAgrees
<1>6. VerdictAgrees(row, {})  BY <1>1, <1>2, <1>4 DEF VerdictAgrees
<1> QED  BY <1>3, <1>5, <1>6

\* A set of one audit row numbered 1 is a trail, and so is the empty one.
LEMMA FirstNumbers ==
  /\ Numbered({})
  /\ \A e : e.sequence = 1 => Numbered({e})
<1>1. IsFiniteSet({}) /\ Cardinality({}) = 0  BY FS_EmptySet
<1>2. Numbered({})  BY <1>1 DEF Numbered
<1>3. ASSUME NEW e, e.sequence = 1  PROVE Numbered({e})
  <2>1. IsFiniteSet({e}) /\ Cardinality({e}) = 1  BY FS_Singleton
  <2>2. {f.sequence : f \in {e}} = {1} /\ 1..1 = {1}  BY <1>3
  <2> QED  BY <2>1, <2>2 DEF Numbered
<1> QED  BY <1>2, <1>3

\* Registering a session adds a row that nobody could have locked.
LEMMA CreateSessionStep ==
  ASSUME Inv, NEW s \in Sessions, NEW m \in Registrations, CreateSession(s, m)
  PROVE  Inv'
<1> DEFINE row   == RegisteredRow(m.total_bytes, m.whole_sha256)
           trail == IF row.status = "sealed" THEN {SealedEvent(1, 0, EmptySha256)} ELSE {}
<1>1. TypeOK  BY DEF Inv
<1>2. /\ upload_sessions[s] = None
      /\ upload_sessions' = [upload_sessions EXCEPT ![s] = row]
      /\ audit_events' = [audit_events EXCEPT ![s] = trail]
      /\ UNCHANGED <<chunks, lock, worker>>
  BY DEF CreateSession
<1>3. row \in UploadSession /\ ArchiveAgrees(row, {}) /\ VerdictAgrees(row, {})
  <2> HIDE DEF row
  <2>1. row = RegisteredRow(m.total_bytes, m.whole_sha256)  BY DEF row
  <2> QED  BY <2>1, RegisteredIsSound
<1>4. Numbered(trail) /\ trail \in SUBSET AuditEvent
  <2>1. EmptySha256 \in Digests
    BY NothingTiled, Sha256Assumption DEF EmptySha256
  <2>2. SealedEvent(1, 0, EmptySha256) \in AuditEvent
    BY <2>1, MaxBytesAssumption DEF SealedEvent, AuditEvent
  <2>3. Numbered({SealedEvent(1, 0, EmptySha256)})  BY FirstNumbers DEF SealedEvent
  <2> HIDE DEF row
  <2> QED  BY <2>2, <2>3, FirstNumbers
<1> HIDE DEF row, trail
<1>5. chunks[s] = {}
  BY <1>2 DEF Inv, CheckpointMatchesArchive, Registered
<1>6. row # None  BY <1>3, NoneIsDistinct
<1>7. \A x \in Sessions : /\ upload_sessions'[x] = IF x = s THEN row ELSE upload_sessions[x]
                          /\ audit_events'[x] = IF x = s THEN trail ELSE audit_events[x]
                          /\ chunks'[x] = chunks[x]
  BY <1>1, <1>2 DEF TypeOK
<1>8. TypeOK'  BY <1>1, <1>2, <1>3, <1>4 DEF TypeOK
<1>9. CheckpointMatchesArchive'
  BY <1>3, <1>5, <1>6, <1>7 DEF Inv, CheckpointMatchesArchive, Registered
<1>10. VerdictIsTrue'
  BY <1>3, <1>5, <1>6, <1>7 DEF Inv, VerdictIsTrue, Registered
<1>11. (\A x \in Sessions : Numbered(audit_events[x]))'
  BY <1>4, <1>7 DEF Inv
<1>12. ASSUME NEW v \in Workers  PROVE WorkerInv(v)'
  <2>1. \A x \in Sessions : lock[x] = v => x # s
    BY <1>2 DEF Inv, WorkerInv, LockOwned, Registered
  <2>2. \A x \in Sessions : lock[x] = v =>
          /\ upload_sessions'[x] = upload_sessions[x]
          /\ chunks'[x] = chunks[x]
          /\ audit_events'[x] = audit_events[x]
    BY <2>1, <1>7
  <2>3. \A x \in Sessions : Registered(x) => upload_sessions'[x] # None
    BY <1>6, <1>7 DEF Registered
  <2>4. worker'[v] = worker[v] /\ \A x \in Sessions : lock'[x] = v <=> lock[x] = v
    BY <1>2
  <2> QED  BY <2>2, <2>3, <2>4, OtherWorkersKeep
<1> QED  BY <1>8, <1>9, <1>10, <1>11, <1>12 DEF Inv

-------------------------------------------------------------------------------
(***************************************************************************)
(* The initial tables.                                                     *)
(***************************************************************************)
\* What an older release left sealed is a sound archive.
LEMMA LegacyIsSound ==
  ASSUME NEW data \in Blobs
  PROVE  /\ LegacyRow(data) \in UploadSession
         /\ ArchiveAgrees(LegacyRow(data), LegacyChunks(data))
         /\ VerdictAgrees(LegacyRow(data), LegacyChunks(data))
         /\ LegacyChunks(data) \subseteq ChunkRow
         /\ Whole(LegacyChunks(data), Len(data)) = data
<1> DEFINE n == Len(data)
           C == LegacyChunks(data)
<1>1. n \in 0..MaxBytes /\ n \in Nat /\ Sha256(data) \in Digests
  BY BlobIsSequence, MaxBytesAssumption, Sha256Assumption
<1>2. LegacyRow(data) \in UploadSession  BY <1>1 DEF LegacyRow, UploadSession, Status
<1>3. Tiles(C, n) /\ Whole(C, n) = data
  <2>1. CASE data = <<>>
    <3>1. C = {} /\ n = 0  BY <2>1 DEF LegacyChunks
    <3> HIDE DEF C, n
    <3> QED  BY <3>1, <2>1, NothingTiled
  <2>2. CASE data # <<>>
    <3>1. data \in Seq(Byte)  BY BlobIsSequence
    <3>2. n > 0  BY <3>1, <2>2, <1>1, EmptySeq
    <3>3. C = {} \cup {RowOf(0, data)}  BY <2>2 DEF LegacyChunks
    <3>4. Tiles({}, 0)  BY NothingTiled
    <3>5. Tiles({} \cup {RowOf(0, data)}, 0 + Len(data))  BY <3>2, <3>4, AppendTiles
    <3>6. Tiles(C, n)  BY <3>3, <3>5, <1>1
    <3>7. RowOf(0, data) \in C  BY <3>3
    <3>8. ASSUME NEW i \in 1..n  PROVE ByteAt(C, i - 1) = data[i]
      <4>1. Covers(RowOf(0, data), i - 1)  BY <1>1 DEF Covers, RowOf
      <4>2. ByteAt(C, i - 1) = RowOf(0, data).data[i - 1 - RowOf(0, data).start_offset + 1]
        <5> HIDE DEF C, n
        <5>1. i - 1 \in Nat  BY <1>1
        <5> QED  BY <5>1, <4>1, <3>6, <3>7, <1>1, ByteOfRow
      <4> QED  BY <4>2, <1>1 DEF RowOf
    <3>9. Len(Whole(C, n)) = n /\ \A i \in 1..n : Whole(C, n)[i] = ByteAt(C, i - 1)
      <4> HIDE DEF C, n
      <4>1. n \in 0..n  BY <1>1
      <4> QED  BY <4>1, <3>6, <1>1, WholeIsBlob
    <3>10. Whole(C, n) = [i \in 1..n |-> data[i]]
      <4>1. n - 0 = n  BY <1>1
      <4>2. \A i \in 1..n : 0 + i - 1 = i - 1  BY <1>1
      <4> HIDE DEF C, n
      <4> QED  BY <4>1, <4>2, <3>8 DEF Whole, BytesOf
    <3>11. data = [i \in 1..n |-> data[i]]  BY BlobIsSequence
    <3> QED  BY <3>6, <3>10, <3>11
  <2> QED  BY <2>1, <2>2
<1> HIDE DEF C
<1>4. ArchiveAgrees(LegacyRow(data), C)  BY <1>1, <1>3 DEF ArchiveAgrees, LegacyRow
<1>5. VerdictAgrees(LegacyRow(data), C)  BY <1>3 DEF VerdictAgrees, LegacyRow
<1>6. C \subseteq ChunkRow  BY <1>3 DEF Tiles
<1> QED  BY <1>2, <1>3, <1>4, <1>5, <1>6 DEF C

\* The service starts in a sound state.
LEMMA InitInv ==
  ASSUME Init
  PROVE  Inv
<1>1. \A s \in DOMAIN Legacy : Legacy[s] \in Blobs  BY LegacyAssumption
<1>2. \A s \in Sessions : /\ upload_sessions[s] = IF s \in DOMAIN Legacy
                                                  THEN LegacyRow(Legacy[s]) ELSE None
                          /\ chunks[s] = IF s \in DOMAIN Legacy
                                         THEN LegacyChunks(Legacy[s]) ELSE {}
                          /\ audit_events[s] = {} /\ lock[s] = None
  BY DEF Init
<1>3. TypeOK
  <2>1. upload_sessions \in [Sessions -> {None} \cup UploadSession]
    BY <1>1, LegacyIsSound DEF Init
  <2>2. chunks \in [Sessions -> SUBSET ChunkRow]
    BY <1>1, LegacyIsSound DEF Init
  <2>3. audit_events \in [Sessions -> SUBSET AuditEvent]  BY DEF Init
  <2>4. lock \in [Sessions -> {None} \cup Workers]  BY DEF Init
  <2>5. worker \in [Workers -> WorkerState]  BY IdleIsWorkerState DEF Init
  <2> QED  BY <2>1, <2>2, <2>3, <2>4, <2>5 DEF TypeOK
<1>4. CheckpointMatchesArchive
  BY <1>1, <1>2, LegacyIsSound, NoneIsDistinct DEF CheckpointMatchesArchive, Registered
<1>5. VerdictIsTrue
  BY <1>1, <1>2, LegacyIsSound DEF VerdictIsTrue, Registered
<1>6. \A s \in Sessions : Numbered(audit_events[s])  BY <1>2, FirstNumbers
<1>7. ASSUME NEW w \in Workers  PROVE WorkerInv(w)
  <2>1. worker[w].pc = "idle"  BY DEF Init, Idle
  <2>2. \A s \in Sessions : lock[s] # w  BY <1>2, NoneIsDistinct
  <2>3. RequestKnown(w) /\ LockOwned(w)  BY <2>1, <2>2 DEF RequestKnown, LockOwned
  <2>4. Owns(w) /\ LoadedIsFresh(w) /\ CommitIsSound(w)
    BY <2>1 DEF Owns, LoadedIsFresh, Fresh, CommitIsSound
  <2> QED  BY <2>3, <2>4 DEF WorkerInv
<1> QED  BY <1>3, <1>4, <1>5, <1>6, <1>7 DEF Inv

-------------------------------------------------------------------------------
(***************************************************************************)
(* The theorems.                                                           *)
(***************************************************************************)
\* Every step preserves the inductive invariant.
LEMMA Preservation ==
  ASSUME Inv, [Next]_vars
  PROVE  Inv'
<1>1. CASE \E s \in Sessions, m \in Registrations : CreateSession(s, m)
  BY <1>1, CreateSessionStep
<1>2. CASE \E w \in Workers, r \in Requests : Receive(w, r) \/ Reject(w, r)
  BY <1>2, ReceiveStep, RejectStep
<1>3. CASE \E w \in Workers : Step(w) \/ CommitUnanswered(w) \/ DbError(w)
  <2> SUFFICES ASSUME NEW w \in Workers, Step(w) \/ CommitUnanswered(w) \/ DbError(w)
               PROVE  Inv'
    BY <1>3
  <2>1. CASE Write(w)
    <3>1. CASE LockSession(w)  BY <3>1, LockSessionStep
    <3>2. CASE PutAppend(w)  BY <3>2, PutAppendStep
    <3>3. CASE CompactRewrite(w)  BY <3>3, CompactRewriteStep
    <3>4. CASE CommitPut(w) \/ CommitCompact(w)  BY <3>4, CommitStep
    <3>5. CASE Refresh(w)  BY <3>5, RefreshStep
    <3>6. CASE \/ LockMissing(w) \/ PutRefuse(w) \/ PutReplay(w)
               \/ CompactRefuse(w) \/ CompactRollback(w)
      BY <3>6, AnswerSteps
    <3> QED  BY <2>1, <3>1, <3>2, <3>3, <3>4, <3>5, <3>6 DEF Write
  <2>2. CASE Read(w)  BY <2>2, ReadSessionStep, AnswerSteps DEF Read
  <2>3. CASE Close(w)  BY <2>3, CloseStep
  <2>4. CASE CommitUnanswered(w)  BY <2>4, CommitStep
  <2>5. CASE DbError(w)  BY <2>5, AnswerSteps
  <2> QED  BY <2>1, <2>2, <2>3, <2>4, <2>5 DEF Step
<1>4. CASE Restart  BY <1>4, RestartStep
<1>5. CASE UNCHANGED vars
  <2>1. UNCHANGED <<upload_sessions, chunks, audit_events, lock, worker>>
    BY <1>5 DEF vars
  <2>2. TypeOK'  BY <2>1 DEF Inv, TypeOK
  <2>3. CheckpointMatchesArchive'
    BY <2>1 DEF Inv, CheckpointMatchesArchive, Registered
  <2>4. VerdictIsTrue'  BY <2>1 DEF Inv, VerdictIsTrue, Registered
  <2>5. (\A s \in Sessions : Numbered(audit_events[s]))'  BY <2>1 DEF Inv
  <2>6. ASSUME NEW v \in Workers  PROVE WorkerInv(v)'
    <3>1. \A s \in Sessions : Registered(s) => upload_sessions'[s] # None
      BY <2>1 DEF Registered
    <3> QED  BY <2>1, <3>1, OtherWorkersKeep
  <2> QED  BY <2>2, <2>3, <2>4, <2>5, <2>6 DEF Inv
<1> QED  BY <1>1, <1>2, <1>3, <1>4, <1>5 DEF Next, Serve

\* Inv is an invariant: what a transaction is about to commit is sound at every
\* moment, whoever else runs, fails or restarts.
THEOREM Invariance == Spec => []Inv
<1>1. Init => Inv  BY InitInv
<1>2. Inv /\ [Next]_vars => Inv'  BY Preservation
<1> QED  BY <1>1, <1>2, PTL DEF Spec

\* Tables and workers stay well typed.
THEOREM TypeCorrectness == Spec => []TypeOK
<1>1. Inv => TypeOK  BY DEF Inv
<1> QED  BY <1>1, Invariance, PTL

\* The checkpoint always is the length of the intact, gapless archive.
THEOREM CheckpointCorrect == Spec => []CheckpointMatchesArchive
<1>1. Inv => CheckpointMatchesArchive  BY DEF Inv
<1> QED  BY <1>1, Invariance, PTL

\* Sealed means that the archive hashes to the registered digest, failed that
\* it does not.
THEOREM VerdictCorrect == Spec => []VerdictIsTrue
<1>1. Inv => VerdictIsTrue  BY DEF Inv
<1> QED  BY <1>1, Invariance, PTL

\* What a writer decides on and reports is the committed row: no lost update.
THEOREM NoLostUpdate == Spec => []LockedSnapshotFresh
<1>1. Inv => LockedSnapshotFresh
  <2> SUFFICES ASSUME Inv, NEW w \in Workers,
                      \/ worker[w].pc = "handle"
                      \/ worker[w].pc = "done" /\ \E s \in Sessions : lock[s] = w
                                               /\ worker[w].code # "server_error"
               PROVE  /\ lock[Target(w)] = w
                      /\ worker[w].loaded = upload_sessions[Target(w)]
    BY DEF LockedSnapshotFresh
  <2>1. LockOwned(w) /\ Owns(w) /\ LoadedIsFresh(w)  BY DEF Inv, WorkerInv
  <2>2. lock[Target(w)] = w  BY <2>1 DEF LockOwned, Owns
  <2>3. Fresh(w)  BY DEF Fresh
  <2> QED  BY <2>1, <2>2, <2>3 DEF LoadedIsFresh
<1> QED  BY <1>1, Invariance, PTL

\* The two unique constraints are never violated by a flush.
THEOREM UniqueConstraintsHold == Spec => []NoUniqueViolation
<1>1. Inv => NoUniqueViolation
  BY DEF Inv, NoUniqueViolation, WorkerInv, CommitIsSound
<1> QED  BY <1>1, Invariance, PTL

-------------------------------------------------------------------------------
\* A step that leaves the session rows and the chunk rows as they are.
LEMMA UnchangedKeepsBytes ==
  ASSUME Inv, NEW s \in Sessions, Registered(s),
         UNCHANGED <<upload_sessions, chunks>>
  PROVE  /\ upload_sessions'[s] # None
         /\ SamePackage(upload_sessions[s], chunks[s], upload_sessions'[s], chunks'[s])
<1>1. upload_sessions[s] \in UploadSession /\ upload_sessions[s] # None
  BY DEF Inv, TypeOK, Registered
<1>2. upload_sessions[s].confirmed_offset \in Nat
  BY <1>1, MaxBytesAssumption DEF UploadSession
<1> QED  BY <1>1, <1>2 DEF SamePackage

\* No step changes the identity of a package or a confirmed byte of it.
LEMMA StepKeepsBytes ==
  ASSUME Inv, [Next]_vars, NEW s \in Sessions, Registered(s)
  PROVE  /\ upload_sessions'[s] # None
         /\ SamePackage(upload_sessions[s], chunks[s], upload_sessions'[s], chunks'[s])
<1>1. CASE UNCHANGED <<upload_sessions, chunks>>  BY <1>1, UnchangedKeepsBytes
<1>2. ASSUME NEW x \in Sessions, NEW m \in Registrations, CreateSession(x, m)
      PROVE  /\ upload_sessions'[s] # None
             /\ SamePackage(upload_sessions[s], chunks[s], upload_sessions'[s], chunks'[s])
  <2>1. /\ s # x /\ UNCHANGED chunks
        /\ upload_sessions' = [upload_sessions EXCEPT ![x] =
                                 RegisteredRow(m.total_bytes, m.whole_sha256)]
    BY <1>2 DEF CreateSession, Registered
  <2>2. upload_sessions'[s] = upload_sessions[s]  BY <2>1 DEF Inv, TypeOK
  <2>3. upload_sessions[s] \in UploadSession /\ upload_sessions[s] # None
    BY DEF Inv, TypeOK, Registered
  <2>4. upload_sessions[s].confirmed_offset \in Nat
    BY <2>3, MaxBytesAssumption DEF UploadSession
  <2> QED  BY <2>1, <2>2, <2>3, <2>4 DEF SamePackage
<1>3. ASSUME NEW w \in Workers, CommitPut(w) \/ CommitCompact(w) \/ CommitUnanswered(w)
      PROVE  /\ upload_sessions'[s] # None
             /\ SamePackage(upload_sessions[s], chunks[s], upload_sessions'[s], chunks'[s])
  <2>1. worker[w].pc = "commit" /\ CommitWrites(w)
    BY <1>3 DEF CommitPut, CommitCompact, CommitUnanswered
  <2>2. /\ Target(w) \in Sessions
        /\ upload_sessions' = [upload_sessions EXCEPT ![Target(w)] = RowAfter(w)]
        /\ chunks' = [chunks EXCEPT ![Target(w)] = ChunksAfter(w)]
        /\ CommitIsSound(w)
    BY <2>1, CommitTables
  <2>3. /\ RowAfter(w) # None
        /\ SamePackage(upload_sessions[Target(w)], chunks[Target(w)],
                       RowAfter(w), ChunksAfter(w))
    BY <2>1, <2>2, NoneIsDistinct DEF CommitIsSound
  <2>4. CASE s = Target(w)
    <3>1. upload_sessions'[s] = RowAfter(w) /\ chunks'[s] = ChunksAfter(w)
      BY <2>2, <2>4 DEF Inv, TypeOK
    <3> QED  BY <2>3, <2>4, <3>1
  <2>5. CASE s # Target(w)
    <3>1. upload_sessions'[s] = upload_sessions[s] /\ chunks'[s] = chunks[s]
      BY <2>2, <2>5 DEF Inv, TypeOK
    <3>2. upload_sessions[s] \in UploadSession /\ upload_sessions[s] # None
      BY DEF Inv, TypeOK, Registered
    <3>3. upload_sessions[s].confirmed_offset \in Nat
      BY <3>2, MaxBytesAssumption DEF UploadSession
    <3> QED  BY <3>1, <3>2, <3>3 DEF SamePackage
  <2> QED  BY <2>4, <2>5
<1>4. \/ UNCHANGED <<upload_sessions, chunks>>
      \/ \E x \in Sessions, m \in Registrations : CreateSession(x, m)
      \/ \E w \in Workers : CommitPut(w) \/ CommitCompact(w) \/ CommitUnanswered(w)
  BY ZenonT(60) DEF Next, Serve, vars, Step, Write, Read, Receive, Reject, LockMissing, LockSession,
         PutRefuse, PutReplay, PutAppend, CompactRefuse, CompactRollback,
         CompactRewrite, Refresh, ReadSession, ReadAudit, ReadChunks, ReadContent,
         DbError, Close, Restart
<1> QED  BY <1>1, <1>2, <1>3, <1>4

\* Confirmed bytes are immutable: neither a retry, nor a compaction, nor a
\* failure or restart changes them.
THEOREM BytesNeverChange == Spec => ConfirmedBytesImmutable
<1>1. Inv /\ [Next]_vars =>
        [\A s \in Sessions : Registered(s) =>
           LET row == upload_sessions[s]
           IN  /\ upload_sessions'[s] # None
               /\ upload_sessions'[s].total_bytes = row.total_bytes
               /\ upload_sessions'[s].whole_sha256 = row.whole_sha256
               /\ upload_sessions'[s].confirmed_offset >= row.confirmed_offset
               /\ Whole(chunks'[s], row.confirmed_offset) = ArchivedPrefix(s)]_vars
  BY StepKeepsBytes DEF SamePackage, ArchivedPrefix
<1> QED  BY <1>1, Invariance, PTL DEF Spec, ConfirmedBytesImmutable

-------------------------------------------------------------------------------
(***************************************************************************)
(* What clients may rely on.                                               *)
(***************************************************************************)
\* A step of one worker.
Acts(w) ==
  \/ \E r \in Requests : Receive(w, r) \/ Reject(w, r)
  \/ Step(w) \/ CommitUnanswered(w) \/ DbError(w)

\* Who takes a step.
LEMMA StepShape ==
  ASSUME [Next]_vars
  PROVE  \/ UNCHANGED vars
         \/ Restart
         \/ \E s \in Sessions, m \in Registrations : CreateSession(s, m)
         \/ \E w \in Workers : Acts(w)
  BY DEF Next, Serve, Acts

\* What a worker changes besides itself: nothing of the others, and tables only
\* by the commit of the session it owns.
LEMMA ActsAlone ==
  ASSUME Inv, NEW w \in Workers, Acts(w)
  PROVE  /\ \A v \in Workers \ {w} : worker'[v] = worker[v]
         /\ \A s \in Sessions : \A v \in Workers \ {w} : lock[s] = v => lock'[s] = v
         /\ \/ UNCHANGED <<upload_sessions, chunks, audit_events>>
            \/ worker[w].pc = "commit" /\ CommitWrites(w)
         /\ \A s \in Sessions : \A v \in Workers \ {w} : lock[s] = v =>
              /\ upload_sessions'[s] = upload_sessions[s]
              /\ chunks'[s] = chunks[s]
              /\ audit_events'[s] = audit_events[s]
<1>1. TypeOK /\ worker \in [Workers -> WorkerState] /\ w # None
      /\ lock \in [Sessions -> {None} \cup Workers]
  BY NoneIsDistinct DEF Inv, TypeOK
<1>2. \A v \in Workers \ {w} : worker'[v] = worker[v]
  BY <1>1 DEF Acts, Step, Write, Read, Receive, Reject, LockMissing, LockSession,
         PutRefuse, PutReplay, PutAppend, CompactRefuse, CompactRollback,
         CompactRewrite, CommitPut, CommitCompact, Refresh, ReadSession, ReadAudit,
         ReadChunks, ReadContent, DbError, Close, CommitUnanswered
<1>3. \/ UNCHANGED <<upload_sessions, chunks, audit_events>>
      \/ worker[w].pc = "commit" /\ CommitWrites(w)
  BY DEF Acts, Step, Write, Read, Receive, Reject, LockMissing, LockSession,
         PutRefuse, PutReplay, PutAppend, CompactRefuse, CompactRollback,
         CompactRewrite, CommitPut, CommitCompact, Refresh, ReadSession, ReadAudit,
         ReadChunks, ReadContent, DbError, Close, CommitUnanswered
<1>4. \/ lock' = lock
      \/ lock' = Unlocked(w)
      \/ lock[Target(w)] = None /\ lock' = [lock EXCEPT ![Target(w)] = w]
  BY DEF Acts, Step, Write, Read, Receive, Reject, LockMissing, LockSession,
         PutRefuse, PutReplay, PutAppend, CompactRefuse, CompactRollback,
         CompactRewrite, CommitPut, CommitCompact, CommitWrites, Refresh, ReadSession,
         ReadAudit, ReadChunks, ReadContent, DbError, Close, CommitUnanswered
<1>5. \A s \in Sessions : \A v \in Workers \ {w} : lock[s] = v => lock'[s] = v
  BY <1>1, <1>4, NoneIsDistinct DEF Unlocked
<1>6. ASSUME NEW s \in Sessions, lock[s] # w
      PROVE  /\ upload_sessions'[s] = upload_sessions[s]
             /\ chunks'[s] = chunks[s]
             /\ audit_events'[s] = audit_events[s]
  <2>1. CASE UNCHANGED <<upload_sessions, chunks, audit_events>>  BY <2>1
  <2>2. CASE worker[w].pc = "commit" /\ CommitWrites(w)
    <3>1. /\ Target(w) \in Sessions /\ lock[Target(w)] = w
          /\ upload_sessions' = [upload_sessions EXCEPT ![Target(w)] = RowAfter(w)]
          /\ chunks' = [chunks EXCEPT ![Target(w)] = ChunksAfter(w)]
          /\ audit_events' = [audit_events EXCEPT ![Target(w)] =
                                audit_events[Target(w)] \cup worker[w].pending.audit]
      BY <2>2, CommitTables
    <3>2. s # Target(w)  BY <3>1, <1>6
    <3> QED  BY <3>1, <3>2, <1>1 DEF TypeOK
  <2> QED  BY <2>1, <2>2, <1>3
<1> QED  BY <1>2, <1>3, <1>5, <1>6

-------------------------------------------------------------------------------
(***************************************************************************)
(* Facts that later steps do not take back.                                *)
(***************************************************************************)
\* The numbers in a PUT that passed the checks of the endpoint.
LEMMA CheckedPut ==
  ASSUME NEW r \in Requests, r.kind = "put", RequestError(r) = None
  PROVE  /\ r.start_offset \in Nat /\ r.length \in Nat /\ EndOf(r) \in Nat
         /\ EndOf(r) = r.start_offset + r.length
         /\ r.payload \in Blobs /\ Len(r.payload) \in Nat /\ r.payload # None
<1>1. r \in PutRequest  BY RequestFacts
<1>2. /\ r.start_offset \in Int /\ r.length \in Int /\ r.payload \in Blobs
      /\ Len(r.payload) \in Nat
  BY <1>1, BlobIsSequence, MaxBytesAssumption DEF PutRequest
<1>3. ~(r.start_offset < 0) /\ ~(r.length < 0)
  BY NoneIsDistinct DEF RequestError, Codes
<1> QED  BY <1>2, <1>3, NoneAssumption DEF EndOf

\* A stored session: its numbers and its archive.
LEMMA StoredFacts ==
  ASSUME Inv, NEW s \in Sessions, Registered(s)
  PROVE  /\ upload_sessions[s] \in UploadSession /\ upload_sessions[s] # None
         /\ upload_sessions[s].confirmed_offset \in 0..MaxBytes
         /\ upload_sessions[s].total_bytes \in 0..MaxBytes
         /\ upload_sessions[s].confirmed_offset \in Nat
         /\ upload_sessions[s].total_bytes \in Nat
         /\ ArchiveAgrees(upload_sessions[s], chunks[s])
         /\ VerdictAgrees(upload_sessions[s], chunks[s])
         /\ Tiles(chunks[s], upload_sessions[s].confirmed_offset)
<1>1. upload_sessions[s] \in UploadSession /\ upload_sessions[s] # None
  BY DEF Inv, TypeOK, Registered
<1>2. ArchiveAgrees(upload_sessions[s], chunks[s])  BY DEF Inv, CheckpointMatchesArchive
<1>3. VerdictAgrees(upload_sessions[s], chunks[s])  BY DEF Inv, VerdictIsTrue
<1> QED  BY <1>1, <1>2, <1>3, MaxBytesAssumption DEF UploadSession, ArchiveAgrees

\* A payload that is archived below a checkpoint stays archived.
LEMMA HoldsKept ==
  ASSUME NEW r \in Requests, r.kind = "put", NEW row,
         NEW C, NEW n \in 0..MaxBytes, Tiles(C, n),
         NEW D, NEW m \in 0..MaxBytes, Tiles(D, m), n <= m, Whole(D, n) = Whole(C, n),
         Holds(row, C, r), EndOf(r) <= n
  PROVE  Holds(row, D, r)
<1>1. r.start_offset \in Nat /\ EndOf(r) \in Int  BY CheckedPut DEF Holds
<1>2. ArchivedBytes(D, r.start_offset, EndOf(r)) = ArchivedBytes(C, r.start_offset, EndOf(r))
  BY <1>1, SameSlice
<1> QED  BY <1>2 DEF Holds

\* One step later an earlier row still is an earlier row.
LEMMA EarlierKept ==
  ASSUME NEW row, NEW now, NEW next, NEW C, NEW D, now \in UploadSession,
         next \in UploadSession, EarlierRow(row, now), SamePackage(now, C, next, D),
         now.status # "active" => next = now
  PROVE  EarlierRow(row, next)
<1>1. /\ row.confirmed_offset \in Int /\ now.confirmed_offset \in Int
      /\ next.confirmed_offset \in Int
  BY MaxBytesAssumption DEF EarlierRow, UploadSession
<1> QED  BY <1>1 DEF EarlierRow, SamePackage

-------------------------------------------------------------------------------
(***************************************************************************)
(* Terminal sessions.                                                      *)
(***************************************************************************)
\* The commit of a worker, for the promises: only an active session gets a new
\* row, only a sealed one a new layout, and then a new audit row.
LEMMA CommitIsFinal ==
  ASSUME PromiseInv, NEW w \in Workers, worker[w].pc = "commit", CommitWrites(w),
         NEW s \in Sessions, Registered(s), upload_sessions[s].status # "active"
  PROVE  /\ upload_sessions'[s] = upload_sessions[s]
         /\ chunks'[s] # chunks[s] => /\ upload_sessions[s].status = "sealed"
                                      /\ audit_events'[s] # audit_events[s]
<1>1. Inv /\ TypeOK /\ WorkerInv(w) /\ CommitKeepsPromises(w)
  BY DEF PromiseInv, Promises, WorkerPromises, Inv
<1>2. /\ Target(w) \in Sessions /\ CommitIsSound(w)
      /\ upload_sessions' = [upload_sessions EXCEPT ![Target(w)] = RowAfter(w)]
      /\ chunks' = [chunks EXCEPT ![Target(w)] = ChunksAfter(w)]
      /\ audit_events' = [audit_events EXCEPT ![Target(w)] =
                            audit_events[Target(w)] \cup worker[w].pending.audit]
  BY <1>1, CommitTables
<1>3. CASE s # Target(w)  BY <1>1, <1>2, <1>3 DEF TypeOK
<1>4. CASE s = Target(w)
  <2>1. worker[w].req.kind \in {"put", "compact"}
    BY <1>1 DEF WorkerInv, RequestKnown, IsWriter
  <2>2. /\ worker[w].req.kind = "compact" /\ upload_sessions[s].status = "sealed"
        /\ worker[w].pending.audit # {}
    BY <1>1, <1>4, <2>1 DEF CommitKeepsPromises
  <2>3. upload_sessions'[s] = upload_sessions[s]
    BY <1>1, <1>2, <1>4, <2>2 DEF RowAfter, TypeOK
  <2>4. PICK e \in worker[w].pending.audit : TRUE  BY <2>2
  <2>5. e \notin audit_events[s]  BY <1>2, <1>4 DEF CommitIsSound, FlushIsUnique
  <2>6. e \in audit_events'[s]  BY <1>1, <1>2, <1>4, <2>4 DEF TypeOK
  <2> QED  BY <2>2, <2>3, <2>5, <2>6
<1> QED  BY <1>3, <1>4

\* No step changes the row of a terminal session.
LEMMA StepIsFinal ==
  ASSUME PromiseInv, [Next]_vars,
         NEW s \in Sessions, Registered(s), upload_sessions[s].status # "active"
  PROVE  /\ upload_sessions'[s] = upload_sessions[s]
         /\ chunks'[s] # chunks[s] => /\ upload_sessions[s].status = "sealed"
                                      /\ audit_events'[s] # audit_events[s]
<1>1. Inv /\ TypeOK  BY DEF PromiseInv, Inv
<1>2. CASE UNCHANGED vars  BY <1>2 DEF vars
<1>3. CASE Restart  BY <1>3 DEF Restart
<1>4. ASSUME NEW x \in Sessions, NEW m \in Registrations, CreateSession(x, m)
      PROVE  upload_sessions'[s] = upload_sessions[s] /\ chunks'[s] = chunks[s]
  BY <1>1, <1>4 DEF CreateSession, Registered, TypeOK
<1>5. ASSUME NEW w \in Workers, Acts(w)
      PROVE  /\ upload_sessions'[s] = upload_sessions[s]
             /\ chunks'[s] # chunks[s] => /\ upload_sessions[s].status = "sealed"
                                          /\ audit_events'[s] # audit_events[s]
  <2>1. CASE UNCHANGED <<upload_sessions, chunks, audit_events>>  BY <2>1
  <2>2. CASE worker[w].pc = "commit" /\ CommitWrites(w)  BY <2>2, CommitIsFinal
  <2> QED  BY <1>1, <1>5, <2>1, <2>2, ActsAlone
<1> QED  BY <1>2, <1>3, <1>4, <1>5, StepShape

-------------------------------------------------------------------------------
(***************************************************************************)
(* The promises of the workers that do not step.                           *)
(***************************************************************************)
\* A worker keeps its part: its own state and its locked tables are as before,
\* and every package only has grown.
LEMMA OthersKeepPromises ==
  ASSUME PromiseInv, Inv', NEW v \in Workers,
         worker'[v] = worker[v],
         \A s \in Sessions : lock[s] = v =>
           /\ lock'[s] = v
           /\ upload_sessions'[s] = upload_sessions[s]
           /\ chunks'[s] = chunks[s]
           /\ audit_events'[s] = audit_events[s],
         \A s \in Sessions : Registered(s) =>
           /\ upload_sessions'[s] # None
           /\ SamePackage(upload_sessions[s], chunks[s], upload_sessions'[s], chunks'[s])
           /\ upload_sessions[s].status # "active" =>
                upload_sessions'[s] = upload_sessions[s]
  PROVE  WorkerPromises(v)'
<1> DEFINE s == Target(v)
           r == worker[v].req
<1>1. Inv /\ TypeOK /\ WorkerInv(v) /\ WorkerPromises(v)
  BY DEF PromiseInv, Promises, Inv
<1>2. worker[v].pc # "idle" => r # None /\ r \in Requests /\ s \in Sessions
  BY <1>1, WorkerFacts DEF WorkerInv, RequestKnown
<1>3. Target(v)' = s  BY DEF Target
<1>4. RequestError(r)' = RequestError(r)  BY DEF RequestError
<1>5. Checked(v)'  BY <1>1, <1>4 DEF WorkerPromises, Checked
<1>6. CommitKeepsPromises(v)'
  <2> SUFFICES ASSUME worker[v].pc = "commit"  PROVE CommitKeepsPromises(v)'
    BY DEF CommitKeepsPromises
  <2>1. CommitKeepsPromises(v) /\ Owns(v)  BY <1>1 DEF WorkerPromises, WorkerInv
  <2>2. /\ upload_sessions'[s] = upload_sessions[s]
        /\ chunks'[s] = chunks[s]
        /\ audit_events'[s] = audit_events[s]
    BY <2>1, <1>2 DEF Owns
  <2>3. RowAfter(v)' = RowAfter(v) /\ ChunksAfter(v)' = ChunksAfter(v)
    BY <1>3, <2>2 DEF RowAfter, ChunksAfter
  <2> QED  BY <2>1, <2>2, <2>3, <1>3 DEF CommitKeepsPromises
<1>7. ASSUME Registered(s), s \in Sessions
      PROVE  /\ upload_sessions'[s] # None
             /\ upload_sessions[s] \in UploadSession /\ upload_sessions'[s] \in UploadSession
             /\ \A row : EarlierRow(row, upload_sessions[s])
                           => EarlierRow(row, upload_sessions'[s])
             /\ \A row : /\ r \in Requests /\ r.kind = "put" /\ Holds(row, chunks[s], r)
                         /\ EndOf(r) <= upload_sessions[s].confirmed_offset
                         => /\ Holds(row, chunks'[s], r)
                            /\ EndOf(r) <= upload_sessions'[s].confirmed_offset
  <2>1. /\ upload_sessions'[s] # None
        /\ SamePackage(upload_sessions[s], chunks[s], upload_sessions'[s], chunks'[s])
        /\ upload_sessions[s].status # "active" =>
             upload_sessions'[s] = upload_sessions[s]
    BY <1>7
  <2>2. /\ upload_sessions[s] \in UploadSession
        /\ upload_sessions[s].confirmed_offset \in 0..MaxBytes
        /\ Tiles(chunks[s], upload_sessions[s].confirmed_offset)
    BY <1>1, <1>7, StoredFacts
  <2>3. /\ upload_sessions'[s] \in UploadSession
        /\ upload_sessions'[s].confirmed_offset \in 0..MaxBytes
        /\ Tiles(chunks'[s], upload_sessions'[s].confirmed_offset)
    <3>1. upload_sessions'[s] \in UploadSession  BY <1>7, <2>1 DEF Inv, TypeOK
    <3>2. ArchiveAgrees(upload_sessions'[s], chunks'[s])
      BY <1>7, <2>1 DEF Inv, CheckpointMatchesArchive, Registered
    <3> QED  BY <3>1, <3>2 DEF UploadSession, ArchiveAgrees
  <2>4. \A row : EarlierRow(row, upload_sessions[s]) => EarlierRow(row, upload_sessions'[s])
    BY <2>1, <2>2, <2>3, EarlierKept
  <2>5. ASSUME NEW row, r \in Requests, r.kind = "put", Holds(row, chunks[s], r),
               EndOf(r) <= upload_sessions[s].confirmed_offset
        PROVE  /\ Holds(row, chunks'[s], r)
               /\ EndOf(r) <= upload_sessions'[s].confirmed_offset
    <3>1. /\ upload_sessions[s].confirmed_offset <= upload_sessions'[s].confirmed_offset
          /\ Whole(chunks'[s], upload_sessions[s].confirmed_offset)
               = Whole(chunks[s], upload_sessions[s].confirmed_offset)
      BY <2>1, <2>2, <2>3, MaxBytesAssumption DEF SamePackage
    <3>2. EndOf(r) \in Nat  BY <2>5, CheckedPut DEF Holds
    <3>3. Holds(row, chunks'[s], r)  BY <2>2, <2>3, <2>5, <3>1, HoldsKept
    <3> QED  BY <2>2, <2>3, <2>5, <3>1, <3>2, <3>3, MaxBytesAssumption
  <2> QED  BY <2>1, <2>2, <2>3, <2>4, <2>5
<1> HIDE DEF s, r
<1>8. Acknowledges(v)'
  <2>1. Acknowledges(v) /\ RequestKnown(v)  BY <1>1 DEF WorkerPromises, WorkerInv
  <2>2. ASSUME worker[v].pc = "refresh"  PROVE Holds(upload_sessions'[s], chunks'[s], r)
    <3>1. /\ Holds(upload_sessions[s], chunks[s], r) /\ r.kind = "put" /\ r \in Requests
          /\ Registered(s) /\ s \in Sessions
      BY <1>2, <2>1, <2>2 DEF Acknowledges, RequestKnown, s, r
    <3>2. EndOf(r) <= upload_sessions[s].confirmed_offset  BY <3>1 DEF Holds
    <3>3. /\ Holds(upload_sessions[s], chunks'[s], r)
          /\ EndOf(r) <= upload_sessions'[s].confirmed_offset
      BY <1>7, <3>1, <3>2
    <3> QED  BY <3>3 DEF Holds
  <2>3. ASSUME worker[v].pc = "done", worker[v].code \in {"ok", "replayed"}, r.kind = "put"
        PROVE  /\ upload_sessions'[s] # None
               /\ EarlierRow(worker[v].loaded, upload_sessions'[s])
               /\ Holds(worker[v].loaded, chunks'[s], r)
               /\ worker[v].code = "ok" /\ EndOf(r) = worker[v].loaded.total_bytes
                    => worker[v].loaded.status = "sealed"
    <3>1. /\ Registered(s) /\ s \in Sessions /\ r \in Requests
          /\ EarlierRow(worker[v].loaded, upload_sessions[s])
          /\ Holds(worker[v].loaded, chunks[s], r)
          /\ worker[v].code = "ok" /\ EndOf(r) = worker[v].loaded.total_bytes
               => worker[v].loaded.status = "sealed"
      BY <1>2, <2>1, <2>3 DEF Acknowledges, s, r
    <3>2. EndOf(r) <= upload_sessions[s].confirmed_offset
      <4>1. EndOf(r) \in Nat  BY <2>3, <3>1, CheckedPut DEF Holds
      <4>2. worker[v].loaded.confirmed_offset \in Int
            /\ upload_sessions[s].confirmed_offset \in Int
        BY <1>7, <3>1 DEF EarlierRow, UploadSession
      <4> QED  BY <3>1, <4>1, <4>2 DEF EarlierRow, Holds
    <3> QED  BY <1>7, <2>3, <3>1, <3>2
  <2> QED  BY <2>2, <2>3, <1>3 DEF Acknowledges, Registered, r
<1>9. Refuses(v)'
  <2> SUFFICES ASSUME worker[v].pc = "done", worker[v].code \in ProtocolConflicts
               PROVE  /\ lock'[s] = v
                      /\ r.length > 0 =>
                           ArchivedBytes(chunks'[s], r.start_offset, EndOf(r)) # r.payload
    BY <1>3 DEF Refuses, r
  <2>1. Refuses(v)  BY <1>1 DEF WorkerPromises
  <2>2. /\ lock[s] = v
        /\ r.length > 0 => ArchivedBytes(chunks[s], r.start_offset, EndOf(r)) # r.payload
    BY <2>1 DEF Refuses, s, r
  <2>3. lock'[s] = v /\ chunks'[s] = chunks[s]  BY <1>2, <2>2
  <2> QED  BY <2>2, <2>3
<1>10. HasRead(v)'
  <2> SUFFICES ASSUME worker[v].pc = "rows"  PROVE HasRead(v)'  BY DEF HasRead
  <2>1. HasRead(v) /\ s \in Sessions  BY <1>1, <1>2 DEF WorkerPromises
  <2>2. Registered(s) /\ EarlierRow(worker[v].loaded, upload_sessions[s])
        /\ (r.kind = "content" => worker[v].loaded.status = "sealed")
    BY <2>1 DEF HasRead, s, r
  <2>3. upload_sessions'[s] # None /\ EarlierRow(worker[v].loaded, upload_sessions'[s])
    BY <1>7, <2>1, <2>2
  <2> QED  BY <2>2, <2>3, <1>3 DEF HasRead, Registered, r
<1>11. Answers(v)'
  <2>1. Answers(v)  BY <1>1 DEF WorkerPromises
  <2> QED  BY <2>1, <1>3 DEF Answers, s
<1> QED  BY <1>5, <1>6, <1>8, <1>9, <1>10, <1>11 DEF WorkerPromises

-------------------------------------------------------------------------------
(***************************************************************************)
(* The audit trail.                                                        *)
(***************************************************************************)
\* The next number is 1 in an empty trail, and only there.
LEMMA FirstIsOne ==
  ASSUME NEW s \in Sessions, Numbered(audit_events[s])
  PROVE  NextAuditSequence(s) = 1 <=> audit_events[s] = {}
<1> DEFINE A == audit_events[s]
<1>1. PICK e : e = SealedEvent(NextAuditSequence(s), 0, None)  OBVIOUS
<1>2. e.sequence = NextAuditSequence(s)  BY <1>1 DEF SealedEvent
<1>3. /\ \A f \in A : e.sequence # f.sequence
      /\ Numbered(A \cup {e})
      /\ NextAuditSequence(s) \in Nat \ {0}
  BY <1>2, NextSequenceContinues
<1>4. CASE A = {}
  <2>1. A \cup {e} = {e}  BY <1>4
  <2>2. IsFiniteSet({e}) /\ Cardinality({e}) = 1  BY FS_Singleton
  <2>3. {f.sequence : f \in {e}} = 1..1  BY <2>1, <2>2, <1>3 DEF Numbered
  <2>4. e.sequence \in {f.sequence : f \in {e}}  OBVIOUS
  <2>5. e.sequence = 1  BY <2>3, <2>4
  <2> QED  BY <1>2, <1>4, <2>5
<1>5. CASE A # {}
  <2>1. IsFiniteSet(A) /\ {f.sequence : f \in A} = 1..Cardinality(A)  BY DEF Numbered
  <2>2. Cardinality(A) \in Nat /\ Cardinality(A) # 0
    BY <2>1, <1>5, FS_CardinalityType, FS_EmptySet
  <2>3. 1 \in {f.sequence : f \in A}  BY <2>1, <2>2
  <2>4. PICK f \in A : f.sequence = 1  BY <2>3
  <2> QED  BY <2>4, <1>2, <1>3, <1>5
<1> QED  BY <1>4, <1>5

\* A trail that is not empty has an event numbered 1.
LEMMA FirstExists ==
  ASSUME NEW A, Numbered(A), A # {}
  PROVE  \E e \in A : e.sequence = 1
<1>1. IsFiniteSet(A) /\ {f.sequence : f \in A} = 1..Cardinality(A)  BY DEF Numbered
<1>2. Cardinality(A) \in Nat /\ Cardinality(A) # 0
  BY <1>1, FS_CardinalityType, FS_EmptySet
<1>3. 1 \in {f.sequence : f \in A}  BY <1>1, <1>2
<1> QED  BY <1>3

\* Every step keeps the trails in accord with the session rows.
LEMMA TrailsStep ==
  ASSUME PromiseInv, [Next]_vars
  PROVE  TrailsAgree'
<1>1. Inv /\ TypeOK /\ TrailsAgree  BY DEF PromiseInv, Promises, Inv
<1>2. CASE UNCHANGED <<upload_sessions, audit_events>>
  BY <1>1, <1>2 DEF TrailsAgree, Registered
<1>3. ASSUME NEW x \in Sessions, NEW m \in Registrations, CreateSession(x, m)
      PROVE  TrailsAgree'
  <2> DEFINE row   == RegisteredRow(m.total_bytes, m.whole_sha256)
             trail == IF row.status = "sealed" THEN {SealedEvent(1, 0, EmptySha256)} ELSE {}
  <2>1. /\ upload_sessions[x] = None
        /\ upload_sessions' = [upload_sessions EXCEPT ![x] = row]
        /\ audit_events' = [audit_events EXCEPT ![x] = trail]
    BY <1>3 DEF CreateSession
  <2>2. row # None
    <3> HIDE DEF row
    <3> QED  BY RegisteredIsSound, NoneIsDistinct DEF row
  <2>3. x \notin DOMAIN Legacy  BY <1>1, <2>1 DEF TrailsAgree, Registered
  <2>4. TrailAgrees(row, trail, x)
    <3> HIDE DEF row
    <3>1. \A e \in trail : e.event = "sealed" /\ e.sequence = 1  BY DEF SealedEvent
    <3>2. trail # {} <=> row.status = "sealed"  OBVIOUS
    <3> HIDE DEF trail
    <3> QED  BY <2>3, <3>1, <3>2 DEF TrailAgrees
  <2> HIDE DEF row, trail
  <2>5. \A s \in Sessions :
          /\ upload_sessions'[s] = IF s = x THEN row ELSE upload_sessions[s]
          /\ audit_events'[s] = IF s = x THEN trail ELSE audit_events[s]
    BY <1>1, <2>1 DEF TypeOK
  <2> QED  BY <1>1, <2>2, <2>4, <2>5 DEF TrailsAgree, Registered
<1>4. ASSUME NEW w \in Workers, worker[w].pc = "commit", CommitWrites(w)
      PROVE  TrailsAgree'
  <2> DEFINE t     == Target(w)
             trail == audit_events[t] \cup worker[w].pending.audit
  <2>1. /\ t \in Sessions /\ CommitIsSound(w)
        /\ upload_sessions' = [upload_sessions EXCEPT ![t] = RowAfter(w)]
        /\ audit_events' = [audit_events EXCEPT ![t] = trail]
    BY <1>1, <1>4, CommitTables
  <2>2. RowAfter(w) # None  BY <1>4, <2>1, NoneIsDistinct DEF CommitIsSound
  <2>3. TrailAgrees(RowAfter(w), trail, t)
    BY <1>4 DEF PromiseInv, Promises, WorkerPromises, CommitKeepsPromises
  <2> HIDE DEF t, trail
  <2>4. \A s \in Sessions :
          /\ upload_sessions'[s] = IF s = t THEN RowAfter(w) ELSE upload_sessions[s]
          /\ audit_events'[s] = IF s = t THEN trail ELSE audit_events[s]
    BY <1>1, <2>1 DEF TypeOK
  <2> QED  BY <1>1, <2>2, <2>3, <2>4 DEF TrailsAgree, Registered
<1>5. \/ UNCHANGED <<upload_sessions, audit_events>>
      \/ \E x \in Sessions, m \in Registrations : CreateSession(x, m)
      \/ \E w \in Workers : worker[w].pc = "commit" /\ CommitWrites(w)
  <2>1. CASE UNCHANGED vars  BY <2>1 DEF vars
  <2>2. CASE Restart  BY <2>2 DEF Restart
  <2>3. CASE \E w \in Workers : Acts(w)  BY <1>1, <2>3, ActsAlone
  <2> QED  BY <2>1, <2>2, <2>3, StepShape
<1> QED  BY <1>2, <1>3, <1>4, <1>5

\* The audit row of a compaction follows the last one and describes the rows it
\* leaves, so the longer trail explains the new layout as the trail did the old.
LEMMA CompactionExplained ==
  ASSUME NEW row, NEW s, NEW C, NEW D, NEW A \in SUBSET AuditEvent, NEW event,
         Numbered(A), TrailAgrees(row, A, s), LayoutExplained(row, C, A),
         event.event = "compacted",
         event.sequence = Cardinality(A) + 1,
         event.chunks_before = Cardinality(C),
         event.chunks_after = Cardinality(D),
         Spans(D) = PlannedSpans(row.total_bytes, event.target_chunk_bytes)
  PROVE  LayoutExplained(row, D, A \cup {event})
<1> DEFINE n      == Cardinality(A)
           packed == {e \in A : e.event = "compacted"}
           more   == {e \in A \cup {event} : e.event = "compacted"}
<1>1. n \in Nat /\ {e.sequence : e \in A} = 1..n  BY FS_CardinalityType DEF Numbered
<1>2. \A e \in A : e.sequence \in 1..n  BY <1>1
<1>3. more = packed \cup {event}  OBVIOUS
<1>4. ASSUME NEW e \in packed, e.sequence # n
      PROVE  \E f \in packed : f.sequence = e.sequence + 1
  <2>1. e.sequence \in 1..n /\ e.sequence + 1 \in 1..n /\ e.sequence + 1 # 1
    BY <1>1, <1>2, <1>4
  <2>2. PICK f \in A : f.sequence = e.sequence + 1  BY <1>1, <2>1
  <2>3. f.event # "sealed"  BY <2>1, <2>2 DEF TrailAgrees
  <2>4. f.event = "compacted"  BY <2>3 DEF AuditEvent
  <2> QED  BY <2>2, <2>4
<1>5. ASSUME NEW e \in packed, e.sequence # n, NEW f \in more, f.sequence = e.sequence + 1
      PROVE  f.chunks_before = e.chunks_after
  <2>1. e.sequence \in 1..n  BY <1>2
  <2>2. f # event  BY <1>1, <1>5, <2>1
  <2>3. f \in packed  BY <1>3, <2>2
  <2> QED  BY <1>4, <1>5, <2>3 DEF LayoutExplained
<1>6. ASSUME NEW e \in packed, e.sequence = n, NEW f \in more, f.sequence = e.sequence + 1
      PROVE  f.chunks_before = e.chunks_after
  <2>1. \A g \in packed : g.sequence # e.sequence + 1  BY <1>1, <1>2, <1>6
  <2>2. Cardinality(C) = e.chunks_after  BY <2>1 DEF LayoutExplained
  <2>3. f = event  BY <1>3, <1>6, <2>1
  <2> QED  BY <2>2, <2>3
<1>7. ASSUME NEW e \in packed  PROVE \E f \in more : f.sequence = e.sequence + 1
  <2>1. CASE e.sequence # n  BY <1>3, <1>4, <2>1
  <2>2. CASE e.sequence = n  BY <1>3, <2>2
  <2> QED  BY <2>1, <2>2
<1>8. \A f \in more : f.sequence # event.sequence + 1  BY <1>1, <1>2, <1>3
<1>9. ASSUME NEW e \in more
      PROVE  IF \E f \in more : f.sequence = e.sequence + 1
             THEN \A f \in more : f.sequence = e.sequence + 1 => f.chunks_before = e.chunks_after
             ELSE /\ Cardinality(D) = e.chunks_after
                  /\ Spans(D) = PlannedSpans(row.total_bytes, e.target_chunk_bytes)
  <2>1. CASE e = event  BY <2>1, <1>8
  <2>2. CASE e \in packed  BY <2>2, <1>5, <1>6, <1>7
  <2> QED  BY <2>1, <2>2, <1>3
<1> QED  BY <1>9 DEF LayoutExplained

\* A trail without compaction explains every layout.
LEMMA NothingToExplain ==
  ASSUME NEW row, NEW C, NEW A, \A e \in A : e.event = "sealed"
  PROVE  LayoutExplained(row, C, A)
BY DEF LayoutExplained

\* Every step keeps the layouts explained by the trails.
LEMMA ExplainedStep ==
  ASSUME PromiseInv, [Next]_vars
  PROVE  AuditTrailExplainsLayout'
<1>1. Inv /\ TypeOK /\ AuditTrailExplainsLayout  BY DEF PromiseInv, Promises, Inv
<1>2. CASE UNCHANGED <<upload_sessions, chunks, audit_events>>
  BY <1>1, <1>2 DEF AuditTrailExplainsLayout
<1>3. ASSUME NEW x \in Sessions, NEW m \in Registrations, CreateSession(x, m)
      PROVE  AuditTrailExplainsLayout'
  <2> DEFINE row   == RegisteredRow(m.total_bytes, m.whole_sha256)
             trail == IF row.status = "sealed" THEN {SealedEvent(1, 0, EmptySha256)} ELSE {}
  <2>1. /\ upload_sessions' = [upload_sessions EXCEPT ![x] = row]
        /\ audit_events' = [audit_events EXCEPT ![x] = trail]
        /\ chunks' = chunks
    BY <1>3 DEF CreateSession
  <2>2. \A e \in trail : e.event = "sealed"  BY DEF SealedEvent
  <2> HIDE DEF row, trail
  <2>3. LayoutExplained(row, chunks[x], trail)  BY <2>2, NothingToExplain
  <2>4. \A s \in Sessions :
          /\ upload_sessions'[s] = IF s = x THEN row ELSE upload_sessions[s]
          /\ audit_events'[s] = IF s = x THEN trail ELSE audit_events[s]
    BY <1>1, <2>1 DEF TypeOK
  <2> QED  BY <1>1, <2>1, <2>3, <2>4 DEF AuditTrailExplainsLayout
<1>4. ASSUME NEW w \in Workers, worker[w].pc = "commit", CommitWrites(w)
      PROVE  AuditTrailExplainsLayout'
  <2> DEFINE t     == Target(w)
             trail == audit_events[t] \cup worker[w].pending.audit
  <2>1. /\ t \in Sessions
        /\ upload_sessions' = [upload_sessions EXCEPT ![t] = RowAfter(w)]
        /\ chunks' = [chunks EXCEPT ![t] = ChunksAfter(w)]
        /\ audit_events' = [audit_events EXCEPT ![t] = trail]
    BY <1>1, <1>4, CommitTables
  <2>2. LayoutExplained(RowAfter(w), ChunksAfter(w), trail)
    BY <1>4 DEF PromiseInv, Promises, WorkerPromises, CommitKeepsPromises
  <2> HIDE DEF t, trail
  <2>3. \A s \in Sessions :
          /\ upload_sessions'[s] = IF s = t THEN RowAfter(w) ELSE upload_sessions[s]
          /\ chunks'[s] = IF s = t THEN ChunksAfter(w) ELSE chunks[s]
          /\ audit_events'[s] = IF s = t THEN trail ELSE audit_events[s]
    BY <1>1, <2>1 DEF TypeOK
  <2> QED  BY <1>1, <2>2, <2>3 DEF AuditTrailExplainsLayout
<1>5. \/ UNCHANGED <<upload_sessions, chunks, audit_events>>
      \/ \E x \in Sessions, m \in Registrations : CreateSession(x, m)
      \/ \E w \in Workers : worker[w].pc = "commit" /\ CommitWrites(w)
  <2>1. CASE UNCHANGED vars  BY <2>1 DEF vars
  <2>2. CASE Restart  BY <2>2 DEF Restart
  <2>3. CASE \E w \in Workers : Acts(w)  BY <1>1, <2>3, ActsAlone
  <2> QED  BY <2>1, <2>2, <2>3, StepShape
<1> QED  BY <1>2, <1>3, <1>4, <1>5

-------------------------------------------------------------------------------
(***************************************************************************)
(* The worker that steps: answers that promise nothing.                    *)
(***************************************************************************)
\* An idle worker has promised nothing yet.
LEMMA IdlePromisesNothing ==
  ASSUME NEW w \in Workers, worker'[w] = Idle
  PROVE  WorkerPromises(w)'
<1>1. worker'[w].pc = "idle" /\ worker'[w].fetched = None  BY DEF Idle
<1> QED  BY <1>1 DEF WorkerPromises, Checked, CommitKeepsPromises, Acknowledges, Refuses,
                     HasRead, Answers

\* Neither does an answer that is no acknowledgment of a PUT, no refusal by the
\* upload protocol, and carries no rows.
LEMMA PlainAnswer ==
  ASSUME NEW w \in Workers,
         worker'[w].pc = "done",
         worker'[w].fetched = None,
         worker'[w].code \notin ProtocolConflicts,
         worker'[w].code \notin {"ok", "replayed"} \/ worker'[w].req.kind # "put"
  PROVE  WorkerPromises(w)'
  BY DEF WorkerPromises, Checked, CommitKeepsPromises, Acknowledges, Refuses, HasRead, Answers

\* The steps that end in such an answer.
LEMMA PlainAnswerSteps ==
  ASSUME PromiseInv, NEW w \in Workers,
         \/ \E r \in Requests : Reject(w, r)
         \/ LockMissing(w) \/ CompactRefuse(w) \/ CompactRollback(w)
         \/ CommitCompact(w) \/ CommitUnanswered(w) \/ DbError(w)
  PROVE  WorkerPromises(w)'
<1>1. /\ worker \in [Workers -> WorkerState] /\ worker[w] \in WorkerState
      /\ worker[w].pc # "done" => worker[w].fetched = None
  BY WorkerFacts DEF PromiseInv, Inv, TypeOK, Promises, WorkerPromises, Checked
<1> DEFINE plain == {"session_not_found", "compaction_state_conflict", "server_error",
                     "compaction_integrity_error", "audit_write_failed",
                     "chunk_too_large", "invalid_offset", "invalid_length",
                     "validation_error"}
<1>2. \A code \in plain : code \notin ProtocolConflicts /\ code \notin {"ok", "replayed"}
  BY DEF ProtocolConflicts
<1>3. /\ "session_not_found" \in plain /\ "compaction_state_conflict" \in plain
      /\ "server_error" \in plain
  OBVIOUS
<1>4. ASSUME NEW r \in Requests, RequestError(r) # None  PROVE RequestError(r) \in plain
  <2>1. r.kind \in {"put", "compact", "session", "chunks", "content", "audit"}
    BY RequestFacts DEF Request, PutRequest, CompactRequest, ReadRequest
  <2> QED  BY <1>4, <2>1 DEF RequestError
<1>5. \A row, C, target : CompactError(row, C, target) # None
                            => CompactError(row, C, target) \in plain
  BY DEF CompactError
<1> HIDE DEF plain
<1>6. ASSUME NEW code \in plain, worker[w].pc # "done",
             worker'[w].pc = "done", worker'[w].code = code,
             worker'[w].fetched = worker[w].fetched
      PROVE  WorkerPromises(w)'
  BY <1>1, <1>2, <1>6, PlainAnswer
<1>7. CASE \E r \in Requests : Reject(w, r)
  <2>1. PICK r \in Requests : Reject(w, r)  BY <1>7
  <2>2. worker[w].pc = "idle" /\ RequestError(r) \in plain  BY <1>4, <2>1 DEF Reject
  <2>3. /\ worker'[w].pc = "done" /\ worker'[w].code = RequestError(r)
        /\ worker'[w].fetched = worker[w].fetched
    BY <1>1, <2>1 DEF Reject, WorkerState
  <2> QED  BY <1>6, <2>2, <2>3
<1>8. CASE LockMissing(w)
  <2>1. worker[w].pc = "select"  BY <1>8 DEF LockMissing
  <2>2. /\ worker'[w].pc = "done" /\ worker'[w].code = "session_not_found"
        /\ worker'[w].fetched = worker[w].fetched
    BY <1>1, <1>8 DEF LockMissing, WorkerState
  <2> QED  BY <1>3, <1>6, <2>1, <2>2
<1>9. CASE CompactRefuse(w)
  <2>1. worker[w].pc = "handle"  BY <1>9 DEF CompactRefuse, Handles
  <2>2. /\ worker'[w].pc = "done" /\ worker'[w].code = "compaction_state_conflict"
        /\ worker'[w].fetched = worker[w].fetched
    BY <1>1, <1>9 DEF CompactRefuse, WorkerState
  <2> QED  BY <1>3, <1>6, <2>1, <2>2
<1>10. CASE CompactRollback(w)
  <2> DEFINE error == CompactError(worker[w].loaded, chunks[Target(w)],
                                   worker[w].req.target_chunk_bytes)
  <2>1. /\ worker[w].pc = "handle" /\ error \in plain
        /\ worker' = [worker EXCEPT ![w].pc = "done", ![w].code = error]
    BY <1>5, <1>10 DEF CompactRollback, Compacts, Handles
  <2> HIDE DEF error
  <2>2. /\ worker'[w].pc = "done" /\ worker'[w].code = error
        /\ worker'[w].fetched = worker[w].fetched
    BY <1>1, <2>1 DEF WorkerState
  <2> QED  BY <1>6, <2>1, <2>2
<1>11. CASE CommitCompact(w)
  <2>1. worker[w].pc = "commit" /\ worker[w].req.kind = "compact"
    BY <1>11 DEF CommitCompact
  <2>2. /\ worker'[w].pc = "done" /\ worker'[w].code = "ok"
        /\ worker'[w].fetched = worker[w].fetched /\ worker'[w].req = worker[w].req
    BY <1>1, <1>11 DEF CommitCompact, WorkerState
  <2>3. worker'[w].req.kind # "put" /\ "ok" \notin ProtocolConflicts
    BY <2>1, <2>2 DEF ProtocolConflicts
  <2> QED  BY <1>1, <2>1, <2>2, <2>3, PlainAnswer
<1>12. CASE CommitUnanswered(w)
  <2>1. worker[w].pc = "commit"  BY <1>12 DEF CommitUnanswered
  <2>2. /\ worker'[w].pc = "done" /\ worker'[w].code = "server_error"
        /\ worker'[w].fetched = worker[w].fetched
    BY <1>1, <1>12 DEF CommitUnanswered, WorkerState
  <2> QED  BY <1>3, <1>6, <2>1, <2>2
<1>13. CASE DbError(w)
  <2>1. worker[w].pc # "done"  BY <1>13 DEF DbError, InProgress
  <2>2. /\ worker'[w].pc = "done" /\ worker'[w].code = "server_error"
        /\ worker'[w].fetched = worker[w].fetched
    BY <1>1, <1>13 DEF DbError, WorkerState
  <2> QED  BY <1>3, <1>6, <2>1, <2>2
<1> QED  BY <1>7, <1>8, <1>9, <1>10, <1>11, <1>12, <1>13

\* A request that waits for its session has promised nothing either.
LEMMA EntrySteps ==
  ASSUME PromiseInv, NEW w \in Workers,
         (\E r \in Requests : Receive(w, r)) \/ LockSession(w)
  PROVE  WorkerPromises(w)'
<1>1. /\ worker \in [Workers -> WorkerState] /\ worker[w] \in WorkerState
      /\ worker[w].pc # "done" => worker[w].fetched = None
      /\ worker[w].pc = "select" => RequestError(worker[w].req) = None
  BY WorkerFacts DEF PromiseInv, Inv, TypeOK, Promises, WorkerPromises, Checked,
                     WorkerInv, RequestKnown
<1>2. /\ worker'[w].pc \in {"select", "handle"}
      /\ worker'[w].fetched = None
      /\ worker'[w].pc = "handle" => RequestError(worker'[w].req) = None
  <2>1. CASE \E r \in Requests : Receive(w, r)
    BY <1>1, <2>1, ZenonT(60) DEF Receive, WorkerState
  <2>2. CASE LockSession(w)
    BY <1>1, <2>2 DEF LockSession, WorkerState
  <2> QED  BY <2>1, <2>2
<1>3. RequestError(worker[w].req)' = RequestError(worker'[w].req)  BY DEF RequestError
<1> QED  BY <1>2, <1>3 DEF WorkerPromises, Checked, CommitKeepsPromises, Acknowledges,
                           Refuses, HasRead, Answers

-------------------------------------------------------------------------------
(***************************************************************************)
(* The worker that steps: a PUT.                                           *)
(***************************************************************************)
\* put_chunk refuses no non-empty chunk whose bytes are the archived ones.
LEMMA RefusedBytesDiffer ==
  ASSUME NEW row \in UploadSession, NEW C, ArchiveAgrees(row, C),
         NEW r \in Requests, r.kind = "put", RequestError(r) = None, r.length > 0,
         PutVerdict(row, C, r) \in ProtocolConflicts
  PROVE  ArchivedBytes(C, r.start_offset, EndOf(r)) # r.payload
<1>1. /\ r.start_offset \in Nat /\ r.length \in Nat /\ EndOf(r) \in Nat
      /\ EndOf(r) = r.start_offset + r.length /\ r.payload # None
  BY CheckedPut
<1>2. /\ row.confirmed_offset \in Nat /\ row.total_bytes \in Nat
      /\ row.confirmed_offset <= row.total_bytes
      /\ (row.status = "active" <=> row.confirmed_offset < row.total_bytes)
      /\ Tiles(C, row.confirmed_offset)
  BY MaxBytesAssumption DEF UploadSession, ArchiveAgrees
<1>3. r.start_offset < EndOf(r)  BY <1>1
<1>4. CASE row.confirmed_offset < EndOf(r)
  BY <1>1, <1>2, <1>3, <1>4, BeyondIsNotArchived
<1>5. CASE EndOf(r) <= row.confirmed_offset
  <2> SUFFICES ASSUME ArchivedBytes(C, r.start_offset, EndOf(r)) = r.payload
               PROVE  PutVerdict(row, C, r) \notin ProtocolConflicts
    OBVIOUS
  <2>1. ~(EndOf(r) > row.total_bytes)  BY <1>1, <1>2, <1>5
  <2>2. row.status = "active" => ActiveVerdict(row, C, r) = "replay"
    BY <1>1, <1>2, <1>3, <1>5 DEF ActiveVerdict
  <2>3. row.status # "active" => TerminalVerdict(row, C, r) = "replay"
    BY <1>1, <1>2, <1>3, <1>5 DEF TerminalVerdict
  <2>4. PutVerdict(row, C, r) \in {"length_mismatch", "chunk_digest_mismatch", "replay"}
    BY <2>1, <2>2, <2>3 DEF PutVerdict
  <2> QED  BY <2>4 DEF ProtocolConflicts
<1> QED  BY <1>1, <1>2, <1>4, <1>5

\* A replayed chunk is archived below the checkpoint.
LEMMA ReplayedIsHeld ==
  ASSUME NEW row \in UploadSession, NEW C,
         NEW r \in Requests, r.kind = "put", RequestError(r) = None,
         PutVerdict(row, C, r) = "replay"
  PROVE  Holds(row, C, r)
<1>1. /\ r.start_offset \in Nat /\ r.length \in Nat /\ EndOf(r) \in Nat
      /\ EndOf(r) = r.start_offset + r.length /\ r.payload \in Blobs
  BY CheckedPut
<1>2. row.confirmed_offset \in Nat  BY MaxBytesAssumption DEF UploadSession
<1>3. Len(r.payload) = r.length /\ (ActiveVerdict(row, C, r) = "replay" \/
                                    TerminalVerdict(row, C, r) = "replay")
  BY DEF PutVerdict
<1>4. CASE EndOf(r) = r.start_offset /\ EndOf(r) = row.confirmed_offset
  <2>1. r.length = 0  BY <1>1, <1>4
  <2>2. ArchivedBytes(C, r.start_offset, r.start_offset) = r.payload
    BY <1>1, <1>3, <2>1, EmptySlice
  <2> QED  BY <1>2, <1>4, <2>2 DEF Holds
<1>5. CASE /\ EndOf(r) <= row.confirmed_offset
           /\ ArchivedBytes(C, r.start_offset, EndOf(r)) = r.payload
  BY <1>5 DEF Holds
<1>6. ActiveVerdict(row, C, r) = "replay" =>
        \/ EndOf(r) = r.start_offset /\ EndOf(r) = row.confirmed_offset
        \/ EndOf(r) <= row.confirmed_offset
           /\ ArchivedBytes(C, r.start_offset, EndOf(r)) = r.payload
  BY <1>1, <1>2 DEF ActiveVerdict
<1>7. TerminalVerdict(row, C, r) = "replay" =>
        EndOf(r) <= row.confirmed_offset
        /\ ArchivedBytes(C, r.start_offset, EndOf(r)) = r.payload
  BY DEF TerminalVerdict
<1> QED  BY <1>3, <1>4, <1>5, <1>6, <1>7

\* The chunk a PUT appends is archived below the checkpoint it leaves.
LEMMA AppendedIsHeld ==
  ASSUME NEW row \in UploadSession, NEW C, ArchiveAgrees(row, C),
         NEW r \in Requests, r.kind = "put", RequestError(r) = None,
         PutVerdict(row, C, r) = "append",
         NEW D, D = C \cup {RowOf(r.start_offset, r.payload)},
         NEW new, new = Advanced(row, D, EndOf(r))
  PROVE  Holds(new, D, r)
<1>1. /\ r.start_offset \in Nat /\ r.length \in Nat /\ EndOf(r) \in Nat
      /\ EndOf(r) = r.start_offset + r.length /\ r.payload \in Blobs
  BY CheckedPut
<1>2. /\ Len(r.payload) = r.length /\ ~(EndOf(r) > row.total_bytes)
      /\ row.status = "active" /\ r.start_offset = row.confirmed_offset
      /\ EndOf(r) > row.confirmed_offset
  BY AppendVerdict
<1>3. new.confirmed_offset = EndOf(r)
  BY DEF Advanced, Finalized, UploadSession
<1>4. Tiles(C, row.confirmed_offset) /\ row.confirmed_offset \in Nat
  BY MaxBytesAssumption DEF ArchiveAgrees, UploadSession
<1>5. Len(r.payload) > 0  BY <1>1, <1>2, <1>4
<1>6. Tiles(D, EndOf(r))
  BY <1>1, <1>2, <1>4, <1>5, AppendTiles
<1>7. ArchivedBytes(D, r.start_offset, r.start_offset + Len(r.payload)) = r.payload
  BY <1>1, <1>6, RowIsArchived
<1> QED  BY <1>1, <1>2, <1>3, <1>7 DEF Holds

\* What the owner of a session knows of the PUT it handles.
LEMMA PutKnown ==
  ASSUME PromiseInv, NEW w \in Workers, Handles(w, "put")
  PROVE  /\ worker \in [Workers -> WorkerState] /\ worker[w] \in WorkerState
         /\ w # None /\ lock \in [Sessions -> {None} \cup Workers]
         /\ worker[w].pc = "handle" /\ worker[w].req.kind = "put"
         /\ Target(w) \in Sessions /\ Registered(Target(w))
         /\ worker[w].req \in Requests /\ RequestError(worker[w].req) = None
         /\ worker[w].fetched = None
         /\ worker[w].loaded = upload_sessions[Target(w)]
         /\ worker[w].loaded \in UploadSession
         /\ ArchiveAgrees(worker[w].loaded, chunks[Target(w)])
         /\ lock[Target(w)] = w
<1>1. /\ Inv /\ TypeOK /\ WorkerInv(w) /\ Checked(w)
      /\ worker[w].pc = "handle" /\ worker[w].req.kind = "put"
  BY DEF PromiseInv, Promises, WorkerPromises, Inv, Handles
<1>2. worker[w].fetched = None /\ RequestError(worker[w].req) = None
  BY <1>1 DEF Checked
<1>3. lock[Target(w)] = w  BY <1>1 DEF WorkerInv, Owns
<1> QED  BY <1>1, <1>2, <1>3, OwnerKnows, WorkerFacts DEF TypeOK

\* A refusal was decided on the archive as it is.
LEMMA PutRefuseKeeps ==
  ASSUME PromiseInv, NEW w \in Workers, PutRefuse(w)
  PROVE  WorkerPromises(w)'
<1> DEFINE s == Target(w)
           r == worker[w].req
           C == chunks[s]
           code == PutVerdict(worker[w].loaded, C, r)
<1>1. /\ worker' = [worker EXCEPT ![w].pc = "done", ![w].code = code]
      /\ UNCHANGED <<chunks, lock>> /\ Handles(w, "put")
  BY DEF PutRefuse, Verdict
<1>2. /\ worker \in [Workers -> WorkerState] /\ worker[w] \in WorkerState
      /\ r \in Requests /\ r.kind = "put" /\ RequestError(r) = None
      /\ worker[w].fetched = None /\ lock[s] = w
      /\ worker[w].loaded \in UploadSession /\ ArchiveAgrees(worker[w].loaded, C)
  BY <1>1, PutKnown
<1>3. code \notin {"ok", "replayed"}
  BY DEF PutVerdict, ActiveVerdict, TerminalVerdict
<1>4. /\ code \in ProtocolConflicts /\ r.length > 0
           => ArchivedBytes(C, r.start_offset, EndOf(r)) # r.payload
  BY <1>2, RefusedBytesDiffer
<1> HIDE DEF code
<1>5. /\ worker'[w].pc = "done" /\ worker'[w].code = code /\ worker'[w].req = r
      /\ worker'[w].fetched = None
  BY <1>1, <1>2 DEF WorkerState
<1>6. Target(w)' = s /\ chunks'[s] = C /\ lock'[s] = w
  BY <1>1, <1>2, <1>5 DEF Target
<1> HIDE DEF s, r, C
<1>7. Refuses(w)'
  BY <1>4, <1>5, <1>6 DEF Refuses
<1> QED  BY <1>3, <1>5, <1>7 DEF WorkerPromises, Checked, CommitKeepsPromises,
                                 Acknowledges, HasRead, Answers

\* A replayed PUT acknowledges what is archived.
LEMMA PutReplayKeeps ==
  ASSUME PromiseInv, NEW w \in Workers, PutReplay(w)
  PROVE  WorkerPromises(w)'
<1> DEFINE s == Target(w)
           r == worker[w].req
           C == chunks[s]
           row == worker[w].loaded
<1>1. /\ worker' = [worker EXCEPT ![w].pc = "done", ![w].code = "replayed"]
      /\ UNCHANGED <<upload_sessions, chunks>> /\ Handles(w, "put")
      /\ PutVerdict(row, C, r) = "replay"
  BY DEF PutReplay, Verdict
<1>2. /\ worker \in [Workers -> WorkerState] /\ worker[w] \in WorkerState
      /\ r \in Requests /\ r.kind = "put" /\ RequestError(r) = None
      /\ worker[w].fetched = None /\ Registered(s)
      /\ row \in UploadSession /\ row = upload_sessions[s]
  BY <1>1, PutKnown
<1>3. Holds(row, C, r)  BY <1>1, <1>2, ReplayedIsHeld
<1>4. EarlierRow(row, row)
  BY <1>2, MaxBytesAssumption DEF EarlierRow, UploadSession
<1>5. /\ worker'[w].pc = "done" /\ worker'[w].code = "replayed" /\ worker'[w].req = r
      /\ worker'[w].fetched = None /\ worker'[w].loaded = row
  BY <1>1, <1>2 DEF WorkerState
<1>6. /\ Target(w)' = s /\ chunks'[s] = C /\ upload_sessions'[s] = row
      /\ upload_sessions'[s] # None
  BY <1>1, <1>2, <1>5 DEF Target, Registered
<1> HIDE DEF s, r, C, row
<1>7. Acknowledges(w)'
  BY <1>3, <1>4, <1>5, <1>6 DEF Acknowledges, Registered
<1>8. "replayed" \notin ProtocolConflicts  BY DEF ProtocolConflicts
<1> QED  BY <1>5, <1>7, <1>8 DEF WorkerPromises, Checked, CommitKeepsPromises,
                                 Refuses, HasRead, Answers

\* A flushed chunk will be archived by its commit, together with the seal it
\* may have caused, which is the first row of the trail.
LEMMA PutAppendKeeps ==
  ASSUME PromiseInv, NEW w \in Workers, PutAppend(w)
  PROVE  WorkerPromises(w)'
<1> DEFINE s == Target(w)
           r == worker[w].req
           C == chunks[s]
           A == audit_events[s]
           row == worker[w].loaded
           fresh == RowOf(r.start_offset, r.payload)
           D == C \cup {fresh}
           next == Advanced(row, D, EndOf(r))
           seal == SealedEvent(NextAuditSequence(s), next.total_bytes, next.computed_sha256)
           audit == IF next.status = "sealed" THEN {seal} ELSE {}
<1>1. /\ worker' = [worker EXCEPT ![w].pc = "commit", ![w].loaded = next,
                                  ![w].pending = Writes({fresh}, {}, audit)]
      /\ UNCHANGED <<upload_sessions, chunks, audit_events>>
      /\ Handles(w, "put") /\ PutVerdict(row, C, r) = "append"
  BY DEF PutAppend, Verdict
<1>2. /\ worker \in [Workers -> WorkerState] /\ worker[w] \in WorkerState
      /\ r \in Requests /\ r.kind = "put" /\ RequestError(r) = None
      /\ worker[w].fetched = None /\ Registered(s) /\ s \in Sessions
      /\ row \in UploadSession /\ row = upload_sessions[s] /\ ArchiveAgrees(row, C)
  BY <1>1, PutKnown
<1>3. row.status = "active"  BY <1>1, AppendVerdict
<1>4. Holds(next, D, r)  BY <1>1, <1>2, AppendedIsHeld
<1>5. TrailAgrees(next, A \cup audit, s)
  <2>1. s \notin DOMAIN Legacy /\ A = {}
    BY <1>2, <1>3 DEF PromiseInv, Promises, TrailsAgree, TrailAgrees
  <2>2. NextAuditSequence(s) = 1
    BY <1>2, <2>1, FirstIsOne DEF PromiseInv, Inv
  <2>3. seal.event = "sealed" /\ seal.sequence = 1  BY <2>2 DEF SealedEvent
  <2> HIDE DEF next, seal
  <2>4. \A e \in audit : e = seal  OBVIOUS
  <2>5. audit # {} <=> next.status = "sealed"  OBVIOUS
  <2>6. A \cup audit = audit  BY <2>1
  <2> HIDE DEF audit
  <2> QED  BY <2>1, <2>3, <2>4, <2>5, <2>6 DEF TrailAgrees
<1>14. LayoutExplained(next, D, A \cup audit)
  <2>1. A = {}
    BY <1>2, <1>3 DEF PromiseInv, Promises, TrailsAgree, TrailAgrees
  <2>2. seal.event = "sealed"  BY DEF SealedEvent
  <2> HIDE DEF next, seal, D
  <2>3. \A e \in A \cup audit : e.event = "sealed"  BY <2>1, <2>2
  <2> HIDE DEF audit, A
  <2> QED  BY <2>3, NothingToExplain
<1> HIDE DEF next, seal, audit, fresh
<1>6. /\ worker'[w].pc = "commit" /\ worker'[w].loaded = next /\ worker'[w].req = r
      /\ worker'[w].fetched = None
  BY <1>1, <1>2 DEF WorkerState
<1>7. worker'[w].pending = Writes({fresh}, {}, audit)
  BY <1>1, <1>2 DEF WorkerState
<1>8. Target(w)' = s  BY <1>6 DEF Target
<1>9. RowAfter(w)' = next
  BY <1>2, <1>6 DEF RowAfter
<1>10. ChunksAfter(w)' = D
  BY <1>1, <1>7, <1>8 DEF ChunksAfter, Writes
<1>11. audit_events'[s] \cup worker'[w].pending.audit = A \cup audit
  BY <1>1, <1>7 DEF Writes
<1>12. upload_sessions'[s].status = "active"  BY <1>1, <1>2, <1>3
<1> HIDE DEF s, r, C, A, D, row
<1>13. CommitKeepsPromises(w)'
  BY <1>2, <1>4, <1>5, <1>6, <1>8, <1>9, <1>10, <1>11, <1>12, <1>14
  DEF CommitKeepsPromises
<1> QED  BY <1>6, <1>13 DEF WorkerPromises, Checked, Acknowledges, Refuses, HasRead, Answers

-------------------------------------------------------------------------------
(***************************************************************************)
(* The worker that steps: a compaction, and the commits.                   *)
(***************************************************************************)
\* A flushed compaction leaves the sealed row alone and adds to its trail.
LEMMA CompactRewriteKeeps ==
  ASSUME PromiseInv, NEW w \in Workers, CompactRewrite(w)
  PROVE  WorkerPromises(w)'
<1> DEFINE s == Target(w)
           A == audit_events[s]
           row == worker[w].loaded
           target == worker[w].req.target_chunk_bytes
           old == chunks[s]
           new == NewChunks(row, old, target)
           event == CompactedEvent(NextAuditSequence(s), row, target,
                                   Cardinality(old), Cardinality(new))
           writes == IF Layout(old) = Layout(new) THEN Writes({}, {}, {event})
                     ELSE Writes(new, old, {event})
<1>1. /\ worker' = [worker EXCEPT ![w].pc = "commit", ![w].pending = writes]
      /\ UNCHANGED <<upload_sessions, chunks, audit_events>>
      /\ worker[w].pc = "handle" /\ worker[w].req.kind = "compact" /\ row.status = "sealed"
  BY DEF CompactRewrite, Compacts, Handles
<1>2. /\ Inv /\ TypeOK /\ WorkerPromises(w)  BY DEF PromiseInv, Promises, Inv
<1>3. /\ worker \in [Workers -> WorkerState] /\ worker[w] \in WorkerState
      /\ worker[w].fetched = None /\ s \in Sessions /\ Registered(s)
      /\ row = upload_sessions[s]
  BY <1>1, <1>2, OwnerKnows, WorkerFacts DEF WorkerPromises, Checked, TypeOK
<1>4. /\ Numbered(A) /\ TrailAgrees(row, A, s)
  BY <1>2, <1>3 DEF PromiseInv, Promises, Inv, TrailsAgree
<1>5. event.event = "compacted" /\ event.sequence = NextAuditSequence(s)
  BY DEF CompactedEvent
<1>6. writes.audit = {event}  BY DEF Writes
<1> HIDE DEF event, writes
<1>7. TrailAgrees(row, A \cup {event}, s)
  <2>1. s \notin DOMAIN Legacy => A # {}  BY <1>1, <1>4 DEF TrailAgrees
  <2>2. s \notin DOMAIN Legacy => event.sequence # 1
    BY <1>3, <1>4, <1>5, <2>1, FirstIsOne
  <2>3. event.event # "sealed"  BY <1>5
  <2>4. A \cup {event} # {}  OBVIOUS
  <2>5. \A e \in A \cup {event} :
          e.event = "sealed" <=> (e.sequence = 1 /\ s \notin DOMAIN Legacy)
    BY <1>4, <2>2, <2>3 DEF TrailAgrees
  <2> QED  BY <1>1, <2>4, <2>5 DEF TrailAgrees
<1>18. LayoutExplained(row, (old \ writes.deleted) \cup writes.inserted, A \cup {event})
  <2> DEFINE D == (old \ writes.deleted) \cup writes.inserted
  <2>1. /\ row \in UploadSession /\ ArchiveAgrees(row, old) /\ VerdictAgrees(row, old)
        /\ target \in Nat \ {0} /\ A \in SUBSET AuditEvent
    BY <1>1, <1>2, <1>3, OwnerKnows, CompactTarget DEF TypeOK
  <2>2. Cardinality(D) = Cardinality(new) /\ Spans(D) = PlannedSpans(row.total_bytes, target)
    <3>1. \/ Layout(old) = Layout(new) /\ D = old
          \/ D = new
      BY DEF writes, Writes
    <3> HIDE DEF D, old, target, row, A, s
    <3> HIDE DEF new
    <3>2. /\ Cardinality(Layout(old)) = Cardinality(old)
          /\ Cardinality(Layout(new)) = Cardinality(new)
          /\ Spans(new) = PlannedSpans(row.total_bytes, target)
      BY <1>1, <2>1, CompactedLayout DEF new
    <3> QED  BY <3>1, <3>2, LayoutSpans
  <2>3. /\ event.sequence = Cardinality(A) + 1
        /\ event.chunks_before = Cardinality(old) /\ event.chunks_after = Cardinality(new)
        /\ event.target_chunk_bytes = target
    <3>1. NextAuditSequence(s) = Cardinality(A) + 1  BY <1>3, <1>4, NextSequenceCounts
    <3> QED  BY <3>1 DEF event, CompactedEvent
  <2>4. LayoutExplained(row, old, A)
    BY <1>3 DEF PromiseInv, Promises, AuditTrailExplainsLayout
  <2> HIDE DEF D, old, target, row, A, s, new
  <2> QED  BY <1>4, <1>5, <2>1, <2>2, <2>3, <2>4, CompactionExplained DEF D
<1>8. /\ worker'[w].pc = "commit" /\ worker'[w].req = worker[w].req
      /\ worker'[w].fetched = None
  BY <1>1, <1>3 DEF WorkerState
<1>9. worker'[w].pending = writes  BY <1>1, <1>3 DEF WorkerState
<1>10. Target(w)' = s  BY <1>8 DEF Target
<1>11. upload_sessions'[s] = row  BY <1>1, <1>3
<1>12. worker'[w].req.kind = "compact"  BY <1>1, <1>8
<1>13. RowAfter(w)' = row  BY <1>10, <1>11, <1>12 DEF RowAfter
<1>14. audit_events'[s] \cup worker'[w].pending.audit = A \cup {event}
  BY <1>1, <1>6, <1>9
<1>15. worker'[w].pending.audit # {}  BY <1>6, <1>9
<1>16. row.status = "sealed"  BY <1>1
<1>19. ChunksAfter(w)' = (old \ writes.deleted) \cup writes.inserted
  BY <1>1, <1>9, <1>10 DEF ChunksAfter
<1> HIDE DEF s, A, row, old
<1>17. CommitKeepsPromises(w)'
  BY <1>7, <1>8, <1>10, <1>11, <1>12, <1>13, <1>14, <1>15, <1>16, <1>18, <1>19
  DEF CommitKeepsPromises
<1> QED  BY <1>8, <1>17 DEF WorkerPromises, Checked, Acknowledges, Refuses, HasRead, Answers

\* The commit of a PUT leaves its chunk in the archive.
LEMMA CommitPutKeeps ==
  ASSUME PromiseInv, NEW w \in Workers, CommitPut(w)
  PROVE  WorkerPromises(w)'
<1> DEFINE s == Target(w)
           r == worker[w].req
<1>1. /\ worker' = [worker EXCEPT ![w].pc = "refresh", ![w].pending = None]
      /\ worker[w].pc = "commit" /\ r.kind = "put" /\ CommitWrites(w)
  BY DEF CommitPut
<1>2. Inv /\ TypeOK /\ WorkerPromises(w)  BY DEF PromiseInv, Promises, Inv
<1>3. /\ s \in Sessions
      /\ upload_sessions' = [upload_sessions EXCEPT ![s] = RowAfter(w)]
      /\ chunks' = [chunks EXCEPT ![s] = ChunksAfter(w)]
  BY <1>1, <1>2, CommitTables
<1>4. /\ worker \in [Workers -> WorkerState] /\ worker[w] \in WorkerState
      /\ worker[w].fetched = None /\ Holds(RowAfter(w), ChunksAfter(w), r)
  BY <1>1, <1>2, WorkerFacts DEF WorkerPromises, Checked, CommitKeepsPromises, TypeOK
<1>5. /\ worker'[w].pc = "refresh" /\ worker'[w].req = r /\ worker'[w].fetched = None
  BY <1>1, <1>4 DEF WorkerState
<1>6. Target(w)' = s  BY <1>5 DEF Target
<1>7. upload_sessions'[s] = RowAfter(w) /\ chunks'[s] = ChunksAfter(w)
  BY <1>2, <1>3 DEF TypeOK
<1> HIDE DEF s, r
<1>8. Acknowledges(w)'
  BY <1>4, <1>5, <1>6, <1>7 DEF Acknowledges
<1> QED  BY <1>5, <1>8 DEF WorkerPromises, Checked, CommitKeepsPromises, Refuses, HasRead, Answers

\* The refreshed row may be a later one, but the chunk is still archived; when
\* the chunk was the last one the row is judged, and "ok" means sealed.
LEMMA RefreshKeeps ==
  ASSUME PromiseInv, NEW w \in Workers, Refresh(w)
  PROVE  WorkerPromises(w)'
<1> DEFINE s == Target(w)
           r == worker[w].req
           C == chunks[s]
           row == upload_sessions[s]
           code == IF EndOf(r) = row.total_bytes /\ row.status = "failed"
                   THEN "whole_digest_mismatch" ELSE "ok"
<1>1. /\ worker' = [worker EXCEPT ![w].pc = "done", ![w].loaded = row, ![w].code = code]
      /\ worker[w].pc = "refresh" /\ UNCHANGED <<upload_sessions, chunks>>
  BY DEF Refresh
<1>2. /\ Inv /\ TypeOK /\ WorkerInv(w) /\ WorkerPromises(w)
  BY DEF PromiseInv, Promises, Inv
<1>3. /\ worker \in [Workers -> WorkerState] /\ worker[w] \in WorkerState
      /\ worker[w].fetched = None /\ Holds(row, C, r)
      /\ r \in Requests /\ r.kind = "put" /\ s \in Sessions /\ Registered(s)
  BY <1>1, <1>2, WorkerFacts DEF WorkerPromises, Checked, Acknowledges, WorkerInv,
                                 RequestKnown, TypeOK
<1>4. /\ row \in UploadSession /\ row # None
      /\ row.confirmed_offset \in Nat /\ row.total_bytes \in Nat
      /\ ArchiveAgrees(row, C)
  BY <1>2, <1>3, StoredFacts
<1>5. EarlierRow(row, row)  BY <1>4 DEF EarlierRow
<1>6. code = "ok" /\ EndOf(r) = row.total_bytes => row.status = "sealed"
  <2>1. row.status \in {"active", "sealed", "failed"}  BY <1>4 DEF UploadSession, Status
  <2>2. EndOf(r) = row.total_bytes => row.status # "active"
    BY <1>3, <1>4 DEF Holds, ArchiveAgrees
  <2> QED  BY <2>1, <2>2
<1>7. code \notin ProtocolConflicts  BY DEF ProtocolConflicts
<1> HIDE DEF code
<1>8. /\ worker'[w].pc = "done" /\ worker'[w].loaded = row /\ worker'[w].req = r
      /\ worker'[w].fetched = None /\ worker'[w].code = code
  BY <1>1, <1>3 DEF WorkerState
<1>9. /\ Target(w)' = s /\ upload_sessions'[s] = row /\ chunks'[s] = C
      /\ upload_sessions'[s] # None
  BY <1>1, <1>4, <1>8 DEF Target
<1> HIDE DEF s, r, C, row
<1>10. Acknowledges(w)'
  BY <1>3, <1>5, <1>6, <1>8, <1>9 DEF Acknowledges, Registered
<1> QED  BY <1>7, <1>8, <1>10 DEF WorkerPromises, Checked, CommitKeepsPromises,
                                  Refuses, HasRead, Answers

-------------------------------------------------------------------------------
(***************************************************************************)
(* The worker that steps: a reader.                                        *)
(***************************************************************************)
\* The row a reader finds is the row as it is now.
LEMMA ReadSessionKeeps ==
  ASSUME PromiseInv, NEW w \in Workers, ReadSession(w)
  PROVE  WorkerPromises(w)'
<1> DEFINE s == Target(w)
           r == worker[w].req
           row == upload_sessions[s]
           code == ReadCode(row, r)
<1>1. /\ worker' = [worker EXCEPT ![w].loaded = row, ![w].code = code,
                                  ![w].pc = IF code = None THEN "rows" ELSE "done"]
      /\ worker[w].pc = "select" /\ ~IsWriter(w) /\ UNCHANGED upload_sessions
  BY DEF ReadSession
<1>2. /\ Inv /\ TypeOK /\ WorkerInv(w) /\ WorkerPromises(w)
  BY DEF PromiseInv, Promises, Inv
<1>3. /\ worker \in [Workers -> WorkerState] /\ worker[w] \in WorkerState
      /\ worker[w].fetched = None /\ s \in Sessions /\ r.kind # "put"
  BY <1>1, <1>2, WorkerFacts DEF WorkerPromises, Checked, WorkerInv, RequestKnown,
                                 IsWriter, TypeOK
<1>4. code = None => /\ row # None
                     /\ r.kind = "content" => row.status = "sealed"
  BY NoneIsDistinct DEF ReadCode, Codes
<1>5. code \notin ProtocolConflicts
  <2>1. None \notin ProtocolConflicts  BY NoneIsDistinct DEF ProtocolConflicts, Codes
  <2>2. code \in {"session_not_found", "not_sealed", "ok", None}  BY DEF ReadCode
  <2> QED  BY <2>1, <2>2 DEF ProtocolConflicts
<1>6. row # None => EarlierRow(row, row)
  <2> SUFFICES ASSUME Registered(s)  PROVE EarlierRow(row, row)  BY DEF Registered
  <2> QED  BY <1>2, <1>3, StoredFacts DEF EarlierRow
<1> HIDE DEF code, row, s
<1>7. worker'[w].pc = IF code = None THEN "rows" ELSE "done"
  BY <1>1, <1>3 DEF WorkerState
<1>8. /\ worker'[w].loaded = row /\ worker'[w].code = code
      /\ worker'[w].req = r /\ worker'[w].fetched = None
  BY <1>1, <1>3 DEF WorkerState
<1>9. Target(w)' = s /\ upload_sessions'[s] = row
  BY <1>1, <1>8 DEF Target, s, row
<1>10. CASE code # None
  BY <1>3, <1>5, <1>7, <1>8, <1>10, PlainAnswer
<1>11. CASE code = None
  <2>1. HasRead(w)'
    BY <1>4, <1>6, <1>8, <1>9, <1>11 DEF HasRead, Registered
  <2> QED  BY <1>7, <1>8, <1>11, <2>1 DEF WorkerPromises, Checked, CommitKeepsPromises,
                                          Acknowledges, Refuses, Answers
<1> QED  BY <1>10, <1>11

\* What the last statement of a reader finds, whatever was committed since the
\* statement before: a whole layout that reaches the checkpoint of the row, the
\* archive of a sealed row, and its trail.
LEMMA SecondStatement ==
  ASSUME PromiseInv, NEW w \in Workers, worker[w].pc = "rows"
  PROVE  LET s   == Target(w)
             row == worker[w].loaded
         IN  /\ s \in Sessions
             /\ \E n \in row.confirmed_offset..row.total_bytes : Tiles(chunks[s], n)
             /\ row.status = "sealed" =>
                  /\ Sha256(Whole(chunks[s], row.total_bytes)) = row.whole_sha256
                  /\ ArchiveVerifies(chunks[s], row.total_bytes, row.whole_sha256)
                  /\ s \notin DOMAIN Legacy =>
                       \E e \in audit_events[s] : e.event = "sealed" /\ e.sequence = 1
<1> DEFINE s   == Target(w)
           row == worker[w].loaded
           now == upload_sessions[s]
<1>1. Inv /\ TypeOK /\ TrailsAgree /\ WorkerInv(w) /\ WorkerPromises(w)
  BY DEF PromiseInv, Promises, Inv
<1>2. /\ s \in Sessions /\ Registered(s) /\ EarlierRow(row, now)
  BY <1>1, WorkerFacts DEF WorkerPromises, HasRead, WorkerInv, RequestKnown
<1>3. /\ now.confirmed_offset \in Nat /\ now.total_bytes \in Nat
      /\ ArchiveAgrees(now, chunks[s]) /\ VerdictAgrees(now, chunks[s])
      /\ Tiles(chunks[s], now.confirmed_offset)
  BY <1>1, <1>2, StoredFacts
<1>4. \E n \in row.confirmed_offset..row.total_bytes : Tiles(chunks[s], n)
  <2>1. now.confirmed_offset \in row.confirmed_offset..row.total_bytes
    BY <1>2, <1>3, MaxBytesAssumption DEF EarlierRow, ArchiveAgrees, UploadSession
  <2> QED  BY <1>3, <2>1
<1>5. ASSUME row.status = "sealed"
      PROVE  /\ Sha256(Whole(chunks[s], row.total_bytes)) = row.whole_sha256
             /\ ArchiveVerifies(chunks[s], row.total_bytes, row.whole_sha256)
             /\ s \notin DOMAIN Legacy =>
                  \E e \in audit_events[s] : e.event = "sealed" /\ e.sequence = 1
  <2>1. now = row  BY <1>2, <1>5 DEF EarlierRow
  <2>2. row.confirmed_offset = row.total_bytes
    BY <1>3, <1>5, <2>1 DEF ArchiveAgrees
  <2>3. Sha256(Whole(chunks[s], row.total_bytes)) = row.whole_sha256
    BY <1>3, <1>5, <2>1 DEF VerdictAgrees
  <2>4. ArchiveVerifies(chunks[s], row.total_bytes, row.whole_sha256)
    BY <1>3, <2>1, <2>2, <2>3, TilesVerify
  <2>5. ASSUME s \notin DOMAIN Legacy
        PROVE  \E e \in audit_events[s] : e.event = "sealed" /\ e.sequence = 1
    <3>1. Numbered(audit_events[s]) /\ TrailAgrees(row, audit_events[s], s)
      BY <1>1, <1>2, <2>1 DEF Inv, TrailsAgree
    <3>2. audit_events[s] # {}  BY <1>5, <2>5, <3>1 DEF TrailAgrees
    <3>3. PICK e \in audit_events[s] : e.sequence = 1  BY <3>1, <3>2, FirstExists
    <3> QED  BY <2>5, <3>1, <3>3 DEF TrailAgrees
  <2> QED  BY <2>3, <2>4, <2>5
<1> QED  BY <1>2, <1>4, <1>5

\* So what it answers is as promised.
LEMMA ReadRowsKeeps ==
  ASSUME PromiseInv, NEW w \in Workers, ReadAudit(w) \/ ReadChunks(w) \/ ReadContent(w)
  PROVE  WorkerPromises(w)'
<1> DEFINE s    == Target(w)
           row  == worker[w].loaded
           kind == worker[w].req.kind
<1>1. /\ worker \in [Workers -> WorkerState] /\ worker[w] \in WorkerState
  BY WorkerFacts DEF PromiseInv, Inv, TypeOK
<1>2. worker[w].pc = "rows"  BY DEF ReadAudit, ReadChunks, ReadContent
<1>3. HasRead(w)  BY DEF PromiseInv, Promises, WorkerPromises
<1>4. "ok" \notin ProtocolConflicts /\ "sealed_integrity_error" \notin ProtocolConflicts
  BY DEF ProtocolConflicts
<1>5. /\ worker'[w].pc = "done" /\ worker'[w].loaded = row
      /\ worker'[w].req = worker[w].req
  BY <1>1 DEF ReadAudit, ReadChunks, ReadContent, WorkerState
<1>6. worker'[w].code \notin ProtocolConflicts
  BY <1>1, <1>4 DEF ReadAudit, ReadChunks, ReadContent, WorkerState
<1>7. kind \in {"audit", "chunks", "content"}
  BY DEF ReadAudit, ReadChunks, ReadContent
<1>8. Target(w)' = s  BY <1>5 DEF Target
<1>9. Answers(w)'
  <2>1. CASE ReadAudit(w)
    <3>1. kind = "audit" /\ worker'[w].fetched = audit_events[s]
      BY <1>1, <2>1 DEF ReadAudit, WorkerState
    <3> QED  BY <1>2, <1>5, <1>8, <3>1, SecondStatement DEF Answers
  <2>2. CASE ReadChunks(w)
    <3>1. kind = "chunks" /\ worker'[w].fetched = chunks[s]
      BY <1>1, <2>2 DEF ReadChunks, WorkerState
    <3> QED  BY <1>2, <1>5, <1>8, <3>1, SecondStatement DEF Answers
  <2>3. CASE ReadContent(w)
    <3>1. kind = "content" /\ row.status = "sealed"
      BY <1>2, <1>3, <2>3 DEF ReadContent, HasRead
    <3>2. ArchiveVerifies(chunks[s], row.total_bytes, row.whole_sha256)
      BY <1>2, <3>1, SecondStatement
    <3>3. worker'[w].fetched = chunks[s] /\ worker'[w].code = "ok"
      BY <1>1, <2>3, <3>2 DEF ReadContent, WorkerState
    <3> QED  BY <1>2, <1>5, <1>8, <3>1, <3>3, SecondStatement DEF Answers
  <2> QED  BY <2>1, <2>2, <2>3
<1> QED  BY <1>5, <1>6, <1>7, <1>9 DEF WorkerPromises, Checked, CommitKeepsPromises,
                                       Acknowledges, Refuses, HasRead

-------------------------------------------------------------------------------
(***************************************************************************)
(* PromiseInv is an invariant.                                             *)
(***************************************************************************)
\* Whatever a worker does, it keeps its own promises.
LEMMA ActorKeepsPromises ==
  ASSUME PromiseInv, NEW w \in Workers, Acts(w)
  PROVE  WorkerPromises(w)'
<1>1. CASE Close(w)
  <2>1. worker \in [Workers -> WorkerState]  BY DEF PromiseInv, Inv, TypeOK
  <2>2. worker'[w] = Idle  BY <1>1, <2>1 DEF Close
  <2> QED  BY <2>2, IdlePromisesNothing
<1> QED
  BY <1>1, PlainAnswerSteps, EntrySteps, PutRefuseKeeps, PutReplayKeeps, PutAppendKeeps,
     CompactRewriteKeeps, CommitPutKeeps, RefreshKeeps, ReadSessionKeeps, ReadRowsKeeps
     DEF Acts, Step, Write, Read

\* Every step keeps every promise.
LEMMA PromisesPreserved ==
  ASSUME PromiseInv, [Next]_vars
  PROVE  PromiseInv'
<1>1. Inv /\ TypeOK  BY DEF PromiseInv, Inv
<1>2. Inv'  BY <1>1, Preservation
<1>3. TrailsAgree' /\ AuditTrailExplainsLayout'  BY TrailsStep, ExplainedStep
<1>4. \A s \in Sessions : Registered(s) =>
        /\ upload_sessions'[s] # None
        /\ SamePackage(upload_sessions[s], chunks[s], upload_sessions'[s], chunks'[s])
        /\ upload_sessions[s].status # "active" => upload_sessions'[s] = upload_sessions[s]
  BY <1>1, StepKeepsBytes, StepIsFinal
<1>5. ASSUME NEW v \in Workers, worker'[v] = worker[v],
             \A s \in Sessions : lock[s] = v =>
               /\ lock'[s] = v
               /\ upload_sessions'[s] = upload_sessions[s]
               /\ chunks'[s] = chunks[s]
               /\ audit_events'[s] = audit_events[s]
      PROVE  WorkerPromises(v)'
  BY <1>2, <1>4, <1>5, OthersKeepPromises
<1>6. CASE UNCHANGED vars  BY <1>2, <1>3, <1>5, <1>6 DEF vars, PromiseInv, Promises
<1>7. CASE Restart
  <2>1. \A w \in Workers : worker'[w] = Idle  BY <1>7 DEF Restart
  <2> QED  BY <1>2, <1>3, <2>1, IdlePromisesNothing DEF PromiseInv, Promises
<1>8. ASSUME NEW x \in Sessions, NEW m \in Registrations, CreateSession(x, m)
      PROVE  PromiseInv'
  <2>1. ASSUME NEW v \in Workers, NEW s \in Sessions, lock[s] = v
        PROVE  /\ lock'[s] = v
               /\ upload_sessions'[s] = upload_sessions[s]
               /\ chunks'[s] = chunks[s]
               /\ audit_events'[s] = audit_events[s]
    <3>1. Registered(s)  BY <1>1, <2>1 DEF Inv, WorkerInv, LockOwned
    <3>2. s # x  BY <1>8, <3>1 DEF CreateSession, Registered
    <3> QED  BY <1>1, <1>8, <2>1, <3>2 DEF CreateSession, TypeOK
  <2>2. \A v \in Workers : worker'[v] = worker[v]  BY <1>8 DEF CreateSession
  <2> QED  BY <1>2, <1>3, <1>5, <2>1, <2>2 DEF PromiseInv, Promises
<1>9. ASSUME NEW w \in Workers, Acts(w)  PROVE PromiseInv'
  <2>1. WorkerPromises(w)'  BY <1>9, ActorKeepsPromises
  <2>2. ASSUME NEW v \in Workers \ {w}  PROVE WorkerPromises(v)'
    BY <1>1, <1>5, <1>9, ActsAlone
  <2> QED  BY <1>2, <1>3, <2>1, <2>2 DEF PromiseInv, Promises
<1> QED  BY <1>6, <1>7, <1>8, <1>9, StepShape

\* Nothing is promised at the start; the packages of the earlier release are
\* sealed and have no trail.
LEMMA InitPromises ==
  ASSUME Init
  PROVE  PromiseInv
<1>1. Inv  BY InitInv
<1>2. ASSUME NEW w \in Workers  PROVE WorkerPromises(w)
  <2>1. worker[w].pc = "idle" /\ worker[w].fetched = None  BY DEF Init, Idle
  <2> QED  BY <2>1 DEF WorkerPromises, Checked, CommitKeepsPromises, Acknowledges,
                       Refuses, HasRead, Answers
<1>3. ASSUME NEW s \in Sessions
      PROVE  IF Registered(s) THEN TrailAgrees(upload_sessions[s], audit_events[s], s)
             ELSE s \notin DOMAIN Legacy /\ audit_events[s] = {}
  <2>1. audit_events[s] = {}  BY DEF Init
  <2>2. CASE s \in DOMAIN Legacy
    <3>1. upload_sessions[s] = LegacyRow(Legacy[s])  BY <2>2 DEF Init
    <3>2. LegacyRow(Legacy[s]) \in UploadSession  BY <2>2, LegacyIsSound, LegacyAssumption
    <3>3. Registered(s)  BY <3>1, <3>2, NoneIsDistinct DEF Registered
    <3>4. upload_sessions[s].status = "sealed"  BY <3>1 DEF LegacyRow
    <3> QED  BY <2>1, <2>2, <3>3, <3>4 DEF TrailAgrees
  <2>3. CASE s \notin DOMAIN Legacy
    <3>1. ~Registered(s)  BY <2>3 DEF Init, Registered
    <3> QED  BY <2>1, <2>3, <3>1
  <2> QED  BY <2>2, <2>3
<1>4. AuditTrailExplainsLayout
  BY NothingToExplain DEF Init, AuditTrailExplainsLayout
<1> QED  BY <1>1, <1>2, <1>3, <1>4 DEF PromiseInv, Promises, TrailsAgree

\* In every reachable state the tables are sound and every answer, given or
\* under way, is true of them.
THEOREM PromisesKept == Spec => []PromiseInv
<1>1. Init => PromiseInv  BY InitPromises
<1>2. PromiseInv /\ [Next]_vars => PromiseInv'  BY PromisesPreserved
<1> QED  BY <1>1, <1>2, PTL DEF Spec

-------------------------------------------------------------------------------
(***************************************************************************)
(* What clients may rely on.                                               *)
(***************************************************************************)
\* A chunk that was acknowledged with 200 is archived below the checkpoint that
\* was reported, and stays so; the PUT that completed the package and answers
\* "ok" reports a sealed one (put_chunk, its commit, and the refresh after it).
THEOREM AcknowledgedChunksStay == Spec => []AckIsDurable
<1>1. ASSUME PromiseInv  PROVE AckIsDurable
  <2> SUFFICES ASSUME NEW w \in Workers, worker[w].pc = "done",
                      worker[w].code \in {"ok", "replayed"}, worker[w].req.kind = "put"
               PROVE  LET r   == worker[w].req
                          row == worker[w].loaded
                      IN  /\ EndOf(r) <= row.confirmed_offset
                          /\ row.confirmed_offset <= upload_sessions[r.session].confirmed_offset
                          /\ ArchivedBytes(chunks[r.session], r.start_offset, EndOf(r))
                               = r.payload
                          /\ worker[w].code = "ok" /\ EndOf(r) = row.total_bytes
                               => row.status = "sealed"
    BY DEF AckIsDurable
  <2>1. Acknowledges(w)  BY <1>1 DEF PromiseInv, Promises, WorkerPromises
  <2> QED  BY <2>1 DEF Acknowledges, EarlierRow, Holds, Target
<1> QED  BY <1>1, PromisesKept, PTL

\* A well-formed, non-empty chunk is refused by the upload protocol only if its
\* bytes are not the archived ones (put_chunk, _terminal_replay, _archived_bytes),
\* however many retries, compactions and restarts came in between.
THEOREM RetriesAreHonoured == Spec => []RetryIsHonoured
<1>1. PromiseInv => RetryIsHonoured
  BY DEF PromiseInv, Promises, WorkerPromises, Refuses, RetryIsHonoured, Target
<1> QED  BY <1>1, PromisesKept, PTL

\* The chunk list of list_chunks and of a download is a whole layout, although
\* the row and the chunks are read by two statements without a lock.
THEOREM WholeLayoutsAreRead == Spec => []ReadersSeeWholeLayouts
<1>1. PromiseInv => ReadersSeeWholeLayouts
  BY DEF PromiseInv, Promises, WorkerPromises, Answers, ReadersSeeWholeLayouts
<1> QED  BY <1>1, PromisesKept, PTL

\* A download of a sealed package is never refused by its own verification, and
\* releases bytes of the registered digest (download_content, verified_sealed_bytes).
THEOREM DownloadsAreExact == Spec => []DownloadIsExact
<1>1. PromiseInv => DownloadIsExact
  BY DEF PromiseInv, Promises, WorkerPromises, Answers, DownloadIsExact
<1> QED  BY <1>1, PromisesKept, PTL

\* Who reads a sealed session, and then its trail, finds the seal in the trail
\* (list_audit_events; the seal is committed with the row by put_chunk).
THEOREM SealsAreAudited == Spec => []TrailKnowsTheSeal
<1>1. PromiseInv => TrailKnowsTheSeal
  BY DEF PromiseInv, Promises, WorkerPromises, Answers, TrailKnowsTheSeal
<1> QED  BY <1>1, PromisesKept, PTL

\* The trail of a session is numbered without gap or duplicate, and starts with
\* the one seal of a session that this code sealed (_next_audit_sequence,
\* _audit_snapshot).
THEOREM TrailsAreOrdered == Spec => []AuditTrailOrdered
<1>1. ASSUME PromiseInv  PROVE AuditTrailOrdered
  <2> SUFFICES ASSUME NEW s \in Sessions
               PROVE  LET A == audit_events[s]
                      IN  /\ {e.sequence : e \in A} = 1..Cardinality(A)
                          /\ \A e \in A : e.event = "sealed"
                                            <=> (e.sequence = 1 /\ s \notin DOMAIN Legacy)
                          /\ s \notin DOMAIN Legacy =>
                               (A # {} <=> Registered(s) /\ upload_sessions[s].status = "sealed")
    BY DEF AuditTrailOrdered
  <2>1. Numbered(audit_events[s])  BY <1>1 DEF PromiseInv, Inv
  <2>2. IF Registered(s) THEN TrailAgrees(upload_sessions[s], audit_events[s], s)
        ELSE s \notin DOMAIN Legacy /\ audit_events[s] = {}
    BY <1>1 DEF PromiseInv, Promises, TrailsAgree
  <2>3. CASE Registered(s)  BY <2>1, <2>2, <2>3 DEF Numbered, TrailAgrees
  <2>4. CASE ~Registered(s)  BY <2>1, <2>2, <2>4 DEF Numbered
  <2> QED  BY <2>3, <2>4
<1> QED  BY <1>1, PromisesKept, PTL

\* Each compaction in the trail starts from the number of chunks its predecessor
\* left, and the last one describes the chunk rows that are stored, whether it
\* rewrote them or found them in place (compact_sealed, _audit_snapshot).
THEOREM TrailsExplainLayouts == Spec => []AuditTrailExplainsLayout
<1>1. PromiseInv => AuditTrailExplainsLayout  BY DEF PromiseInv, Promises
<1> QED  BY <1>1, PromisesKept, PTL

\* No step of any worker, no crash and no commit changes the row of a sealed or
\* failed session, and its chunks change only by an audited compaction.
THEOREM TerminalSessionsStay == Spec => TerminalIsFinal
<1>1. PromiseInv /\ [Next]_vars =>
        [\A s \in Sessions : Registered(s) /\ upload_sessions[s].status # "active" =>
           /\ upload_sessions'[s] = upload_sessions[s]
           /\ chunks'[s] # chunks[s] => /\ upload_sessions[s].status = "sealed"
                                        /\ audit_events'[s] # audit_events[s]]_vars
  BY StepIsFinal
<1> QED  BY <1>1, PromisesKept, PTL DEF Spec, TerminalIsFinal

-------------------------------------------------------------------------------
(***************************************************************************)
(* Ingest implements Package.                                              *)
(***************************************************************************)
\* What a judged package looks like.
LEMMA JudgedRecord ==
  ASSUME NEW total, NEW digest, NEW bytes, NEW status
  PROVE  Abstract!Judged([total_bytes |-> total, whole_sha256 |-> digest,
                          bytes |-> bytes, status |-> status])
           = [total_bytes |-> total, whole_sha256 |-> digest, bytes |-> bytes,
              status |-> IF Len(bytes) # total THEN "active"
                         ELSE IF Sha256(bytes) = digest THEN "sealed" ELSE "failed"]
  BY DEF Abstract!Judged, Abstract!Complete

\* A package that gets other bytes is judged by them.
LEMMA JudgedUpdate ==
  ASSUME NEW total, NEW digest, NEW before, NEW after, NEW status,
         NEW p, p = [total_bytes |-> total, whole_sha256 |-> digest,
                     bytes |-> before, status |-> status]
  PROVE  Abstract!Judged([p EXCEPT !.bytes = after])
           = Abstract!Judged([total_bytes |-> total, whole_sha256 |-> digest,
                              bytes |-> after, status |-> "active"])
<1> DEFINE q == [total_bytes |-> total, whole_sha256 |-> digest,
                 bytes |-> after, status |-> status]
           updated == [p EXCEPT !.bytes = after]
<1>1. updated = q  OBVIOUS
<1>2. Abstract!Judged(q) = Abstract!Judged([total_bytes |-> total, whole_sha256 |-> digest,
                                            bytes |-> after, status |-> "active"])
  <2>1. Abstract!Judged(q)
          = [total_bytes |-> total, whole_sha256 |-> digest, bytes |-> after,
             status |-> IF Len(after) # total THEN "active"
                        ELSE IF Sha256(after) = digest THEN "sealed" ELSE "failed"]
    BY JudgedRecord
  <2> HIDE DEF q
  <2> QED  BY <2>1, JudgedRecord
<1> HIDE DEF q, updated
<1>3. Abstract!Judged(updated) = Abstract!Judged(q)  BY <1>1
<1> QED  BY <1>2, <1>3 DEF updated

\* The contents of a package are the byte strings of the chunks.
LEMMA ContentsAreBlobs == Abstract!Contents = Blobs
  BY DEF Abstract!Contents, Abstract!SeqOf, Blobs, SeqOf

\* The status of a sound row is the one its bytes deserve.
LEMMA RowIsJudged ==
  ASSUME NEW row \in UploadSession, NEW C, ArchiveAgrees(row, C), VerdictAgrees(row, C)
  PROVE  LET bytes == Whole(C, row.confirmed_offset)
             shown == [total_bytes |-> row.total_bytes, whole_sha256 |-> row.whole_sha256,
                       bytes |-> bytes, status |-> row.status]
         IN  /\ shown = Abstract!Judged([total_bytes |-> row.total_bytes,
                                         whole_sha256 |-> row.whole_sha256,
                                         bytes |-> bytes, status |-> "active"])
             /\ shown \in StoredPackage /\ shown # None
             /\ Len(bytes) = row.confirmed_offset
<1> DEFINE bytes == Whole(C, row.confirmed_offset)
           shown == [total_bytes |-> row.total_bytes, whole_sha256 |-> row.whole_sha256,
                     bytes |-> bytes, status |-> row.status]
<1>1. /\ row.confirmed_offset \in 0..MaxBytes /\ row.confirmed_offset \in Nat
      /\ row.total_bytes \in Nat /\ Tiles(C, row.confirmed_offset)
      /\ row.status \in {"active", "sealed", "failed"}
  BY MaxBytesAssumption DEF UploadSession, Status, ArchiveAgrees
<1>2. bytes \in Blobs /\ Len(bytes) = row.confirmed_offset
  BY <1>1, WholeIsBlob
<1>3. row.status = IF Len(bytes) # row.total_bytes THEN "active"
                   ELSE IF Sha256(bytes) = row.whole_sha256 THEN "sealed" ELSE "failed"
  <2>1. row.status = "active" <=> row.confirmed_offset # row.total_bytes
    BY <1>1 DEF ArchiveAgrees
  <2>2. row.status # "active" =>
          (row.status = "sealed" <=> Sha256(bytes) = row.whole_sha256)
    BY <1>1, <2>1 DEF VerdictAgrees
  <2> QED  BY <1>1, <1>2, <2>1, <2>2
<1>4. shown \in StoredPackage /\ shown # None
  BY <1>1, <1>2, NoneIsDistinct DEF StoredPackage, UploadSession
<1> HIDE DEF bytes
<1>5. shown = Abstract!Judged([total_bytes |-> row.total_bytes,
                               whole_sha256 |-> row.whole_sha256,
                               bytes |-> bytes, status |-> "active"])
  BY <1>3, JudgedRecord
<1> QED  BY <1>2, <1>4, <1>5 DEF bytes

\* When a registered session keeps its package, the package stutters or is
\* extended at its end, whichever step of the code it was.
LEMMA ExtendsOrStutters ==
  ASSUME Inv, Inv', NEW s \in Sessions, Registered(s), upload_sessions'[s] # None,
         SamePackage(upload_sessions[s], chunks[s], upload_sessions'[s], chunks'[s]),
         \A x \in Sessions \ {s} : Stored(x)' = Stored(x)
  PROVE  [Abstract!Next]_StoredPackages
<1> DEFINE row == upload_sessions[s]
           next == upload_sessions'[s]
           n == row.confirmed_offset
           k == next.confirmed_offset
           bytes == Whole(chunks[s], n)
           grown == Whole(chunks'[s], k)
           P == StoredPackages
<1>1. /\ row \in UploadSession /\ n \in Nat /\ row.total_bytes \in Nat
      /\ ArchiveAgrees(row, chunks[s]) /\ VerdictAgrees(row, chunks[s])
  BY StoredFacts
<1>2. /\ next \in UploadSession /\ k \in 0..MaxBytes /\ k \in Nat
      /\ ArchiveAgrees(next, chunks'[s]) /\ VerdictAgrees(next, chunks'[s])
      /\ Tiles(chunks'[s], k) /\ k <= next.total_bytes
  <2>1. next \in UploadSession  BY DEF Inv, TypeOK
  <2>2. ArchiveAgrees(next, chunks'[s]) /\ VerdictAgrees(next, chunks'[s])
    BY DEF Inv, CheckpointMatchesArchive, VerdictIsTrue, Registered
  <2> QED  BY <2>1, <2>2, MaxBytesAssumption DEF UploadSession, ArchiveAgrees
<1>3. /\ next.total_bytes = row.total_bytes /\ next.whole_sha256 = row.whole_sha256
      /\ n <= k /\ Whole(chunks'[s], n) = bytes
  BY <1>1, <1>2 DEF SamePackage
<1>4. /\ P[s] = [total_bytes |-> row.total_bytes, whole_sha256 |-> row.whole_sha256,
                 bytes |-> bytes, status |-> row.status]
      /\ P[s] # None /\ Len(bytes) = n
      /\ P[s] = Abstract!Judged([total_bytes |-> row.total_bytes,
                                 whole_sha256 |-> row.whole_sha256,
                                 bytes |-> bytes, status |-> "active"])
  BY <1>1, RowIsJudged DEF StoredPackages, Stored, ArchivedPrefix
<1>5. P'[s] = Abstract!Judged([total_bytes |-> row.total_bytes,
                               whole_sha256 |-> row.whole_sha256,
                               bytes |-> grown, status |-> "active"])
  BY <1>2, <1>3, RowIsJudged DEF StoredPackages, Stored, ArchivedPrefix, Registered
<1>6. \A x \in Sessions \ {s} : P'[x] = P[x]  BY DEF StoredPackages
<1>7. /\ DOMAIN P = Sessions /\ DOMAIN P' = Sessions
      /\ P = [x \in Sessions |-> P[x]] /\ P' = [x \in Sessions |-> P'[x]]
  BY DEF StoredPackages
<1>8. CASE n = k
  <2>1. grown = bytes  BY <1>3, <1>8
  <2> HIDE DEF P, grown, bytes
  <2>2. P'[s] = P[s]  BY <1>4, <1>5, <2>1
  <2>3. P' = P  BY <1>6, <1>7, <2>2
  <2> QED  BY <2>3 DEF P
<1>9. CASE n < k
  <2>1. PICK piece \in Blobs : /\ grown = Whole(chunks'[s], n) \o piece
                               /\ Len(piece) = k - n
                               /\ piece # <<>>
    BY <1>1, <1>2, <1>9, WholeGrows
  <2>2. grown = bytes \o piece  BY <1>3, <2>1
  <2>3. row.status = "active"  BY <1>1, <1>2, <1>3, <1>9 DEF ArchiveAgrees
  <2> HIDE DEF P, grown, bytes, row, next, n, k
  <2>4. Len(P[s].bytes) + Len(piece) <= P[s].total_bytes
    BY <1>1, <1>2, <1>3, <1>4, <2>1
  <2> DEFINE after  == P[s].bytes \o piece
             judged == Abstract!Extended(P[s], piece)
  <2>5. after = grown  BY <1>4, <2>2
  <2> HIDE DEF after
  <2>6. P'[s] = judged
    <3>1. P[s] = [total_bytes |-> row.total_bytes, whole_sha256 |-> row.whole_sha256,
                  bytes |-> bytes, status |-> row.status]
      BY <1>4
    <3>2. Abstract!Judged([P[s] EXCEPT !.bytes = after])
            = Abstract!Judged([total_bytes |-> row.total_bytes,
                               whole_sha256 |-> row.whole_sha256,
                               bytes |-> after, status |-> "active"])
      <4> HIDE DEF P
      <4> DEFINE p == P[s]
      <4>1. p = [total_bytes |-> row.total_bytes, whole_sha256 |-> row.whole_sha256,
                 bytes |-> bytes, status |-> row.status]
        BY <3>1
      <4> HIDE DEF p
      <4>2. Abstract!Judged([p EXCEPT !.bytes = after])
              = Abstract!Judged([total_bytes |-> row.total_bytes,
                                 whole_sha256 |-> row.whole_sha256,
                                 bytes |-> after, status |-> "active"])
        BY <4>1, JudgedUpdate
      <4> QED  BY <4>2 DEF p
    <3>3. judged = Abstract!Judged([P[s] EXCEPT !.bytes = after])
      BY DEF Abstract!Extended, after
    <3> QED  BY <1>5, <2>5, <3>2, <3>3
  <2> HIDE DEF judged
  <2>7. P' = [P EXCEPT ![s] = judged]  BY <1>6, <1>7, <2>6
  <2>8. piece \in Abstract!Contents \ {<<>>}  BY <2>1, ContentsAreBlobs
  <2>9. P[s].status = "active"  BY <1>4, <2>3
  <2>10. P' = [P EXCEPT ![s] = Abstract!Extended(P[s], piece)]  BY <2>7 DEF judged
  <2>11. Abstract!Extend(s)
    BY <1>4, <2>4, <2>8, <2>9, <2>10 DEF Abstract!Extend, P
  <2> QED  BY <2>11 DEF Abstract!Next
<1> QED  BY <1>1, <1>2, <1>3, <1>8, <1>9

\* Registering a session registers its package, judged at once if it is empty.
LEMMA RegistersPackage ==
  ASSUME Inv, NEW s \in Sessions, NEW m \in Registrations, CreateSession(s, m)
  PROVE  [Abstract!Next]_StoredPackages
<1> DEFINE row == RegisteredRow(m.total_bytes, m.whole_sha256)
           total == m.total_bytes
           digest == m.whole_sha256
           P == StoredPackages
           judged == Abstract!Judged([total_bytes |-> total, whole_sha256 |-> digest,
                                      bytes |-> <<>>, status |-> "active"])
<1>1. /\ upload_sessions[s] = None /\ chunks' = chunks
      /\ upload_sessions' = [upload_sessions EXCEPT ![s] = row]
  BY DEF CreateSession
<1>2. total \in 0..MaxBytes /\ digest \in Digests  BY RegistrationsAssumption
<1>3. /\ row.total_bytes = total /\ row.whole_sha256 = digest /\ row.confirmed_offset = 0
  BY DEF RegisteredRow
<1>4. row \in UploadSession /\ ArchiveAgrees(row, {}) /\ VerdictAgrees(row, {})
  BY RegisteredIsSound
<1>5. chunks[s] = {}  BY <1>1 DEF Inv, CheckpointMatchesArchive, Registered
<1> HIDE DEF row, total, digest
<1>6. upload_sessions'[s] = row /\ chunks'[s] = {}
  BY <1>1, <1>5 DEF Inv, TypeOK
<1>7. row # None  BY <1>4, NoneIsDistinct
<1>8. Stored(s)' = [total_bytes |-> row.total_bytes, whole_sha256 |-> row.whole_sha256,
                    bytes |-> Whole({}, row.confirmed_offset), status |-> row.status]
  BY <1>6, <1>7 DEF Stored, ArchivedPrefix, Registered
<1>9. Stored(s)' = judged
  <2>1. Whole({}, row.confirmed_offset) = <<>>  BY <1>3, NothingTiled
  <2>2. Stored(s)' = Abstract!Judged([total_bytes |-> row.total_bytes,
                                      whole_sha256 |-> row.whole_sha256,
                                      bytes |-> Whole({}, row.confirmed_offset),
                                      status |-> "active"])
    BY <1>4, <1>8, RowIsJudged
  <2> QED  BY <1>3, <2>1, <2>2
<1> HIDE DEF judged
<1>10. ASSUME NEW x \in Sessions, x # s  PROVE Stored(x)' = Stored(x)
  <2>1. upload_sessions'[x] = upload_sessions[x] /\ chunks'[x] = chunks[x]
    BY <1>1, <1>10 DEF Inv, TypeOK
  <2> QED  BY <2>1 DEF Stored, ArchivedPrefix, Registered
<1>11. P' = [P EXCEPT ![s] = judged]
  <2>1. P'[s] = judged  BY <1>9 DEF StoredPackages
  <2>2. \A x \in Sessions \ {s} : P'[x] = P[x]  BY <1>10 DEF StoredPackages
  <2>3. /\ DOMAIN P = Sessions /\ DOMAIN P' = Sessions
        /\ P = [x \in Sessions |-> P[x]] /\ P' = [x \in Sessions |-> P'[x]]
    BY DEF StoredPackages
  <2> HIDE DEF P
  <2> QED  BY <2>1, <2>2, <2>3
<1>12. P[s] = None  BY <1>1 DEF StoredPackages, Stored, Registered
<1>13. Abstract!Register(s)
  BY <1>2, <1>11, <1>12 DEF Abstract!Register, judged, P
<1> QED  BY <1>13 DEF Abstract!Next

\* The packages of the earlier release are complete and sealed.
LEMMA InitPackages ==
  ASSUME Init
  PROVE  Abstract!Init
<1> DEFINE Contained == {[total_bytes |-> Len(x), whole_sha256 |-> Sha256(x),
                          bytes |-> x, status |-> "sealed"] : x \in Abstract!Contents}
<1>1. ASSUME NEW s \in Sessions  PROVE Stored(s) \in {None} \cup Contained
  <2>1. CASE s \in DOMAIN Legacy
    <3> DEFINE data == Legacy[s]
    <3>1. data \in Blobs  BY <2>1, LegacyAssumption
    <3>2. /\ upload_sessions[s] = LegacyRow(data) /\ chunks[s] = LegacyChunks(data)
      BY <2>1 DEF Init
    <3>3. /\ LegacyRow(data) # None /\ Whole(LegacyChunks(data), Len(data)) = data
      BY <3>1, LegacyIsSound, NoneIsDistinct
    <3> HIDE DEF data
    <3>4. Stored(s) = [total_bytes |-> Len(data), whole_sha256 |-> Sha256(data),
                       bytes |-> Whole(chunks[s], Len(data)), status |-> "sealed"]
      BY <3>2, <3>3 DEF Stored, ArchivedPrefix, Registered, LegacyRow
    <3> QED  BY <3>1, <3>2, <3>3, <3>4, ContentsAreBlobs
  <2>2. CASE s \notin DOMAIN Legacy
    <3>1. upload_sessions[s] = None  BY <2>2 DEF Init
    <3> QED  BY <3>1 DEF Stored, Registered
  <2> QED  BY <2>1, <2>2
<1> QED  BY <1>1 DEF Abstract!Init, StoredPackages

\* Every step of the service is a step of Package or changes no package.
LEMMA StepsArePackageSteps ==
  ASSUME Inv, [Next]_vars
  PROVE  [Abstract!Next]_StoredPackages
<1> DEFINE P == StoredPackages
<1>1. Inv' /\ TypeOK  BY Preservation DEF Inv
<1>2. CASE UNCHANGED <<upload_sessions, chunks>>
  <2>1. P' = P  BY <1>2 DEF StoredPackages, Stored, ArchivedPrefix, Registered
  <2> QED  BY <2>1
<1>3. ASSUME NEW w \in Workers, worker[w].pc = "commit", CommitWrites(w)
      PROVE  [Abstract!Next]_P
  <2> DEFINE s == Target(w)
  <2>1. /\ s \in Sessions /\ Registered(s)
        /\ upload_sessions' = [upload_sessions EXCEPT ![s] = RowAfter(w)]
        /\ chunks' = [chunks EXCEPT ![s] = ChunksAfter(w)]
    BY <1>3, CommitTables
  <2>2. ASSUME NEW x \in Sessions \ {s}  PROVE Stored(x)' = Stored(x)
    <3>1. upload_sessions'[x] = upload_sessions[x] /\ chunks'[x] = chunks[x]
      BY <1>1, <2>1, <2>2 DEF TypeOK
    <3> QED  BY <3>1 DEF Stored, ArchivedPrefix, Registered
  <2>3. /\ upload_sessions'[s] # None
        /\ SamePackage(upload_sessions[s], chunks[s], upload_sessions'[s], chunks'[s])
    BY <2>1, StepKeepsBytes
  <2> HIDE DEF s
  <2> QED  BY <1>1, <2>1, <2>2, <2>3, ExtendsOrStutters
<1>4. CASE \E x \in Sessions, m \in Registrations : CreateSession(x, m)
  BY <1>4, RegistersPackage
<1>5. CASE UNCHANGED vars  BY <1>2, <1>5 DEF vars
<1>6. CASE Restart  BY <1>2, <1>6 DEF Restart
<1>7. CASE \E w \in Workers : Acts(w)
  <2>1. \/ UNCHANGED <<upload_sessions, chunks>>
        \/ \E w \in Workers : worker[w].pc = "commit" /\ CommitWrites(w)
    BY <1>7, ActsAlone
  <2> QED  BY <1>2, <1>3, <2>1
<1> QED  BY <1>4, <1>5, <1>6, <1>7, StepShape

\* Behind its chunk rows, transactions, locks, compactions, crashes and resends
\* the service is the growing prefix with one verdict that Package specifies.
THEOREM PackageRefined == Spec => PackageSpec
<1>1. Init => Abstract!Init  BY InitPackages
<1>2. Inv /\ [Next]_vars => [Abstract!Next]_StoredPackages
  BY StepsArePackageSteps
<1> QED  BY <1>1, <1>2, Invariance, PTL DEF Spec, PackageSpec, Abstract!Spec
==============================================================================
