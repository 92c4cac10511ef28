-------------------------------- MODULE Ingest --------------------------------
(***************************************************************************)
(* The upload service of app/service.py and app/main.py: registering a     *)
(* record package, uploading it in chunks, sealing or failing it, packing  *)
(* its chunks anew, and reading it, by concurrent requests over one        *)
(* PostgreSQL database.                                                    *)
(*                                                                         *)
(* A worker is a threadpool thread together with the database session that *)
(* get_db opens for its request.  The tables hold COMMITTED rows; what a   *)
(* transaction has flushed and not yet committed is in its worker.  One    *)
(* step is the code between two points where another request can be seen   *)
(* or can see this one: taking the row lock, one statement of a reader,    *)
(* COMMIT, the refresh after it, and closing the session.                  *)
(*                                                                         *)
(* A definition named X_Y is X with the programming error Y.  It is not    *)
(* part of the specification: it stands in for X in a run that shows that  *)
(* a property would notice the error.                                      *)
(***************************************************************************)
EXTENDS ChunkLayout

CONSTANTS Sessions,       \* ids of upload sessions
          Workers,        \* threads that serve requests
          Registrations,  \* metadata clients register: total_bytes, whole_sha256
          Requests,       \* what clients send to a registered or unknown session
          Legacy,         \* contents sealed before the audit trail existed, by session
          MaxChunkBytes,  \* config.MAX_CHUNK_BYTES
          MaxBigint,      \* largest value of a BIGINT column
          MaxAudit        \* bound: no compaction is requested beyond this many audit rows

PutRequest == [kind : {"put"}, session : Sessions, start_offset : Int,
               length : Int, sha256 : Digests, payload : Blobs]

CompactRequest == [kind : {"compact"}, session : Sessions, target_chunk_bytes : Int]

ReadRequest == [kind : {"session", "chunks", "content", "audit"}, session : Sessions]

Request == PutRequest \cup CompactRequest \cup ReadRequest

Status == {"active", "sealed", "failed"}

UploadSession == [total_bytes : 0..MaxBytes, whole_sha256 : Digests,
                  confirmed_offset : 0..MaxBytes, status : Status,
                  computed_sha256 : Digests \cup {None}]

\* What Stored shows of a session (see Package).
StoredPackage == [total_bytes : 0..MaxBytes, whole_sha256 : Digests,
                  bytes : Blobs, status : Status]

AuditEvent == [sequence : Nat \ {0}, event : {"sealed", "compacted"},
               total_bytes : 0..MaxBytes, whole_sha256 : Digests,
               target_chunk_bytes : Nat \cup {None},
               chunks_before : Nat \cup {None}, chunks_after : Nat \cup {None}]

\* The writes of a transaction between its flush and its COMMIT.
Pending == [inserted : SUBSET ChunkRow, deleted : SUBSET ChunkRow,
            audit : SUBSET AuditEvent]

\* The error codes of the API, and "ok" or "replayed" for its 200 and 201.
Codes ==
  {"ok", "replayed", "session_not_found", "not_sealed", "invalid_offset",
   "invalid_length", "chunk_too_large", "validation_error", "length_mismatch",
   "chunk_digest_mismatch", "chunk_beyond_total", "stale_offset", "session_sealed",
   "sealed_content_conflict", "session_failed_terminal", "whole_digest_mismatch",
   "sealed_integrity_error", "compaction_state_conflict",
   "compaction_integrity_error", "audit_write_failed", "server_error"}

ASSUME RegistrationsAssumption ==
  Registrations \subseteq [total_bytes : 0..MaxBytes, whole_sha256 : Digests]

ASSUME RequestsAssumption == Requests \subseteq Request

ASSUME LegacyAssumption ==
  DOMAIN Legacy \subseteq Sessions /\ \A s \in DOMAIN Legacy : Legacy[s] \in Blobs

ASSUME BoundsAssumption ==
  MaxChunkBytes \in Nat /\ MaxBigint \in Nat /\ MaxAudit \in Nat

ASSUME NoneIsDistinct ==
  None \notin UploadSession \cup Request \cup Pending \cup Workers \cup Codes \cup StoredPackage

VARIABLES upload_sessions,  \* the committed row of each session, or None
          chunks,           \* the committed chunk rows of each session
          audit_events,     \* the committed audit rows of each session
          lock,             \* the worker holding the row lock of a session, or None
          worker            \* what each worker is doing

vars == <<upload_sessions, chunks, audit_events, lock, worker>>

-------------------------------------------------------------------------------
(***************************************************************************)
(* Registration.                                                           *)
(***************************************************************************)
EmptySha256 == Sha256(<<>>)

SealedEvent(sequence, total, digest) ==
  [sequence |-> sequence, event |-> "sealed", total_bytes |-> total,
   whole_sha256 |-> digest, target_chunk_bytes |-> None,
   chunks_before |-> None, chunks_after |-> None]

\* The row create_session commits: a 0-byte package is judged at once.
RegisteredRow(total, digest) ==
  [total_bytes |-> total, whole_sha256 |-> digest, confirmed_offset |-> 0,
   status |-> IF total > 0 THEN "active"
              ELSE IF digest = EmptySha256 THEN "sealed" ELSE "failed",
   computed_sha256 |-> IF total = 0 THEN EmptySha256 ELSE None]

\* The rows of a package sealed by a release without audit trail: one chunk.
LegacyRow(data) ==
  [total_bytes |-> Len(data), whole_sha256 |-> Sha256(data),
   confirmed_offset |-> Len(data), status |-> "sealed",
   computed_sha256 |-> Sha256(data)]

LegacyChunks(data) == IF data = <<>> THEN {} ELSE {RowOf(0, data)}

-------------------------------------------------------------------------------
(***************************************************************************)
(* A worker between requests, and the writes a transaction has flushed.    *)
(***************************************************************************)
Idle == [pc |-> "idle", req |-> None, loaded |-> None,
         pending |-> None, fetched |-> None, code |-> None]

Writes(inserted, deleted, audit) ==
  [inserted |-> inserted, deleted |-> deleted, audit |-> audit]

Target(w) == worker[w].req.session

Unlocked(w) == [s \in Sessions |-> IF lock[s] = w THEN None ELSE lock[s]]

Init ==
  /\ upload_sessions = [s \in Sessions |-> IF s \in DOMAIN Legacy
                                           THEN LegacyRow(Legacy[s]) ELSE None]
  /\ chunks = [s \in Sessions |-> IF s \in DOMAIN Legacy
                                  THEN LegacyChunks(Legacy[s]) ELSE {}]
  /\ audit_events = [s \in Sessions |-> {}]
  /\ lock = [s \in Sessions |-> None]
  /\ worker = [w \in Workers |-> Idle]

CreateSession_NoSnapshot(s, m) ==
  /\ upload_sessions[s] = None
  /\ upload_sessions' = [upload_sessions EXCEPT ![s] =
                           RegisteredRow(m.total_bytes, m.whole_sha256)]
  /\ UNCHANGED <<chunks, audit_events, lock, worker>>

\* POST /sessions.  The id is new and its reply is what makes it known, so no
\* other request can touch the row before the commit that inserts it.
CreateSession(s, m) ==
  /\ upload_sessions[s] = None
  /\ LET row == RegisteredRow(m.total_bytes, m.whole_sha256)
     IN  /\ upload_sessions' = [upload_sessions EXCEPT ![s] = row]
         /\ audit_events' = [audit_events EXCEPT ![s] =
                               IF row.status = "sealed"
                               THEN {SealedEvent(1, 0, EmptySha256)} ELSE {}]
  /\ UNCHANGED <<chunks, lock, worker>>

-------------------------------------------------------------------------------
(***************************************************************************)
(* Receiving a request: the checks made before the service is called.      *)
(***************************************************************************)
RequestError(r) ==
  CASE r.kind = "put" ->
         IF Len(r.payload) > MaxChunkBytes THEN "chunk_too_large"
         ELSE IF r.start_offset < 0 THEN "invalid_offset"
         ELSE IF r.length < 0 THEN "invalid_length"
         ELSE IF r.length > MaxChunkBytes THEN "chunk_too_large"
         ELSE None
    [] r.kind = "compact" ->
         IF r.target_chunk_bytes <= 0 THEN "validation_error" ELSE None
    [] OTHER -> None

WithinBounds(r) ==
  r.kind = "compact" => Cardinality(audit_events[r.session]) < MaxAudit

Receive(w, r) ==
  /\ worker[w].pc = "idle"
  /\ WithinBounds(r)
  /\ RequestError(r) = None
  /\ worker' = [worker EXCEPT ![w].pc = "select", ![w].req = r]
  /\ UNCHANGED <<upload_sessions, chunks, audit_events, lock>>

Reject(w, r) ==
  /\ worker[w].pc = "idle"
  /\ RequestError(r) # None
  /\ worker' = [worker EXCEPT ![w].pc = "done", ![w].req = r,
                              ![w].code = RequestError(r)]
  /\ UNCHANGED <<upload_sessions, chunks, audit_events, lock>>

-------------------------------------------------------------------------------
(***************************************************************************)
(* SELECT ... FOR UPDATE on the session row.  A waiter reads the row as    *)
(* it is committed when the lock is granted.                               *)
(***************************************************************************)
IsWriter(w) == worker[w].req.kind \in {"put", "compact"}

LockMissing(w) ==
  /\ worker[w].pc = "select" /\ IsWriter(w)
  /\ upload_sessions[Target(w)] = None
  /\ worker' = [worker EXCEPT ![w].pc = "done", ![w].code = "session_not_found"]
  /\ UNCHANGED <<upload_sessions, chunks, audit_events, lock>>

LockSession_WithoutForUpdate(w) ==
  /\ worker[w].pc = "select" /\ IsWriter(w)
  /\ upload_sessions[Target(w)] # None
  /\ lock' = [lock EXCEPT ![Target(w)] = w]
  /\ worker' = [worker EXCEPT ![w].pc = "handle",
                              ![w].loaded = upload_sessions[Target(w)]]
  /\ UNCHANGED <<upload_sessions, chunks, audit_events>>

LockSession(w) ==
  /\ worker[w].pc = "select" /\ IsWriter(w)
  /\ upload_sessions[Target(w)] # None
  /\ lock[Target(w)] = None
  /\ lock' = [lock EXCEPT ![Target(w)] = w]
  /\ worker' = [worker EXCEPT ![w].pc = "handle",
                              ![w].loaded = upload_sessions[Target(w)]]
  /\ UNCHANGED <<upload_sessions, chunks, audit_events>>

-------------------------------------------------------------------------------
(***************************************************************************)
(* put_chunk, from the granted lock to its flush or its refusal.           *)
(***************************************************************************)
EndOf(r) == r.start_offset + r.length

TerminalVerdict_ComparesNothing(row, C, r) ==
  IF EndOf(r) <= row.confirmed_offset THEN "replay"
  ELSE IF row.status = "failed" THEN "session_failed_terminal"
  ELSE "session_sealed"

TerminalVerdict_OffByOne(row, C, r) ==
  IF /\ 0 <= r.start_offset /\ r.start_offset < EndOf(r)
     /\ EndOf(r) < row.confirmed_offset
     /\ ArchivedBytes(C, r.start_offset, EndOf(r)) = r.payload
  THEN "replay"
  ELSE IF row.status = "failed" THEN "session_failed_terminal"
  ELSE "sealed_content_conflict"

\* _terminal_replay: what a sealed or failed session answers.
TerminalVerdict(row, C, r) ==
  IF /\ 0 <= r.start_offset /\ r.start_offset < EndOf(r)
     /\ EndOf(r) <= row.confirmed_offset
     /\ row.confirmed_offset = row.total_bytes
     /\ ArchivedBytes(C, r.start_offset, EndOf(r)) = r.payload
  THEN "replay"
  ELSE IF row.status = "failed" THEN "session_failed_terminal"
  ELSE IF EndOf(r) <= row.confirmed_offset THEN "sealed_content_conflict"
  ELSE "session_sealed"

ActiveVerdict_AcceptsOverlap(row, C, r) ==
  IF r.start_offset <= row.confirmed_offset /\ EndOf(r) > row.confirmed_offset
  THEN "append"
  ELSE IF ArchivedBytes(C, r.start_offset, EndOf(r)) = r.payload
  THEN "replay"
  ELSE "stale_offset"

\* What an active session answers to a chunk that ends within the package.
ActiveVerdict(row, C, r) ==
  IF r.start_offset = row.confirmed_offset /\ EndOf(r) > row.confirmed_offset
  THEN "append"
  ELSE IF r.start_offset = row.confirmed_offset /\ EndOf(r) = row.confirmed_offset
  THEN "replay"
  ELSE IF /\ EndOf(r) <= row.confirmed_offset
          /\ ArchivedBytes(C, r.start_offset, EndOf(r)) = r.payload
  THEN "replay"
  ELSE "stale_offset"

\* The checks of put_chunk in the order the code makes them.
PutVerdict(row, C, r) ==
  IF Len(r.payload) # r.length THEN "length_mismatch"
  ELSE IF Sha256(r.payload) # r.sha256 THEN "chunk_digest_mismatch"
  ELSE IF EndOf(r) > row.total_bytes THEN "chunk_beyond_total"
  ELSE IF row.status = "active" THEN ActiveVerdict(row, C, r)
  ELSE TerminalVerdict(row, C, r)

Verdict(w) == PutVerdict(worker[w].loaded, chunks[Target(w)], worker[w].req)

Handles(w, kind) == worker[w].pc = "handle" /\ worker[w].req.kind = kind

\* An UploadError: the lock is kept until the database session is closed.
PutRefuse(w) ==
  /\ Handles(w, "put")
  /\ Verdict(w) \notin {"append", "replay"}
  /\ worker' = [worker EXCEPT ![w].pc = "done", ![w].code = Verdict(w)]
  /\ UNCHANGED <<upload_sessions, chunks, audit_events, lock>>

\* An idempotent replay: the commit writes nothing and gives the lock back.
PutReplay(w) ==
  /\ Handles(w, "put")
  /\ Verdict(w) = "replay"
  /\ lock' = Unlocked(w)
  /\ worker' = [worker EXCEPT ![w].pc = "done", ![w].code = "replayed"]
  /\ UNCHANGED <<upload_sessions, chunks, audit_events>>

NextAuditSequence_FromZero(s) == Max({e.sequence : e \in audit_events[s]} \cup {0})

\* _next_audit_sequence
NextAuditSequence(s) == Max({e.sequence : e \in audit_events[s]} \cup {0}) + 1

Finalized_TrustsChunkDigests(row, C) ==
  LET computed == ComputedDigest(C, row.total_bytes)
  IN  [row EXCEPT !.status = IF computed # None THEN "sealed" ELSE "failed",
                  !.computed_sha256 = computed]

\* _verify_and_finalize: a package with every byte is sealed or failed.
Finalized(row, C) ==
  LET computed == ComputedDigest(C, row.total_bytes)
  IN  [row EXCEPT !.status = IF computed # None /\ computed = row.whole_sha256
                             THEN "sealed" ELSE "failed",
                  !.computed_sha256 = computed]

Advanced_NeverFinalizes(row, C, end) == [row EXCEPT !.confirmed_offset = end]

\* The row after a chunk that ends at `end` joined the chunk rows C.
Advanced(row, C, end) ==
  LET grown == [row EXCEPT !.confirmed_offset = end]
  IN  IF end = row.total_bytes THEN Finalized(grown, C) ELSE grown

PutAppend_NoSnapshot(w) ==
  /\ Handles(w, "put")
  /\ Verdict(w) = "append"
  /\ LET s   == Target(w)
         r   == worker[w].req
         new == RowOf(r.start_offset, r.payload)
         row == Advanced(worker[w].loaded, chunks[s] \cup {new}, EndOf(r))
     IN  worker' = [worker EXCEPT ![w].pc = "commit", ![w].loaded = row,
                                  ![w].pending = Writes({new}, {}, {})]
  /\ UNCHANGED <<upload_sessions, chunks, audit_events, lock>>

PutAppend(w) ==
  /\ Handles(w, "put")
  /\ Verdict(w) = "append"
  /\ LET s     == Target(w)
         r     == worker[w].req
         new   == RowOf(r.start_offset, r.payload)
         row   == Advanced(worker[w].loaded, chunks[s] \cup {new}, EndOf(r))
         audit == IF row.status = "sealed"
                  THEN {SealedEvent(NextAuditSequence(s), row.total_bytes,
                                    row.computed_sha256)}
                  ELSE {}
     IN  worker' = [worker EXCEPT ![w].pc = "commit", ![w].loaded = row,
                                  ![w].pending = Writes({new}, {}, audit)]
  /\ UNCHANGED <<upload_sessions, chunks, audit_events, lock>>

-------------------------------------------------------------------------------
(***************************************************************************)
(* compact_sealed, from the granted lock to its flush or its refusal.      *)
(***************************************************************************)
CompactRefuse(w) ==
  /\ Handles(w, "compact")
  /\ worker[w].loaded.status # "sealed"
  /\ worker' = [worker EXCEPT ![w].pc = "done",
                              ![w].code = "compaction_state_conflict"]
  /\ UNCHANGED <<upload_sessions, chunks, audit_events, lock>>

\* The rows the archive is rewritten into.
NewChunks(row, C, target) == Rechunked(Whole(C, row.total_bytes), row.total_bytes, target)

\* The verification of the flushed layout before the commit.
NewLayoutVerifies(row, N, target) ==
  /\ \A c \in N : c.end_offset - c.start_offset <= target /\ RowIntact(c)
  /\ ComputedDigest(N, row.total_bytes) = row.whole_sha256

\* Why a compaction is rolled back, None when it is not.  The audit row holds
\* the target in a BIGINT column.
CompactError(row, C, target) ==
  IF ComputedDigest(C, row.total_bytes) # row.whole_sha256
  THEN "compaction_integrity_error"
  ELSE IF ~NewLayoutVerifies(row, NewChunks(row, C, target), target)
  THEN "compaction_integrity_error"
  ELSE IF target > MaxBigint THEN "audit_write_failed"
  ELSE None

Compacts(w) == Handles(w, "compact") /\ worker[w].loaded.status = "sealed"

CompactRollback(w) ==
  /\ Compacts(w)
  /\ LET error == CompactError(worker[w].loaded, chunks[Target(w)],
                               worker[w].req.target_chunk_bytes)
     IN  /\ error # None
         /\ worker' = [worker EXCEPT ![w].pc = "done", ![w].code = error]
  /\ lock' = Unlocked(w)
  /\ UNCHANGED <<upload_sessions, chunks, audit_events>>

CompactedEvent(sequence, row, target, before, after) ==
  [sequence |-> sequence, event |-> "compacted", total_bytes |-> row.total_bytes,
   whole_sha256 |-> row.whole_sha256, target_chunk_bytes |-> target,
   chunks_before |-> before, chunks_after |-> after]

CompactRewrite_CommitsTheDelete(w) ==
  /\ Compacts(w)
  /\ LET s      == Target(w)
         row    == worker[w].loaded
         target == worker[w].req.target_chunk_bytes
         new    == NewChunks(row, chunks[s], target)
         event  == CompactedEvent(NextAuditSequence(s), row, target,
                                  Cardinality(chunks[s]), Cardinality(new))
     IN  /\ CompactError(row, chunks[s], target) = None
         /\ chunks' = [chunks EXCEPT ![s] = {}]
         /\ worker' = [worker EXCEPT ![w].pc = "commit",
                                     ![w].pending = Writes(new, {}, {event})]
  /\ UNCHANGED <<upload_sessions, audit_events, lock>>

CompactRewrite_AuditsOnlyNoOp(w) ==
  /\ Compacts(w)
  /\ LET s      == Target(w)
         row    == worker[w].loaded
         target == worker[w].req.target_chunk_bytes
         old    == chunks[s]
         new    == NewChunks(row, old, target)
         event  == CompactedEvent(NextAuditSequence(s), row, target,
                                  Cardinality(old), Cardinality(new))
     IN  /\ CompactError(row, old, target) = None
         /\ worker' = [worker EXCEPT ![w].pc = "commit",
                         ![w].pending = IF Layout(old) = Layout(new)
                                        THEN Writes({}, {}, {event})
                                        ELSE Writes(new, old, {})]
  /\ UNCHANGED <<upload_sessions, chunks, audit_events, lock>>

\* A layout that already is the target layout is left alone, and audited.
CompactRewrite(w) ==
  /\ Compacts(w)
  /\ LET s      == Target(w)
         row    == worker[w].loaded
         target == worker[w].req.target_chunk_bytes
         old    == chunks[s]
         new    == NewChunks(row, old, target)
         event  == CompactedEvent(NextAuditSequence(s), row, target,
                                  Cardinality(old), Cardinality(new))
     IN  /\ CompactError(row, old, target) = None
         /\ worker' = [worker EXCEPT ![w].pc = "commit",
                         ![w].pending = IF Layout(old) = Layout(new)
                                        THEN Writes({}, {}, {event})
                                        ELSE Writes(new, old, {event})]
  /\ UNCHANGED <<upload_sessions, chunks, audit_events, lock>>

-------------------------------------------------------------------------------
(***************************************************************************)
(* COMMIT makes the flushed writes visible and gives the lock back.        *)
(***************************************************************************)
CommitWrites(w) ==
  LET s == Target(w)
      p == worker[w].pending
  IN  /\ upload_sessions' = IF worker[w].req.kind = "put"
                            THEN [upload_sessions EXCEPT ![s] = worker[w].loaded]
                            ELSE upload_sessions
      /\ chunks' = [chunks EXCEPT ![s] = (@ \ p.deleted) \cup p.inserted]
      /\ audit_events' = [audit_events EXCEPT ![s] = @ \cup p.audit]
      /\ lock' = Unlocked(w)

CommitPut(w) ==
  /\ worker[w].pc = "commit" /\ worker[w].req.kind = "put"
  /\ CommitWrites(w)
  /\ worker' = [worker EXCEPT ![w].pc = "refresh", ![w].pending = None]

CommitCompact(w) ==
  /\ worker[w].pc = "commit" /\ worker[w].req.kind = "compact"
  /\ CommitWrites(w)
  /\ worker' = [worker EXCEPT ![w].pc = "done", ![w].pending = None,
                              ![w].code = "ok"]

\* The database commits and the connection breaks before it can say so.
CommitUnanswered(w) ==
  /\ worker[w].pc = "commit"
  /\ CommitWrites(w)
  /\ worker' = [worker EXCEPT ![w].pc = "done", ![w].pending = None,
                              ![w].code = "server_error"]

\* db.refresh(session) reads the row again, WITHOUT the lock: a later PUT may
\* have moved it on.  Only the PUT that finalized the package reports a failure.
Refresh(w) ==
  /\ worker[w].pc = "refresh"
  /\ LET row       == upload_sessions[Target(w)]
         finalized == EndOf(worker[w].req) = row.total_bytes
     IN  worker' = [worker EXCEPT ![w].pc = "done", ![w].loaded = row,
                      ![w].code = IF finalized /\ row.status = "failed"
                                  THEN "whole_digest_mismatch" ELSE "ok"]
  /\ UNCHANGED <<upload_sessions, chunks, audit_events, lock>>

-------------------------------------------------------------------------------
(***************************************************************************)
(* The readers: one statement for the session row, one for the others.     *)
(***************************************************************************)
ReadCode_AnyStatus(row, r) ==
  IF row = None THEN "session_not_found"
  ELSE IF r.kind = "session" THEN "ok"
  ELSE None

ReadCode(row, r) ==
  IF row = None THEN "session_not_found"
  ELSE IF r.kind = "content" /\ row.status # "sealed" THEN "not_sealed"
  ELSE IF r.kind = "session" THEN "ok"
  ELSE None

ReadSession(w) ==
  /\ worker[w].pc = "select" /\ ~IsWriter(w)
  /\ LET row  == upload_sessions[Target(w)]
         code == ReadCode(row, worker[w].req)
     IN  worker' = [worker EXCEPT ![w].loaded = row, ![w].code = code,
                                  ![w].pc = IF code = None THEN "rows" ELSE "done"]
  /\ UNCHANGED <<upload_sessions, chunks, audit_events, lock>>

ReadAudit(w) ==
  /\ worker[w].pc = "rows" /\ worker[w].req.kind = "audit"
  /\ worker' = [worker EXCEPT ![w].pc = "done", ![w].code = "ok",
                              ![w].fetched = audit_events[Target(w)]]
  /\ UNCHANGED <<upload_sessions, chunks, audit_events, lock>>

ReadChunks(w) ==
  /\ worker[w].pc = "rows" /\ worker[w].req.kind = "chunks"
  /\ worker' = [worker EXCEPT ![w].pc = "done", ![w].code = "ok",
                              ![w].fetched = chunks[Target(w)]]
  /\ UNCHANGED <<upload_sessions, chunks, audit_events, lock>>

\* A download releases bytes only when the whole archive verifies.
ReadContent(w) ==
  /\ worker[w].pc = "rows" /\ worker[w].req.kind = "content"
  /\ LET C   == chunks[Target(w)]
         row == worker[w].loaded
     IN  worker' = [worker EXCEPT ![w].pc = "done", ![w].fetched = C,
                      ![w].code = IF ArchiveVerifies(C, row.total_bytes, row.whole_sha256)
                                  THEN "ok" ELSE "sealed_integrity_error"]
  /\ UNCHANGED <<upload_sessions, chunks, audit_events, lock>>

-------------------------------------------------------------------------------
(***************************************************************************)
(* Failures, and the end of a request.                                     *)
(***************************************************************************)
InProgress(w) == worker[w].pc \notin {"idle", "done"}

\* A statement fails, or no connection can be had: the exception leaves the
\* handler, nothing that was flushed is committed.  The lock is given back at
\* once (a broken connection, the rollback of a compaction or of a failed audit
\* write) or only when the session is closed.
DbError(w) ==
  /\ InProgress(w)
  /\ lock' \in {lock, Unlocked(w)}
  /\ worker' = [worker EXCEPT ![w].pc = "done", ![w].pending = None,
                              ![w].code = "server_error"]
  /\ UNCHANGED <<upload_sessions, chunks, audit_events>>

Close_KeepsLock(w) ==
  /\ worker[w].pc = "done"
  /\ worker' = [worker EXCEPT ![w] = Idle]
  /\ UNCHANGED <<upload_sessions, chunks, audit_events, lock>>

\* get_db closes the session, rolling back what is open; then the reply leaves.
Close(w) ==
  /\ worker[w].pc = "done"
  /\ lock' = Unlocked(w)
  /\ worker' = [worker EXCEPT ![w] = Idle]
  /\ UNCHANGED <<upload_sessions, chunks, audit_events>>

\* The API process dies and is started again; the database rolls its open
\* transactions back and keeps what was committed.
Restart ==
  /\ \E w \in Workers : worker[w].pc # "idle"
  /\ lock' = [s \in Sessions |-> None]
  /\ worker' = [w \in Workers |-> Idle]
  /\ UNCHANGED <<upload_sessions, chunks, audit_events>>

-------------------------------------------------------------------------------
Write(w) ==
  \/ LockMissing(w) \/ LockSession(w)
  \/ PutRefuse(w) \/ PutReplay(w) \/ PutAppend(w)
  \/ CompactRefuse(w) \/ CompactRollback(w) \/ CompactRewrite(w)
  \/ CommitPut(w) \/ CommitCompact(w) \/ Refresh(w)

Read(w) == ReadSession(w) \/ ReadAudit(w) \/ ReadChunks(w) \/ ReadContent(w)

Step(w) == Write(w) \/ Read(w) \/ Close(w)

\* What the process does while it lives.
Serve ==
  \/ \E s \in Sessions, m \in Registrations : CreateSession(s, m)
  \/ \E w \in Workers, r \in Requests : Receive(w, r) \/ Reject(w, r)
  \/ \E w \in Workers : Step(w) \/ CommitUnanswered(w) \/ DbError(w)

Next == Serve \/ Restart

Spec == Init /\ [][Next]_vars

-------------------------------------------------------------------------------
(***************************************************************************)
(* Type correctness.                                                       *)
(***************************************************************************)
WorkerState ==
  [pc : {"idle", "select", "handle", "commit", "refresh", "rows", "done"},
   req : {None} \cup Requests,
   loaded : {None} \cup UploadSession,
   pending : {None} \cup Pending,
   fetched : {None} \cup SUBSET (ChunkRow \cup AuditEvent),
   code : {None} \cup Codes]

\* Every step keeps the tables and the workers well typed: in particular no
\* handler stores an offset, a digest or a chunk that its columns cannot hold.
TypeOK ==
  /\ upload_sessions \in [Sessions -> {None} \cup UploadSession]
  /\ chunks \in [Sessions -> SUBSET ChunkRow]
  /\ audit_events \in [Sessions -> SUBSET AuditEvent]
  /\ lock \in [Sessions -> {None} \cup Workers]
  /\ worker \in [Workers -> WorkerState]

-------------------------------------------------------------------------------
(***************************************************************************)
(* The archive.                                                            *)
(***************************************************************************)
Registered(s) == upload_sessions[s] # None

ArchivedPrefix(s) == Whole(chunks[s], upload_sessions[s].confirmed_offset)

\* A session row and the chunk rows stored with it agree: the chunks are intact
\* and tile exactly [0, confirmed_offset), and the session is active exactly
\* while bytes are missing.
ArchiveAgrees(row, C) ==
  /\ Tiles(C, row.confirmed_offset)
  /\ row.confirmed_offset <= row.total_bytes
  /\ row.status = "active" <=> row.confirmed_offset < row.total_bytes

\* The verdict on a complete package follows from its archived bytes.
VerdictAgrees(row, C) ==
  LET digest == Sha256(Whole(C, row.total_bytes))
  IN  row.status # "active" => /\ row.computed_sha256 = digest
                               /\ row.status = "sealed" <=> digest = row.whole_sha256

\* The checkpoint a device resumes from never runs ahead of, or behind, the
\* bytes that are persisted (put_chunk and compact_sealed commit the session
\* row and the chunk rows together, whatever fails or dies in between).
CheckpointMatchesArchive ==
  \A s \in Sessions : IF Registered(s) THEN ArchiveAgrees(upload_sessions[s], chunks[s])
                      ELSE chunks[s] = {}

\* A session is sealed only if the archived bytes hash to the registered
\* digest, and failed only if they do not (_verify_and_finalize, create_session),
\* however many writers and compactions raced for the last chunk.
VerdictIsTrue ==
  \A s \in Sessions : Registered(s) => VerdictAgrees(upload_sessions[s], chunks[s])

-------------------------------------------------------------------------------
(***************************************************************************)
(* What concurrency could break.                                           *)
(***************************************************************************)
\* The row a writer decides on is the row as it is committed, from the granted
\* lock to its decision and, for a refusal, to its reply: no writer overwrites
\* another's update, and the expected_offset a 409 reports is the current one.
LockedSnapshotFresh ==
  \A w \in Workers :
    (\/ worker[w].pc = "handle"
     \/ worker[w].pc = "done" /\ \E s \in Sessions : lock[s] = w
                              /\ worker[w].code # "server_error")
      => /\ lock[Target(w)] = w
         /\ worker[w].loaded = upload_sessions[Target(w)]

FlushIsUnique(w) ==
  LET p == worker[w].pending
  IN  /\ \A c \in p.inserted, d \in chunks[Target(w)] \ p.deleted :
           c.start_offset # d.start_offset
      /\ \A e \in p.audit, f \in audit_events[Target(w)] : e.sequence # f.sequence

\* Flushed rows never collide with committed ones on uq_chunk_session_offset or
\* uq_audit_session_sequence: the IntegrityError fallback of put_chunk (lines
\* 433-441) is never needed, because the row lock serializes the writers.
NoUniqueViolation ==
  \A w \in Workers : worker[w].pc = "commit" => FlushIsUnique(w)

\* An acknowledged chunk is durable: when a PUT answers 200 its bytes are in
\* the archive below the checkpoint it reports, and the PUT that completed the
\* package reports a sealed one.
AckIsDurable ==
  \A w \in Workers :
    worker[w].pc = "done" /\ worker[w].code \in {"ok", "replayed"}
                          /\ worker[w].req.kind = "put" =>
      LET r == worker[w].req
          row == worker[w].loaded
      IN  /\ EndOf(r) <= row.confirmed_offset
          /\ row.confirmed_offset <= upload_sessions[r.session].confirmed_offset
          /\ ArchivedBytes(chunks[r.session], r.start_offset, EndOf(r)) = r.payload
          /\ worker[w].code = "ok" /\ EndOf(r) = row.total_bytes => row.status = "sealed"

ProtocolConflicts ==
  {"stale_offset", "sealed_content_conflict", "session_failed_terminal",
   "session_sealed", "chunk_beyond_total"}

\* A retry of archived bytes is honoured: a non-empty, well-formed chunk is
\* refused only when its bytes are not the archived ones, whatever the chunk
\* boundaries, the state of the session and the compactions in between.
RetryIsHonoured ==
  \A w \in Workers :
    worker[w].pc = "done" /\ worker[w].code \in ProtocolConflicts =>
      LET r == worker[w].req
      IN  r.length > 0 =>
            ArchivedBytes(chunks[r.session], r.start_offset, EndOf(r)) # r.payload

-------------------------------------------------------------------------------
(***************************************************************************)
(* What readers see between the commits of writers.                        *)
(***************************************************************************)
\* The chunk list read in the second statement of list_chunks or of a download
\* is a whole layout, before or after any compaction, and reaches at least the
\* checkpoint read in the first one.
ReadersSeeWholeLayouts ==
  \A w \in Workers :
    worker[w].pc = "done" /\ worker[w].fetched # None
                          /\ worker[w].req.kind \in {"chunks", "content"} =>
      LET row == worker[w].loaded
      IN  \E n \in row.confirmed_offset..row.total_bytes : Tiles(worker[w].fetched, n)

\* A download of a sealed package is never refused by its own verification,
\* and the bytes it releases are those of the registered digest, even when a
\* compaction commits between the reading of the row and of the chunks.
DownloadIsExact ==
  \A w \in Workers :
    worker[w].pc = "done" /\ worker[w].fetched # None /\ worker[w].req.kind = "content" =>
      /\ worker[w].code = "ok"
      /\ Sha256(Whole(worker[w].fetched, worker[w].loaded.total_bytes))
           = worker[w].loaded.whole_sha256

-------------------------------------------------------------------------------
(***************************************************************************)
(* The audit trail.                                                        *)
(***************************************************************************)
\* The trail of a session is numbered 1, 2, 3, ... without gap or duplicate.
\* The snapshot of the seal is its first row, exists once, and exists exactly
\* for the sessions that were sealed by this code.
AuditTrailOrdered ==
  \A s \in Sessions :
    LET A == audit_events[s]
    IN  /\ {e.sequence : e \in A} = 1..Cardinality(A)
        /\ \A e \in A : e.event = "sealed" <=> (e.sequence = 1 /\ s \notin DOMAIN Legacy)
        /\ s \notin DOMAIN Legacy =>
             (A # {} <=> Registered(s) /\ upload_sessions[s].status = "sealed")

\* The audit rows A account for the layout C of a session: each compaction starts
\* from the number of chunks the previous one left, and the last one describes
\* the rows that are stored, split at multiples of its target.
LayoutExplained(row, C, A) ==
  LET packed == {e \in A : e.event = "compacted"}
  IN  \A e \in packed :
        IF \E f \in packed : f.sequence = e.sequence + 1
        THEN \A f \in packed :
               f.sequence = e.sequence + 1 => f.chunks_before = e.chunks_after
        ELSE /\ Cardinality(C) = e.chunks_after
             /\ Spans(C) = PlannedSpans(row.total_bytes, e.target_chunk_bytes)

\* The trail explains the stored chunk rows, whatever compactions were requested,
\* rolled back or found nothing to do (_audit_snapshot, compact_sealed).
AuditTrailExplainsLayout ==
  \A s \in Sessions : LayoutExplained(upload_sessions[s], chunks[s], audit_events[s])

\* A reader that sees a sealed session finds its seal in the trail: both were
\* committed in one transaction, in whichever order they are read afterwards.
TrailKnowsTheSeal ==
  \A w \in Workers :
    worker[w].pc = "done" /\ worker[w].fetched # None /\ worker[w].req.kind = "audit" =>
      (worker[w].loaded.status = "sealed" /\ Target(w) \notin DOMAIN Legacy
         => \E e \in worker[w].fetched : e.event = "sealed" /\ e.sequence = 1)

-------------------------------------------------------------------------------
(***************************************************************************)
(* What no step may do.                                                    *)
(***************************************************************************)
\* No step changes the identity of a package, moves its checkpoint back or
\* overwrites a confirmed byte: not a retry, a compaction, a failure, a restart.
ConfirmedBytesImmutable ==
  [][\A s \in Sessions : Registered(s) =>
       LET row == upload_sessions[s]
       IN  /\ upload_sessions'[s] # None
           /\ upload_sessions'[s].total_bytes = row.total_bytes
           /\ upload_sessions'[s].whole_sha256 = row.whole_sha256
           /\ upload_sessions'[s].confirmed_offset >= row.confirmed_offset
           /\ Whole(chunks'[s], row.confirmed_offset) = ArchivedPrefix(s)]_vars

\* A sealed or failed session keeps its row for ever, only a sealed one is ever
\* packed anew, and then an audit row is written in the same step.
TerminalIsFinal ==
  [][\A s \in Sessions : Registered(s) /\ upload_sessions[s].status # "active" =>
       /\ upload_sessions'[s] = upload_sessions[s]
       /\ chunks'[s] # chunks[s] => /\ upload_sessions[s].status = "sealed"
                                    /\ audit_events'[s] # audit_events[s]]_vars

-------------------------------------------------------------------------------
(***************************************************************************)
(* Liveness, and the service a client sees.                                *)
(***************************************************************************)
\* No writer waits for a row lock for ever: every request is answered, or dies
\* with its process.
EveryRequestAnswered ==
  \A w \in Workers : worker[w].pc # "idle" ~> worker[w].pc = "idle"

\* Each session is a prefix of bytes that grows, then a verdict (see Package).
Stored(s) ==
  IF Registered(s)
  THEN [total_bytes |-> upload_sessions[s].total_bytes,
        whole_sha256 |-> upload_sessions[s].whole_sha256,
        bytes |-> ArchivedPrefix(s),
        status |-> upload_sessions[s].status]
  ELSE None

StoredPackages == [s \in Sessions |-> Stored(s)]

Abstract == INSTANCE Package WITH package <- StoredPackages

\* Chunk rows, row locks, compactions, failures and restarts implement Package.
PackageSpec == Abstract!Spec

-------------------------------------------------------------------------------
(***************************************************************************)
(* Statements of the documentation that the code does not keep.            *)
(***************************************************************************)
\* README: "bytes identical to the archived ones: a resend succeeds, also after
\* sealing".  A 0-byte chunk that an active session acknowledges is refused
\* once the session is sealed (_terminal_replay asks for start < end).
IdenticalResendSucceeds ==
  \A w \in Workers :
    worker[w].pc = "done" /\ worker[w].code \in ProtocolConflicts =>
      LET r == worker[w].req
      IN  EndOf(r) <= worker[w].loaded.confirmed_offset =>
            ArchivedBytes(chunks[r.session], r.start_offset, EndOf(r)) # r.payload

\* README: the 200 of an uploaded chunk carries the status active or sealed.
\* The row is refreshed after the lock is gone: when a concurrent PUT fails the
\* package in between, the acknowledgment of an accepted chunk says failed.
AckOfLiveSession ==
  \A w \in Workers :
    worker[w].pc = "done" /\ worker[w].code = "ok" /\ worker[w].req.kind = "put" =>
      worker[w].loaded.status \in {"active", "sealed"}
==============================================================================
