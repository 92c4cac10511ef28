# A TLA+ model of the seismic-trace upload service

The service (`src/app`) takes one *record package* per upload session from a
field device over a bad link: the device registers the length and the SHA-256 of
the package, sends it in chunks, may lose any answer, may resume at any time, and
in the end finds the package *sealed* (the archived bytes have the registered
digest) or *failed* (they do not). A sealed package can be read, compacted
(stored in chunks of another size), audited and compared with another one.

This directory models that service in TLA+, checks it with TLC on small
instances, and proves its main safety properties with TLAPS for all values of
the constants.

1. [The system](#1-the-system)
2. [The modules](#2-the-modules)
3. [What the runs check](#3-what-the-runs-check)
4. [Bounds and fairness](#4-bounds-and-fairness)
5. [What is proved](#5-what-is-proved)
6. [Where the documentation and the code differ](#6-where-the-documentation-and-the-code-differ)
7. [What is not modelled, and what is left](#7-what-is-not-modelled-and-what-is-left)

Commands, in this directory:

    tlc -workers 2 -config MCIngest_race.cfg MCIngest
    tlapm Ingest_proofs.tla       # and every other *_proofs.tla

## 1. The system

### Components, their state and operations

| component | code | state | operations |
|---|---|---|---|
| session registration | `service.create_session`, `POST /sessions` | row of `upload_sessions` | insert as active; a 0-byte package is judged at once |
| chunk upload | `service.put_chunk`, `PUT /sessions/{id}/chunks` | rows of `chunks`, `confirmed_offset` | append at the checkpoint, replay of archived bytes, a dozen refusals |
| finalization | `service._verify_and_finalize` | `status`, `computed_sha256` | recompute the digest from the persisted rows, seal or fail |
| compaction | `service.compact_sealed`, `POST .../compact` | rows of `chunks` of a sealed session | verify, delete, insert, verify again, audit; or no-op and audit |
| audit trail | `service._add_audit`, `GET .../audit` | rows of `audit_events` | append in the transaction that seals or compacts; read |
| readers | `main.get_session`, `list_chunks`, `download_content` | none | two statements each; a download verifies the whole archive |
| byte ranges | `main._parse_single_range` | none | parse `a-b`, `a-`, `-n` against the total |
| comparison | `service.create_comparison` and its helpers | rows of `comparisons` | verify two archives, walk both streams, store an immutable record |
| database session | `database.get_db`, PostgreSQL | transactions, row locks | `SELECT ... FOR UPDATE`, flush, COMMIT, rollback, close |
| connection pool | `database.engine` | at most 15 connections | checkout with a ping and a timeout |
| startup | `database.wait_for_database`, `init_db` | schema | wait with a deadline, create the tables |
| listing, health | `main.list_sessions`, `main.health` | none | one read-only statement each |
| schemas, errors, configuration | `schemas`, `errors`, `config` | none | parsing, formatting |
| field device | outside; `README.md`, `tests/conftest.py` | checkpoint it knows | register, send a piece, ask where to resume |

### How they interact

Every handler is a synchronous function: FastAPI runs it in a threadpool, with a
database session of its own (`get_db`) that is closed, rolling back what is
open, **before the reply leaves** (so in the pinned FastAPI 0.115.6). Before that, what
the handler returned is validated against its response model, in a thread of the same
threadpool: the request waits for a thread again, with the connection it has read on.
Only a handler that raises, and `download_content`, which returns a `Response`, skip
this. Handlers share nothing but the database, at
the isolation level READ COMMITTED: each *statement* sees what was committed
when it started. The only synchronization is the row lock that
`_get_locked_session` takes for a chunk upload and a compaction. Readers take
none; a comparison reads without locks too, but the foreign keys of the record it
inserts make PostgreSQL lock both session rows `FOR KEY SHARE` until its COMMIT.

A writer goes through: check the request, `SELECT ... FOR UPDATE` (waits for the
lock, then reads the latest row), decide, flush inserts and deletes, COMMIT (which
makes the writes visible and releases the lock, in one moment). An upload then
*refreshes* its row in a new transaction, without the lock, and answers from it.
A refused upload keeps the lock until its session is closed, and so does a compaction
of a session that is not sealed (409); what fails in a compaction after that check
rolls back at once.

### What is hard

* two writers decide on the same checkpoint; a compaction races an upload;
* the process or the connection dies between flush and COMMIT, or between COMMIT
  and the answer; the device cannot tell and sends again, perhaps with other
  chunk boundaries, perhaps after the session was sealed and compacted;
* readers take two snapshots with a compaction between them;
* a compaction deletes every row of a sealed package before it writes them again;
* verdict, checkpoint, rows and audit rows must never be seen apart;
* `db.refresh` reads a row that another request may have changed, on a connection
  it has to check out a second time;
* requests wait for threads, connections and row locks at once, and for a thread a
  second time with a connection in hand;
* what SQLAlchemy reads back is not always what the database stored;
* a database goes away during start-up; storage alters rows, at rest or while they
  are written;
* edges: 0-byte packages and chunks, chunks that end at, before and past the
  checkpoint, a target that does not divide the length, one that exceeds BIGINT,
  ranges at the end of the package, blocks that end together.

`PROJECT.json` lists these as hazards, each with its line and with the properties
that would catch it going wrong.

### What makes each component correct

* *upload*: the stored chunks are intact and tile exactly `[0, confirmed_offset)`;
  a confirmed byte never changes; an acknowledged chunk is durable; a retry of
  archived bytes is honoured.
* *finalization*: sealed iff the archived bytes hash to the registered digest,
  once and for all; the completing upload says so.
* *compaction*: same bytes, the planned layout, all or nothing, only on sealed
  sessions, always audited; no row lost, whatever storage does.
* *audit trail*: numbered 1, 2, 3, ..., append only, the seal first, and it accounts
  for the layout that is stored.
* *readers*: a download of a sealed package is exact and is never refused because
  a compaction ran at the same time; a chunk list is a whole layout.
* *byte ranges*: exactly the sealed bytes at the offsets asked for, in any layout;
  none from a damaged archive.
* *comparison*: every stored record is true and stays true; no false alarm; no
  lock waited for in vain.
* *database session*: no lost update, no unique violation, no lock kept for ever.
* *threads and connections*: nobody waits for a row for ever, or for a thread or a
  connection longer than the pool's timeout can help.
* *start-up*: the schema before the first request, service after every outage.
* *field device*: what it was told holds; it gets its package through.

## 2. The modules

    ChunkLayout                the rows of one session, and the computations on them
      ChunkLayout_proofs       lemmas and a theorem on layouts
      Ingest                   sessions, requests, transactions (EXTENDS ChunkLayout)
        IngestInvariant        the invariant of its tables and transactions
          PromiseInvariant     the invariant of its answers, readers and audit trail
            MCIngest           instances for TLC
            Ingest_proofs      theorems on both, and the refinement of Package
        Comparison             comparisons beside all of Ingest
          ComparisonInvariant  (EXTENDS PromiseInvariant)
            Comparison_proofs
        FieldDevice            a device that uploads through Ingest
          DeviceInvariant      (EXTENDS PromiseInvariant)
            FieldDevice_proofs
      StreamWalk               the walk of a comparison over two streams of blocks
        StreamWalk_proofs
      LayoutLoops              the code's loops over rows, against ChunkLayout
      ByteRange                the parser of Range headers, and what it should answer
        Archive                reads and compactions on storage that may alter rows
          ArchiveInvariant     (MCArchive extends it)
            Archive_proofs     theorems on it, on the loops and on the parser
    Package                    the abstract specification that Ingest implements
    Resources                  threads, connections and row locks
      Resources_proofs
    Startup                    process, database, pool
      Startup_proofs

Each module `M` with a state that TLC runs has its instances in `MCM`. `Comparison`
and `FieldDevice` compose: they add actors to `Ingest` and take its actions as they
are. `Archive` runs the loops of `LayoutLoops` and the parser of `ByteRange`.
`Resources` and `Startup` look at one mechanism each, from close by, and leave out
the rest.

### ChunkLayout

The chunk rows of one session are a set of records (`start_offset`, `end_offset`,
`sha256`, `data`). The code's loops walk the rows in offset order with a cursor;
here the cursor before a row is the end of the row that starts last before it
(`Cursor`), so a walk is a quantified formula (`Contiguous`) and no recursion is
needed. `ArchivedBytes` is `_archived_bytes`, `ComputedDigest` is the digest of
`_verify_and_finalize`, `ArchiveVerifies` is `verified_sealed_bytes`,
`PlannedSpans` and `Rechunked` are `_planned_spans` and the rows compaction writes.
`Sha256` is a constant operator into the set `Digests`. No module assumes
that it has no collisions; one theorem has a hypothesis about them (section 5).

`Tiles(C, n)` is what the rows *should* be: intact, non-empty, disjoint, covering
exactly the offsets below `n`.

### LayoutLoops

The definitions of `ChunkLayout` say what the loops of the code compute.
`LayoutLoops` has the loops themselves, one accumulator per loop and one fold step
per iteration, over the rows in the order of their starts (`OrderedByStart`):
`FinalizeLoop`, `ArchivedLoop` (slices relative to a cursor), `ReadLoop` (with the
window of a range request) and `CutLoop`. It has no state:
`Archive` runs `ReadLoop` and `CutLoop` on the rows of its archive, and in the same
run the loops are compared with their definitions on every set of rows that storage
has come to hold, gaps, overlaps and altered rows included. `Archive_proofs` proves
the agreement for all tables.

### Ingest

| variable | code |
|---|---|
| `upload_sessions[s]` | the committed row of session `s`, `None` before `POST /sessions` |
| `chunks[s]` | its committed rows of `chunks` |
| `audit_events[s]` | its committed rows of `audit_events` |
| `lock[s]` | which database session holds the row lock |
| `worker[w]` | a threadpool thread and its database session: program counter, request, the loaded row, flushed writes, rows a reader fetched, the answer |

One step is the code between two points at which another request can be seen or
can see this one:

| `pc` | next action | code |
|---|---|---|
| `idle` | `Receive`, `Reject` | the checks in `main` and `schemas` before the service is called |
| `select` | `LockSession`, `LockMissing` | `_get_locked_session` |
| `handle` | `PutRefuse`, `PutReplay`, `PutAppend` | `put_chunk` from the lock to its flush, with `_terminal_replay` and `_verify_and_finalize` |
| `handle` | `CompactRefuse`, `CompactRollback`, `CompactRewrite` | `compact_sealed` from the lock to its flush |
| `commit` | `CommitPut`, `CommitCompact` | `db.commit()`; `CommitUnanswered` when the confirmation is lost |
| `refresh` | `Refresh` | `db.refresh(session)` and the answer computed from it |
| `select`, `rows` | `ReadSession`; `ReadAudit`, `ReadChunks`, `ReadContent` | the two statements of a reader |
| any but `done` | `DbError` | a statement or the connection fails; the lock goes at once or at close |
| `done` | `Close` | `get_db` closes, the reply leaves |

`CreateSession` is one step because nobody knows the id before the reply.
`Restart` is the death of the API process: PostgreSQL rolls back what is open.

Points where the model follows the code and not the intuition:

* `PutVerdict` makes the checks in the code's order: the end of the package
  before the status.
* A 0-byte chunk at the checkpoint of an active session is acknowledged as a
  replay and stores nothing; in a terminal session it is refused.
* Past its checks, an active session's verdict does not compare the bytes of a
  chunk at the checkpoint, it appends; everywhere else it compares.
* The `IntegrityError` fallback of `put_chunk` (lines 433-441) has no action:
  `NoUniqueViolation` shows, and a theorem proves, that a flush cannot collide.
* `CommitUnanswered` leaves the client with a 500 and the database with the chunk.
* A compaction target beyond BIGINT is valid JSON, passes every check and the
  rewrite, and fails when the audit row is written: everything is rolled back.
* Sessions in `Legacy` were sealed before the audit trail existed (the case of
  `tests/test_08_audit_trail.py`); their trail starts with a compaction.

Left out of `Ingest`: ids and timestamps, message texts, the format of digests
and of JSON, `failure_reason`, the column `length` (it repeats the offsets).

Definitions named `X_Y` are `X` with a programming error `Y`; they are not part of
the specification. For each property one of them is put in place of `X` to see
that the property notices.

### Package

The abstract specification: a registered package is a prefix of bytes that
grows at its end, and the step that completes it decides its status for ever. No
chunks, transactions, requests, compactions or failures. `Ingest` implements it
under the mapping `Stored(s)`: all work on layouts, all refused requests and all
crashes map to stuttering.

### StreamWalk

`_streams_first_difference`, one iteration of its `while` per step: `Differ` (the
segments differ: return), `Advance` (consume the shorter remainder), `Finish` (a
side has no block left). The variables are the code's: `li`, `ri`, `lp`, `rp`,
`offset`. A stream is a sequence of verified rows, which is what
`_verified_archive_chunks` hands on. What the walk is for is said by
`CommonPrefix` and `FirstDifference` of `ChunkLayout`, and `Comparison` uses them.

### Comparison

Extends `Ingest` with threads that serve `POST /comparisons`. One action per
statement: `FindSide` (twice), `VerifySide` (twice: the rows of one side in one
statement), `InsertSide` (twice: the foreign keys), `CommitComparison`,
`AnswerComparison`, `CloseComparison`; errors and lost COMMIT answers as in
`Ingest`. A session compared with itself is loaded once, as the identity map does.

`InsertSide` waits while a writer has the row `FOR UPDATE`; `GrantsRespectShares`
makes a writer wait while a comparison has it `FOR KEY SHARE`. The COMMIT gives
the shares back, and so does `CloseComparison` after an error. That nobody waits
for such a lock for ever is checked in `Resources`. All of `Serve` of `Ingest` runs
beside. `get_comparison` reads a row that no action changes.

### FieldDevice

A client of `Ingest` that does what `README.md` asks of a device, written after
the client of `tests/conftest.py` and the restart test: `Register`, `Send` a piece
of any of its sizes at the checkpoint it knows, `Hear` the answer; after a lost
request or answer (`RequestLost`, `AnswerLost`), a 500 or a timeout (`TimeOut`),
`Ask` for the checkpoint.
A request it has given up stays with its worker and runs at any later time, so old
pieces arrive after new ones and after the seal. `OthersAsk` is anybody else's
request among `Others` (in the run: compactions); others may do whatever they like
to other sessions, but bring no bytes to this one.

### Resources

Where each request is (`queued` for a thread, `connect`, `lock`, `work`, `refresh`,
`validate`, `returned`), who holds which row `FOR UPDATE` (writers) or `FOR KEY SHARE`
(comparisons: the two foreign keys of the INSERT, one after the other), and who has
a connection. `Commit` gives back locks and connection; `Refresh` checks a
connection out again. A request that returned normally waits in `validate` for a thread
of the handlers' pool, in which FastAPI validates its answer (`Validate`, one step, since
nothing in it waits), and keeps the connection it has read on: a reader's, or that of
`db.refresh`. All these come after the COMMIT or from readers, so none owns a row. `Close`
returns what is left and needs no such thread: FastAPI exits context managers with a
limiter of their own, so no handler can starve it.

The entry of `get_db` runs in a handler's thread, too. It holds nothing there, and is
part of the wait in `queued`.

### ByteRange and Archive

`ParseRange` has the parser's order: form, digits, suffix, reversed, beyond the end.
A header is a record of what the parser tells apart: unit, comma, dashes and the two
boundaries, each a number, absent, no ASCII digits, or more digits than `int()`
converts.

`Archive` is one sealed package, its rows, one reader, compactions, and storage that
alters rows: at rest (`Damage`: a byte, a digest, both in step, a lost byte, a wrong
end, a lost or an alien row), or while a compaction writes them (`Stored`). `Get` is
the session row and the header, `Fetch` the rows and the reply: compactions or
damage may come between.

`compact_sealed` is a transaction under the row lock (its interleavings are those of
`Ingest`), so it is one step here with three outcomes: `Refuse`, `LeaveAsPlanned`,
`Rewrite`. `Rewrite` follows its unit of work: `plan` are the objects the database
session holds in its identity map, `table` what was stored, and `Reselected` what the
re-verifying SELECT returns: which rows there are, in the stored order, but for
known rows the objects in memory.

### Startup

The API process (`exited`, `waiting`, `creating`, `serving`), the database that
stops and recovers, the schema, the pool and the requests. A connection is the
incarnation of the database it was opened to. `Attempt` and `GiveUp` are
`wait_for_database`, `CreateAll` is the rest of `init_db`, `Start` the supervisor of
`docker-compose.yml`. `Checkout` pings (`pool_pre_ping`).

## 3. What the runs check

Instances of `MCIngest`:

| run | instance | checks | states |
|---|---|---|---|
| `race` | two workers, one package of three bytes with the right or a wrong digest, all its ten pieces, two conflicting chunks, compactions to 1, 2 and 9 bytes, all readers | the inductive invariant `PromiseInv`; `CheckpointMatchesArchive`, `VerdictIsTrue`, `LockedSnapshotFresh`, `NoUniqueViolation`, `AckIsDurable`, `RetryIsHonoured`, `ReadersSeeWholeLayouts`, `DownloadIsExact`, `TrailKnowsTheSeal`; `ConfirmedBytesImmutable`, `TerminalIsFinal` | 1 000 122 |
| `protocol` | one worker, a new and a legacy session, 0- and 3-byte packages, every kind of malformed request, up to three audit rows | `TypeOK`, `AuditTrailOrdered`, `AuditTrailExplainsLayout`; `PackageSpec` | 144 000 |
| `empty_resend`, `late_ack` | the smallest instance of each | one statement of the documentation each, which the code does not keep (section 6) | |

Of the modules around them:

| run | instance | checks | states |
|---|---|---|---|
| `stream_walk` | every two packages of at most three bytes, each cut in every way | `CursorsInStep`, `AnswerIsFirstDifference`, `WalkEnds` | 4 844 |
| `compare` | one comparer, one worker; a session of 0, 1 or 2 bytes that is being uploaded, a sealed one that is compacted; all four pairs, two records | `ComparisonsAreTrue`, `NoFalseAlarm` | 760 159 |
| `device` | a package of three bytes, right or wrong digest, pieces of 1 to 3 bytes, two workers, compactions, two faults | `BeliefIsStored`, `NeverAccused`, `UploadEnds`, `EveryRequestAnswered`, `PackageSpec`, under `FairDeviceSpec` | 70 618 |
| `resources` | two writers of one session, two comparisons of it with another in opposite order, a reader; three threads, two connections | `TypeOK`, `WaitersHoldNothing`, `OnlyCheckoutsStandStill`, `NobodyWaitsForEver`, under `FairSpec` | 82 983 |
| `archive` | packages of 0 and 3 bytes in every layout, boundaries 0 to 4 and the three odd ones, targets 1, 2 and 4, two rows damaged at rest and one fault of a rewrite | `AnswersTheHeader`, `ReleasesSealedBytes`, `CommitsThePlannedRows`; `FinalizeAgrees`, `ArchivedBytesAgree`, `CompactionAgrees` | 407 079 |
| `startup` | three requests, three attempts before the deadline, three outages, two crashes | `TypeOK`, `ServesWithSchema`, `FailsOnlyInOutage`, `ComesToServe` | 108 805 |
| `writeback_bytes`, `long_digits` | as `archive`, without damage at rest | one statement of a comment, and of a docstring (section 6) | |

What they show:

* **The archive.** `CheckpointMatchesArchive` and `VerdictIsTrue` relate the session
  row to the chunk rows after every commit, error and restart.
  `ConfirmedBytesImmutable` and `TerminalIsFinal` say what no step may do.
  `PackageSpec` says the same as a refinement, checked for two sessions, one of them
  legacy, in `protocol`, and under concurrency, faults and restarts in `device`.
* **Concurrency.** `LockedSnapshotFresh`: from the lock to the decision and, for a
  refusal, to the reply, the loaded row is the committed one, so the
  `expected_offset` in a 409 is current when it leaves. `NoUniqueViolation`: a
  flushed row never collides with a committed one.
* **The client's view.** `AckIsDurable` speaks of the answer *after* the unlocked
  refresh: the chunk is archived, and the completing upload never reports
  success on a package that is not sealed. `RetryIsHonoured`: a non-empty chunk
  is refused only if its bytes differ from the archived ones, at any later time.
* **Readers.** `ReadersSeeWholeLayouts` and `DownloadIsExact` with a compaction
  between the two statements; `TrailKnowsTheSeal` for the audit reader.
* **The trail.** `AuditTrailOrdered` and `AuditTrailExplainsLayout`: the last
  compaction in the trail describes the stored rows, and each starts from the
  count the previous one left.
* **The loops.** Each loop computes what its definition in `ChunkLayout` says:
  finalization on gapless, gapped, overlapping and overlong tables, the copy of a
  range across rows and gaps, the cut of a compaction.
* **Liveness.** `EveryRequestAnswered` (of `Ingest`, in `device`): no path keeps the
  row lock.
* **Comparisons.** `ComparisonsAreTrue` checks every stored record, in every later
  state, against the bytes that are archived then: conclusion, offset and
  snapshot. `NoFalseAlarm`: a compaction between the reads of a comparison is
  never taken for damage.
* **The device.** `BeliefIsStored`: no answer it has heard is ever taken back.
  `NeverAccused`: none of its repetitions, however late, is told that it
  conflicts with the archive. `UploadEnds`: with finitely many faults the upload
  finishes, with the verdict the digest deserves, and the device knows.
* **Ranges.** Code and bytes of every answer against a definition of the range as
  a set of offsets, for every header whose boundaries `int()` converts (the others are
  the finding of `long_digits`); a damaged archive releases nothing, also when the damage is
  outside the range, and a compaction does not launder it.
* **The unit of work of a compaction.** A lost or an alien row is noticed before the
  COMMIT, so that after any rewrite every offset still has one byte
  (`CommitsThePlannedRows`), and a faithful rewrite is never refused. What the rows
  *hold* may be wrong: an altered row is not noticed (section 6), but by the next read.
* **Resources.** Writers that wait for a row lock may take all threads and all
  connections but the holder's; two comparisons that lock the same rows in opposite
  order do not deadlock (shares do not conflict); whoever waits for the pool keeps only
  its thread (`WaitersHoldNothing`). One circle does close, and the run reaches it: all
  threads have handlers that wait for a connection, and all connections belong to
  requests that wait for a thread to validate their answers. `OnlyCheckoutsStandStill`
  says that requests stand still in no other way, and `NobodyWaitsForEver` that the
  timeout of a checkout, and nothing stronger, is enough to get every request answered,
  some with a 500. One thing is *not* granted: PostgreSQL lets `FOR KEY SHARE` pass a
  waiting `FOR UPDATE`, so an unbroken sequence of comparisons of one session
  starves its compaction; `NobodyWaitsForEver` has that as its hypothesis.
* **Start-up.** `FailsOnlyInOutage`: a connection that died in an earlier outage
  never costs a request its answer. `ComesToServe`: no outage, deadline or crash
  leaves the API down for good.

In the runs of `Ingest`, `Comparison`, `Resources`, `Archive` and `Startup` every
state has a successor, and deadlock is checked. The others end: the walk returns,
the device finishes.

## 4. Bounds and fairness

| bound | value | why it is enough |
|---|---|---|
| `Byte` | `{0, 1}` | the code only compares bytes for equality |
| package | 3 bytes (2 and 1 in the smaller runs) | a chunk can lie before, at, across and after the checkpoint, a read can cross a chunk boundary, a target of 2 does not divide it |
| pieces | every `[a, b)` of the package, `a = b` included | every cut and every retry with other boundaries |
| workers | 2 | the row lock is per session: any conflict is between a holder and one other; the waiters that compete are in `resources` |
| sessions | 1 in `race`, 2 elsewhere | rows of different sessions share nothing but the workers |
| `MaxAudit` | 1 to 3 | a compaction after the seal, and one after a compaction; bounds only when a compaction is *requested*, so racing ones go beyond |
| `MaxBigint` | 8 | a target of 9 overflows |
| `MaxChunkBytes` | 2 or 3 | with 2 a chunk can be too large by payload and by declared length |
| `Sha256` | injective, plus one digest of nothing | a wrong registered digest is `other`; with collisions no digest check could be meaningful to a client |
| `Comparers`, `MaxComparisons` | 1 and 2 | a record races one writer, and a second record follows a retry; two comparers share nothing but row locks, which are in `resources` |
| comparison, packages | at most 2 bytes | equal, prefix, different at once and later, empty |
| `MaxFaults` | 2 | a fault during the recovery from a fault |
| `Threads`, `Connections` | 3 and 2 of 5 requests | fewer connections than threads and fewer threads than requests, as in the service (15 and 40); two requests can keep all connections in `validate` while three wait in all threads, and two comparisons can hold a row each |
| `Boundaries` | 0 to 4 for 3 bytes | before, at and beyond the last byte and the end |
| `MaxDamages` | 2, and one fault of a rewrite | every check of the verified read is the only one that notices some damage, and two alterations can cancel out, leave a gap, overlap, or hide behind a compaction |
| `Attempts`, `MaxOutages`, `MaxCrashes` | 3, 3, 2 | an outage in each phase of a start, and a restart during the recovery |

The proofs need none of these bounds: they hold for every value of the constants
that satisfies the assumptions of its module.

**Fairness.**

* `FairDeviceSpec`: a device keeps trying (weak fairness of `Register`, strong of
  sending and asking: a free worker comes and goes), and an answer that is not
  lost arrives. In the service, weak fairness of each worker's steps, since a thread
  that can run does run and a statement that can finish does; strong fairness of
  `LockSession(w)`, since PostgreSQL queues the waiters of a row lock first come,
  first served, so a waiter is not passed over for ever although the lock is taken
  again and again. Nothing is assumed of the others who ask. Faults are
  bounded, as nothing can be promised to a device whose link fails for ever.
* `FairSpec` of `Resources`: strong fairness of each request's steps; the queues of
  the threadpool, of the pool and of a row lock are first come, first served. Weak
  fairness of some `CheckoutTimeout`: while no connection comes back, one of the waiters
  is refused after `pool_timeout` (30 s, SQLAlchemy's default). Without it the property
  fails, in the standstill above.
* `FairSpec` of `Startup`: the supervisor restarts (`unless-stopped`), process and
  threads run. None of the database: `ComesToServe` is conditional on it.
* `FairSpec` of `StreamWalk`: sequential code runs on.

The other runs are safety runs and use the specification without fairness.

## 5. What is proved

Eight modules `*_proofs.tla`, checked by TLAPS for all values of the constants that
satisfy the assumptions named in the modules:

* `ChunkLayout`, `Ingest`: the lengths are naturals, `Sha256` maps byte strings to
  `Digests` (collisions are allowed), registrations and requests are well typed, as
  the schema makes them, and `None` is not one of the values it is told apart from.
  Sessions and workers are any sets, of any size;
* `Comparison`: pairs are pairs of sessions. What a record concludes is
  proved of the bytes, not of their digests;
* `FieldDevice`: the package has at least one byte and the registered length is its
  length, pieces have between 1 and `MAX_CHUNK_BYTES` bytes, and nobody else
  uploads to the session. The registered digest may be wrong;
* `Resources`: threads and connections are positive, requests are finitely many;
* `Archive`: packages are byte strings of any length up to `MaxBytes`, targets are
  positive, the boundaries of a header are naturals or one of three other values.
  Storage may alter any number of rows at rest. Only `DownloadsAreSealedBytes` needs
  more, as a hypothesis of its own: no other byte string has the digest of a sealed
  package (`NoSecondPreimage`). Without it the theorem is false, of the code too: a
  download is checked against the digest and nothing else.

| theorem | statement |
|---|---|
| `RechunkedKeepsBytes` (`ChunkLayout`) | the layout a compaction writes tiles the package, holds its bytes, and respects the target, for every content and target |
| `Invariance` (`Ingest`) | `Spec => []Inv` |
| `TypeCorrectness` | `Spec => []TypeOK` |
| `CheckpointCorrect` | `Spec => []CheckpointMatchesArchive` |
| `VerdictCorrect` | `Spec => []VerdictIsTrue` |
| `NoLostUpdate` | `Spec => []LockedSnapshotFresh` |
| `UniqueConstraintsHold` | `Spec => []NoUniqueViolation` |
| `BytesNeverChange` | `Spec => ConfirmedBytesImmutable` |
| `PromisesKept` (`Ingest`) | `Spec => []PromiseInv` |
| `AcknowledgedChunksStay` | `Spec => []AckIsDurable` |
| `RetriesAreHonoured` | `Spec => []RetryIsHonoured` |
| `WholeLayoutsAreRead` | `Spec => []ReadersSeeWholeLayouts` |
| `DownloadsAreExact` | `Spec => []DownloadIsExact` |
| `SealsAreAudited` | `Spec => []TrailKnowsTheSeal` |
| `TrailsAreOrdered` | `Spec => []AuditTrailOrdered` |
| `TrailsExplainLayouts` | `Spec => []AuditTrailExplainsLayout` |
| `TerminalSessionsStay` | `Spec => TerminalIsFinal` |
| `PackageRefined` | `Spec => PackageSpec`: `Ingest` implements `Package` |
| `CompareInvariance` (`Comparison`) | `CompareSpec => []CompareInv` |
| `RecordsAreTrue` | `CompareSpec => []ComparisonsAreTrue` |
| `VerificationNeverFails` | `CompareSpec => []NoFalseAlarm` |
| `DeviceInvariance` (`FieldDevice`) | `DeviceSpec => []DeviceInv` |
| `BeliefsAreStored` | `DeviceSpec => []BeliefIsStored` |
| `HonestDeviceIsNeverAccused` | `DeviceSpec => []NeverAccused` |
| `DeviceUsesService` | `DeviceSpec => Spec`: what is proved of the service holds with a device, too |
| `DevicePackageRefined` | `DeviceSpec => PackageSpec` |
| `WalkInStep` (`StreamWalk`) | `Spec => []CursorsInStep` |
| `WalkFindsFirstDifference` | `Spec => []AnswerIsFirstDifference` |
| `PoolIsBounded` (`Resources`) | `Spec => []TypeOK` |
| `WaitsKeepNoRow` | `Spec => []WaitersHoldNothing` |
| `LockOwnersAreConnected` | `Spec => []LockHoldersAreConnected` |
| `StandstillsTimeOut` | `Spec => []OnlyCheckoutsStandStill`: requests stand still only where threads and connections wait for each other, with no row locked, and a timeout ends it |
| `ArchiveInvHolds` (`Archive`) | `Spec => []ArchiveInv` |
| `DownloadsAreSealedBytes` | `Spec => []ReleasesSealedBytes` |
| `RequestsAnswered` | `Spec => []AnswersTheHeader` |
| `CompactionsCommitThePlan` | `Spec => []CommitsThePlannedRows` |
| `FinalizationsAgree` | `Spec => []FinalizeAgrees` |
| `ReplaysCompareArchivedBytes` | `Spec => []ArchivedBytesAgree` |
| `CompactionsRechunk` | `Spec => []CompactionAgrees` |
| `FinalizeComputesDigest` (`LayoutLoops`) | `FinalizeLoop` is `ComputedDigest`, on every table of rows of the declared lengths |
| `ArchivedLoopCopies` | `ArchivedLoop` is `ArchivedBytes`, on every set of intact, disjoint rows |
| `ReadLoopVerifies` | `ReadLoop` gives the bytes asked for if `ArchiveVerifies`, and nothing otherwise, on every table |
| `CutLoopWritesThePlan` | `CutLoop` is `Rechunked`, in order, for every buffer and target |
| `RequestedSpanIsRight` (`ByteRange`) | a request has a span, inside the package and of the offsets asked for, exactly if it deserves bytes and `int()` reads its boundaries |
| `SchemaFirst` (`Startup`) | `Spec => []ServesWithSchema` |
| `NoStaleConnection` | `Spec => []FailsOnlyInOutage` |
| `ConnectionsAreOfThePast` | `Spec => []TypeOK` |

**The tables of `Ingest`** (`Ingest_proofs`). Their properties are not inductive: a
COMMIT copies what a worker flushed earlier, of which they say nothing. `Inv`
(module `IngestInvariant`) adds

* who holds what: a worker in `handle` or `commit` owns the row lock of its
  session (`Owns`), and a lock belongs to such a worker or to one about to reply
  (`LockOwned`);
* what it knows: the row it loaded is the committed one as long as it owns the
  lock (`LoadedIsFresh`);
* what its COMMIT will leave: sound tables of the same package (`CommitIsSound`).

A step of one worker keeps the facts about another because both own the lock only
if their sessions differ; that is the heart of the proof, one lemma per action in
`Ingest_proofs`. The flush actions establish `CommitIsSound` from three lemmas
about layouts: appending at the checkpoint keeps `Tiles` and the bytes below it,
the cursor walk succeeds exactly on rows that tile, and compaction keeps the
bytes. The last needs division of offsets by the target: an offset `o` lies in the
span that starts at the greatest multiple of the target not above it.

The verdict proof uses that finalization recomputes the digest from rows that
are *flushed but not committed*, and that the commit stores exactly those.

**The answers of `Ingest`** (`Ingest_proofs`). An answer is put together over
several steps, some without the lock (the refresh of an upload, the second
statement of a reader), and `Inv` says nothing of workers that hold no lock.
`PromiseInv` (module `PromiseInvariant`) is `Inv` and, for each place in the
handler, what is certain there in terms that no step of another takes back:

* a row that was loaded is an `EarlierRow`: same length and digest, a checkpoint
  not beyond the present one, and the present row itself if it was terminal;
* an upload that has committed `Holds`: its payload is archived below the checkpoint,
  and stays there while its answer is under way;
* a refused upload still owns the lock, so the archive that differs from its
  payload is the archive of the moment;
* what a reader has fetched tiles the package up to a checkpoint that is at least
  the one in its row, and exactly the package if that row was sealed;
* a pending audit row continues the trail and, with the rows it describes, keeps
  `LayoutExplained`.

The proof has two halves. `OthersKeepPromises`: what a worker relies on survives
every step of another, because of `StepIsFinal` (a terminal row, and the bytes below
any checkpoint, stay) and the lock. One lemma per action then shows what the acting
worker comes to rely on. That bytes below a checkpoint are compared as slices
(`ArchivedBytes`) needs the lemmas `Slices` and `Layouts` of `ChunkLayout_proofs`.
TLC checks `PromiseInv`, and with it `Inv`, in the run `race`.

**The refinement.** `PackageRefined` has the shape of a forward simulation under the
mapping `StoredPackages`. The abstract status of a package that is complete is
computed from its bytes (`Judged`), so the proof shows that the concrete status is that
one (`RowIsJudged`, from `VerdictIsTrue`). Registering is the abstract `Register`
(`RegistersPackage`); any other step lets each package stay or grow at its end, and
only one of them may change (`ExtendsOrStutters`), which makes it `Extend` or a
stutter. `DevicePackageRefined` needs nothing more: every step of the device's
composition is a step of `Ingest` or leaves it alone (`DeviceUsesService`).

**Comparisons.** A comparison reads four times without a lock. What it
knows stays true for another reason: it goes on only with sealed sessions, whose
row no step changes (`TerminalIsFinal`), and whose bytes no compaction changes
(`ConfirmedBytesImmutable`). `CompareInv` says so for each place in the handler
(`ComparerKnows`). As each verified read is of rows that tile, it cannot fail, and a
record, made from the bytes read at two moments, is true of the bytes of any
later moment. `ConclusionIsTrue` is the lemma that connects the comparison of two byte
strings (`CommonPrefix`, `FirstDifference`) with what a record says.

**The device.** The worker that answers the device competes with all the requests it
has given up and that still run. `DeviceInv` (module `DeviceInvariant`) says of *all*
workers that they carry slices of the one package (`CarriesPieces`), so the archive is
always a prefix of it (`UploadKnown`), and whatever the verdict on such a piece is, it is
not a conflict (`PieceVerdict`). Of the one worker the device waits for it says that the
row in its answer is an `EarlierRow` (`ServesDevice`). `HasMore` (a device that goes on has
bytes to send) is needed because a device that knew the end of the package but
not the verdict would send an empty piece, which a sealed session refuses.

`CompareInv` and `DeviceInv` contain the properties of the runs `compare` and
`device` and are not listed there a second time. TLC finds them invariant on
exactly the instances of these runs: let `MCComparison` extend `ComparisonInvariant`,
`MCFieldDevice` extend `DeviceInvariant`, and add `INVARIANT CompareInv` or
`INVARIANT DeviceInv` to the configuration.

**The walk.** The invariant adds to `CursorsInStep` that everything below `offset`
is equal in both packages. The bytes of a package are defined by offsets, those of
a block by its place in the stream, so the proof first shows that a block's bytes
are the package's at its offsets (`ByteAt` finds the block). That needs an
induction over the blocks, which is done with the least block for which it fails
(the natural numbers are well ordered): no induction rule with an operator
parameter is used.

**Resources.** The invariant says for each place in the handler what the request
has; the pool's bound then is a statement about the cardinality of `holds` only. That
who waits in `validate` owns no row needs `OwnersHaveLocked` (who owns a row has counted
it) together with the count: a reader has no rows to count, a writer's are given back by
its COMMIT.
`OnlyCheckoutsStandStill` is the safety half of `NobodyWaitsForEver`. Nobody stands still
for a row: its owner runs, or is a comparison that waits for a second row, whose owner
runs (a writer locks one row only, and a comparison waits for no share of another, so
opposite orders close no circle). So where nobody can go on, no request is in `lock`,
`work` or `returned`; then a connection belongs to a request in `validate`, a thread to
one in front of the pool, and rows to nobody. `CanStep` names the guards of a request's
actions but `CheckoutTimeout` and `Refuse` (which waits for nothing). That it agrees with
`ENABLED`, which the provers do not reason about, and that `CheckoutTimeout` is enabled
for every handler in a standstill, was compared with TLC on the instance of `resources`.

**Start-up.** A request that has a connection to an older incarnation has seen an
outage (`outage[r]`), and a pool holds no connection while the process is down;
with the ping the rest follows. `ConnectionsAreOfThePast` is more than types: no
connection is of an incarnation of the database that is still to come.

**The loops** (`Archive_proofs`). The loops of `LayoutLoops` are folds (`CutLoop`
is a recursive function), `FoldLeft` is a `CHOOSE` of a function on sets of
indices, and the library's theorems about both take
operators as parameters, which none of the provers can instantiate. So the proof
starts at the bottom: the function exists (`FoldExists`) and hence the fold satisfies
its own recursion, by induction in the form that a set of naturals with 0 and all
successors below `n` has everything up to `n` (`CountingUp`). The loop's body becomes a
function of index and accumulator. `OrderedByStart` lists a table of finitely many rows
with distinct starts in exactly one way. Each loop then has an invariant over the rows
passed: `FinalizeLoop` and `ReadLoop` have seen rows that join at the cursor, and what
they hashed is the content of those; `ArchivedLoop` has copied the bytes up to its
cursor; `CutLoop` has written the spans that start at multiples of the target below its
offset. A loop that is left early keeps what made it leave, which is the converse: what
the definition refuses, the loop refuses.

**The archive** (`Archive_proofs`). `ArchiveInv` (module `ArchiveInvariant`) is

* `RowsAreATable`: whatever storage did, at most one row per start, none that ends
  before its start. This is what the theorems about the loops need, and all;
* `RowsHoldThePackage`: without damage at rest the rows have one byte for every offset,
  and without an altered rewrite they tile the package and hold its bytes. The two
  parts are needed together: the first is all that a compaction's re-verification can
  promise of altered rows, the second is what the next compaction starts from;
* `ReaderHasItsSpan`: the span of the download in progress is that of its headers,
  although rows change between its two statements;
* `RefusesTheDamaged`, `AnswersTheHeader`: the answers. They speak of damage that may
  come *later* too, and are kept by a step that changes nothing but the rows.

The step that matters is `Rewrite`. What the re-verification walks is a mixture of the
objects in memory and of what is stored, in the stored order: an altered row has its
old object and starts where it started, so the walk passes and extents are as
planned; a lost row leaves a step or an early end; an alien row stands where no planned
row starts, so the walk meets it, or a planned row behind it, at a wrong offset.

`DownloadsAreSealedBytes` is not part of the invariant: it follows in the state of
the reply, from `ReadLoopVerifies` and the hypothesis on the digest, whatever storage
did before. The lemmas on `ParseRange` (`RequestedSpanIsRight`) connect the span with the
offsets of `Asked`.

TLC finds `ArchiveInv` invariant on the instance of `archive` when `INVARIANT ArchiveInv`
is added to its configuration.

**Only model-checked.** Everything under fairness: `EveryRequestAnswered` (of `Ingest`),
`NobodyWaitsForEver` (of `Resources`), `WalkEnds`, `UploadEnds`, `ComesToServe`. Liveness and `ENABLED` are
out of the prover's reach. Every other property of a run that passes is proved.

## 6. Where the documentation and the code differ

Each of these is a run whose counterexample is the finding.

* `empty_resend`: `README.md:100` promises that after sealing a resend of
  identical bytes still succeeds. `_terminal_replay` (service.py:180) asks for
  `start < end`, so a 0-byte chunk that was acknowledged while the session was
  active gets 409 once it is sealed.
* `writeback_bytes`: service.py:788 announces a re-verification of the freshly
  persisted layout. The SELECT returns the objects the session has just
  inserted, so the bytes are compared with themselves.
* `long_digits`: `README.md:119` and the docstring of `_parse_single_range`
  (main.py:300-301) promise 416 for any range outside the package, and for any range on a
  zero-byte package. `int()` raises ValueError on more than 4300 digits, which pass the
  check that is there to keep `int()` from "an unhandled ValueError" (main.py:327-329):
  the answer is a 500. The same happens to `bytes=0-` with such an end, which should be
  clipped, and to such a suffix of a package with bytes. `TooLong` is a number here;
  digits that are mostly leading zeros fail in the same way.
* `late_ack`: `README.md:88` documents the status of a successful upload as active
  or sealed. The row is refreshed after the lock is gone (service.py:449): an
  accepted chunk can be acknowledged with status failed.

Noticed on the way, without a run:

* `README.md:98-99` says that any resumption of a failed session gets 409
  `session_failed_terminal`. The end of the package is checked first (service.py:396), so
  the natural resumption, a new chunk at the expected offset, gets 416
  `chunk_beyond_total`;
* `errors.py:3` says that every failure has an `error.code`. A negative `limit` passes
  `min(limit, 1000)` (main.py:139), PostgreSQL refuses it, and the client gets a
  plain 500;
* all threads and all connections may wait for each other until a checkout times out
  (`OnlyCheckoutsStandStill`): no document says otherwise, but clients get a 500 after
  30 s then;
* the docstring of `_chunk_payload` (main.py:207-208) says that it aborts beyond the
  declared length. It aborts beyond the ceiling only, as a comment in its loop says.

## 7. What is not modelled, and what is left

Not modelled:

* schemas, error bodies and configuration: parsing and formatting. The error
  *codes* are in `Ingest!Codes` and in the actions of `Comparison`, the limit
  `MAX_CHUNK_BYTES` in `Ingest`;
* `list_sessions`: one read-only statement with a filter, an order, a limit and an
  offset; the code promises nothing about a walk through pages;
* the blocks of an upload's body: receiving a body is one step, and a body that
  breaks off reaches no handler (`RequestLost`);
* the texts of messages and the details of error bodies beyond the offsets a
  device acts upon; timestamps; ids;
* the fixtures and scripts of the tests;
* `get_comparison`: it reads one row that no action changes;
* cancellation of a request by the server (a handler in a thread runs to its end).

External, modelled as the code uses it: PostgreSQL (row locks, COMMIT, rollback,
per-statement snapshots), the pool and the identity map of SQLAlchemy, FastAPI's
threadpool, Docker's restart policy.

What each module leaves out is modelled in another: the rows that a compaction
reads back are, in `Ingest`, the rows it flushed, and in `Archive` not; storage is
faithful in `Ingest` and not in `Archive`; every worker has a connection in
`Ingest` and not in `Resources`. A failed write of an audit row has a code of its own
(`audit_write_failed`) in a compaction; where it fails a sealing upload, `Ingest` answers
with its one `server_error`.

The safety properties of all runs are proved. What is left to TLC is liveness, for
which `OnlyCheckoutsStandStill`, the safety property that of `Resources` rests on, is
proved.
