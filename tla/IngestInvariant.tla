--------------------------- MODULE IngestInvariant ---------------------------
(***************************************************************************)
(* The inductive invariant of Ingest.                                      *)
(*                                                                         *)
(* The safety invariants of Ingest are not inductive by themselves: they   *)
(* say nothing of a transaction between its flush and its COMMIT.  The     *)
(* strengthening says which worker owns a row lock and what it then knows, *)
(* and that the tables a COMMIT is about to leave behind are sound.        *)
(***************************************************************************)
EXTENDS Ingest

\* The tables of the session of worker w, as the COMMIT of w will leave them.
RowAfter(w) ==
  IF worker[w].req.kind = "put" THEN worker[w].loaded ELSE upload_sessions[Target(w)]

ChunksAfter(w) ==
  (chunks[Target(w)] \ worker[w].pending.deleted) \cup worker[w].pending.inserted

\* The trail is numbered from 1 without gaps.
Numbered(A) == IsFiniteSet(A) /\ {e.sequence : e \in A} = 1..Cardinality(A)

\* One package stays the same package: its identity, and the bytes it had.
SamePackage(row, C, newRow, newC) ==
  /\ newRow.total_bytes = row.total_bytes
  /\ newRow.whole_sha256 = row.whole_sha256
  /\ newRow.confirmed_offset >= row.confirmed_offset
  /\ Whole(newC, row.confirmed_offset) = Whole(C, row.confirmed_offset)

\* What the program counter of a worker says about its request.
RequestKnown(w) ==
  LET pc == worker[w].pc
  IN  /\ pc # "idle" => worker[w].req # None
      /\ pc \in {"handle", "commit", "refresh"} =>
           /\ IsWriter(w)
           /\ Registered(Target(w))
      /\ pc = "refresh" => worker[w].req.kind = "put"
      /\ pc = "handle" /\ worker[w].req.kind = "compact" =>
           worker[w].req.target_chunk_bytes > 0
      /\ pc = "select" => RequestError(worker[w].req) = None

\* A lock belongs to a worker that is at work, or about to reply, on its session.
LockOwned(w) ==
  \A s \in Sessions : lock[s] = w =>
    /\ worker[w].pc \in {"handle", "commit", "done"}
    /\ Target(w) = s
    /\ Registered(s)

\* Between the granted lock and the commit the worker owns its session.
Owns(w) == worker[w].pc \in {"handle", "commit"} => lock[Target(w)] = w

Fresh(w) ==
  \/ worker[w].pc = "handle"
  \/ worker[w].pc = "done" /\ worker[w].code # "server_error"
                           /\ \E s \in Sessions : lock[s] = w

LoadedIsFresh(w) == Fresh(w) => worker[w].loaded = upload_sessions[Target(w)]

\* The commit of worker w leaves a sound archive of the same package.
CommitIsSound(w) ==
  worker[w].pc = "commit" =>
    LET s == Target(w)
    IN  /\ worker[w].pending # None
        /\ RowAfter(w) \in UploadSession
        /\ FlushIsUnique(w)
        /\ ArchiveAgrees(RowAfter(w), ChunksAfter(w))
        /\ VerdictAgrees(RowAfter(w), ChunksAfter(w))
        /\ SamePackage(upload_sessions[s], chunks[s], RowAfter(w), ChunksAfter(w))
        /\ Numbered(audit_events[s] \cup worker[w].pending.audit)

WorkerInv(w) ==
  /\ RequestKnown(w)
  /\ LockOwned(w)
  /\ Owns(w)
  /\ LoadedIsFresh(w)
  /\ CommitIsSound(w)

\* Everything the induction needs: the type invariant, the safety invariants of
\* the tables, and what each worker may rely on (see the definitions above).
Inv ==
  /\ TypeOK
  /\ CheckpointMatchesArchive
  /\ VerdictIsTrue
  /\ \A s \in Sessions : Numbered(audit_events[s])
  /\ \A w \in Workers : WorkerInv(w)
==============================================================================
