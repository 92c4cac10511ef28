--------------------------- MODULE PromiseInvariant ---------------------------
(***************************************************************************)
(* What the service has promised: the facts about answers, readers and the *)
(* audit trail that are inductive once Inv is known.                       *)
(*                                                                         *)
(* A client learns what its request did from a reply that is put together  *)
(* over several steps, some without the row lock.  For each place in the   *)
(* handler the invariant says what is already certain there, in terms that *)
(* no later commit, compaction or restart can take back.                   *)
(***************************************************************************)
EXTENDS IngestInvariant

\* The payload of a PUT is archived below the checkpoint of a session row.
Holds(row, C, r) ==
  /\ RequestError(r) = None
  /\ EndOf(r) <= row.confirmed_offset
  /\ ArchivedBytes(C, r.start_offset, EndOf(r)) = r.payload

\* `row` was the row of the session at some earlier time, and `now` is it now.
EarlierRow(row, now) ==
  /\ row \in UploadSession
  /\ now.total_bytes = row.total_bytes
  /\ now.whole_sha256 = row.whole_sha256
  /\ row.confirmed_offset <= now.confirmed_offset
  /\ row.status # "active" => now = row

\* The audit rows A of session s fit its row: a session sealed by this code has
\* its seal, numbered 1, and no other session has one.
TrailAgrees(row, A, s) ==
  /\ \A e \in A : e.event = "sealed" <=> (e.sequence = 1 /\ s \notin DOMAIN Legacy)
  /\ s \in DOMAIN Legacy => row.status = "sealed"
  /\ s \notin DOMAIN Legacy => (A # {} <=> row.status = "sealed")

TrailsAgree ==
  \A s \in Sessions : IF Registered(s)
                      THEN TrailAgrees(upload_sessions[s], audit_events[s], s)
                      ELSE s \notin DOMAIN Legacy /\ audit_events[s] = {}

-------------------------------------------------------------------------------
\* Only requests that passed the checks of the endpoint reach a handler, and
\* rows are fetched by the last statement of a reader.
Checked(w) ==
  /\ worker[w].pc = "handle" => RequestError(worker[w].req) = None
  /\ worker[w].pc # "done" => worker[w].fetched = None

\* What the commit of w will do to the promises made so far: a PUT only moves an
\* active session, a compaction only a sealed one, leaving an audit row that
\* explains the new layout.
CommitKeepsPromises(w) ==
  worker[w].pc = "commit" =>
    LET s == Target(w)
        r == worker[w].req
    IN  /\ r.kind = "put" => /\ upload_sessions[s].status = "active"
                             /\ Holds(RowAfter(w), ChunksAfter(w), r)
        /\ r.kind = "compact" => /\ upload_sessions[s].status = "sealed"
                                 /\ worker[w].pending.audit # {}
        /\ TrailAgrees(RowAfter(w), audit_events[s] \cup worker[w].pending.audit, s)
        /\ LayoutExplained(RowAfter(w), ChunksAfter(w),
                           audit_events[s] \cup worker[w].pending.audit)

\* Once committed, the chunk stays archived while its PUT refreshes the row, and
\* after it was acknowledged.
Acknowledges(w) ==
  LET s == Target(w)
      r == worker[w].req
  IN  /\ worker[w].pc = "refresh" => Holds(upload_sessions[s], chunks[s], r)
      /\ worker[w].pc = "done" /\ worker[w].code \in {"ok", "replayed"} /\ r.kind = "put" =>
           /\ Registered(s)
           /\ EarlierRow(worker[w].loaded, upload_sessions[s])
           /\ Holds(worker[w].loaded, chunks[s], r)
           /\ worker[w].code = "ok" /\ EndOf(r) = worker[w].loaded.total_bytes
                => worker[w].loaded.status = "sealed"

\* A refused PUT keeps the row lock until its session is closed, so the archive
\* it was compared with is still the archive.
Refuses(w) ==
  worker[w].pc = "done" /\ worker[w].code \in ProtocolConflicts =>
    LET r == worker[w].req
    IN  /\ lock[Target(w)] = w
        /\ r.length > 0 =>
             ArchivedBytes(chunks[Target(w)], r.start_offset, EndOf(r)) # r.payload

\* Between the two statements of a reader, the row it has read is an earlier
\* one, and the last one if it was sealed or failed.
HasRead(w) ==
  worker[w].pc = "rows" =>
    /\ Registered(Target(w))
    /\ EarlierRow(worker[w].loaded, upload_sessions[Target(w)])
    /\ worker[w].req.kind = "content" => worker[w].loaded.status = "sealed"

\* What a reader answers with is a whole layout, an exact copy, a known seal.
Answers(w) ==
  worker[w].pc = "done" /\ worker[w].fetched # None =>
    LET row  == worker[w].loaded
        kind == worker[w].req.kind
        C    == worker[w].fetched
    IN  /\ kind \in {"chunks", "content"} =>
             \E n \in row.confirmed_offset..row.total_bytes : Tiles(C, n)
        /\ kind = "content" => /\ worker[w].code = "ok"
                               /\ Sha256(Whole(C, row.total_bytes)) = row.whole_sha256
        /\ kind = "audit" /\ row.status = "sealed" /\ Target(w) \notin DOMAIN Legacy =>
             \E e \in C : e.event = "sealed" /\ e.sequence = 1

WorkerPromises(w) ==
  /\ Checked(w)
  /\ CommitKeepsPromises(w)
  /\ Acknowledges(w)
  /\ Refuses(w)
  /\ HasRead(w)
  /\ Answers(w)

Promises ==
  /\ TrailsAgree
  /\ AuditTrailExplainsLayout
  /\ \A w \in Workers : WorkerPromises(w)

\* The tables are sound, and every answer given or under way is true of them.
PromiseInv == Inv /\ Promises
==============================================================================
