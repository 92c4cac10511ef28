-------------------------------- MODULE Archive --------------------------------
(***************************************************************************)
(* A sealed package and what happens to its rows: range requests           *)
(* (download_content of app/main.py, verified_sealed_bytes of              *)
(* app/service.py), compactions (compact_sealed) and storage that alters   *)
(* rows at rest or does not store what it was given.                       *)
(*                                                                         *)
(* A compaction is one transaction under the lock of the session row: one  *)
(* step here, after which all or none of its rows are there.  Its database *)
(* session keeps one object per row in its identity map: the SELECT that   *)
(* re-verifies finds which rows there are, and in which order, but does    *)
(* not load the attributes of a row whose object the session holds.        *)
(***************************************************************************)
EXTENDS LayoutLoops, ByteRange

CONSTANTS Packages,    \* contents of the sealed package
          Targets,     \* target sizes of compactions
          MaxDamages   \* rows that storage alters at rest

ASSUME ArchiveAssumption ==
  /\ Packages \subseteq Blobs /\ Targets \subseteq Nat \ {0}
  /\ MaxDamages \in Nat

VARIABLES package,    \* the bytes that were sealed, never changed
          chunks,     \* the rows that hold them now
          damages,    \* how many rows storage altered at rest
          misstored,  \* whether storage altered a rewrite
          reader,     \* the download in progress, or None
          reply       \* the answer that was just given, or None

vars == <<package, chunks, damages, misstored, reader, reply>>

Total == Len(package)
Digest == Sha256(package)

\* The rows of an upload whose chunks started at the given offsets.
Uploaded(x, starts) ==
  {RowOf(a, SubSeq(x, a + 1, Min({b \in starts \cup {Len(x)} : b > a}))) : a \in starts}

Init ==
  /\ package \in Packages
  /\ \E starts \in SUBSET (0..(Total - 1)) :
       /\ package # <<>> => 0 \in starts
       /\ chunks = Uploaded(package, starts)
  /\ damages = 0 /\ misstored = FALSE /\ reader = None /\ reply = None

-------------------------------------------------------------------------------
(***************************************************************************)
(* download_content: the session row and the header first, then the rows.  *)
(***************************************************************************)
RequestedSpan(headers) ==
  IF Len(headers) > 1 THEN Refused("invalid_range")
  ELSE IF headers = <<>> THEN Span(0, Total)
  ELSE ParseRange(headers[1], Total)

Reply(headers, code, span, body) ==
  [kind |-> "content", headers |-> headers, code |-> code,
   begin |-> span.begin, end |-> span.end, body |-> body]

Get(headers) ==
  /\ reader = None
  /\ LET span == RequestedSpan(headers)
     IN  IF span.code # None
         THEN reply' = Reply(headers, span.code, span, <<>>) /\ UNCHANGED reader
         ELSE reader' = [headers |-> headers, span |-> span] /\ reply' = None
  /\ UNCHANGED <<package, chunks, damages, misstored>>

Fetch ==
  /\ reader # None
  /\ LET span == reader.span
         body == ReadLoop(chunks, Total, Digest, span.begin, span.end)
     IN  reply' = IF body = None
                  THEN Reply(reader.headers, "sealed_integrity_error", span, <<>>)
                  ELSE Reply(reader.headers,
                             IF reader.headers = <<>> THEN "ok" ELSE "partial_content",
                             span, body)
  /\ reader' = None
  /\ UNCHANGED <<package, chunks, damages, misstored>>

-------------------------------------------------------------------------------
(***************************************************************************)
(* compact_sealed.  It refuses rows whose bytes are not the sealed ones,   *)
(* without a look at their digests, and leaves rows alone that are as      *)
(* planned already.                                                        *)
(***************************************************************************)
Gathered(walk) ==
  /\ ~walk.broken
  /\ walk.cursor = Total /\ Len(walk.hashed) = Total
  /\ Sha256(walk.hashed) = Digest

LayoutOf(rows) ==
  [i \in DOMAIN rows |-> <<rows[i].start_offset, rows[i].end_offset, rows[i].sha256>>]

\* The byte strings that differ from d in one byte.
Flips(d) == {[d EXCEPT ![i] = b] : i \in DOMAIN d, b \in Byte} \ {d}

\* A row of a plan with a byte, a byte and its digest, or its end altered.
Altered(c) ==
  {[c EXCEPT !.data = d] : d \in Flips(c.data)}
    \cup {RowOf(c.start_offset, d) : d \in Flips(c.data)}
    \cup {[c EXCEPT !.end_offset = @ + 1]}

\* Rows of one byte where no row of a plan starts.
Aliens(plan) ==
  {RowOf(o, <<b>>) : o \in (0..Total) \ {plan[k].start_offset : k \in DOMAIN plan}, b \in Byte}

\* What storage makes of the rows of a plan, by at most one fault: a row altered, a
\* row lost, an alien row (no. 0, which uq_chunk_session_offset keeps from the offset
\* of another).
Stored(plan) ==
  (UNION {{[plan EXCEPT ![k] = row] : row \in Altered(plan[k])} : k \in DOMAIN plan})
    \cup {[j \in (DOMAIN plan) \ {k} |-> plan[j]] : k \in DOMAIN plan}
    \cup {[j \in {0} \cup DOMAIN plan |-> IF j = 0 THEN alien ELSE plan[j]] :
            alien \in Aliens(plan)}

\* select(Chunk) after the flush: in the order of the stored offsets, the object
\* of a row the session has inserted, the row itself if it is an alien.
Reselected(table, plan) ==
  LET before(k) == {j \in DOMAIN table : table[j].start_offset < table[k].start_offset}
      nth(i)    == CHOOSE k \in DOMAIN table : Cardinality(before(k)) = i - 1
  IN  [i \in 1..Cardinality(DOMAIN table) |->
         IF nth(i) \in DOMAIN plan THEN plan[nth(i)] ELSE table[nth(i)]]

WithinTarget(row, target) == row.end_offset - row.start_offset <= target

\* The loop that walks the new rows.
WalkPasses(rows, target) ==
  \A i \in DOMAIN rows :
    /\ rows[i].start_offset = IF i = 1 THEN 0 ELSE rows[i - 1].end_offset
    /\ WithinTarget(rows[i], target)
    /\ Sha256(rows[i].data) = rows[i].sha256

\* The checks behind it.
TotalsPass_LengthUnchecked(rows) == rows # <<>>

TotalsPass(rows) ==
  /\ rows # <<>> /\ rows[Len(rows)].end_offset = Total
  /\ Sha256(FoldLeft(LAMBDA hashed, c : hashed \o c.data, <<>>, rows)) = Digest

CompactReply(code) == reply' = [kind |-> "compaction", code |-> code]

Refuse ==
  /\ ~Gathered(WalkRows(chunks))
  /\ CompactReply("compaction_integrity_error")
  /\ UNCHANGED <<package, chunks, damages, misstored, reader>>

Rewrite(target) ==
  LET plan == CutLoop(WalkRows(chunks).hashed, target)
  IN  /\ Gathered(WalkRows(chunks))
      /\ LayoutOf(OrderedByStart(chunks)) # LayoutOf(plan)
      /\ \E table \in {plan} \cup (IF misstored THEN {} ELSE Stored(plan)) :
           /\ misstored' = (misstored \/ table # plan)
           /\ LET rows == Reselected(table, plan)
              IN  IF WalkPasses(rows, target) /\ TotalsPass(rows)
                  THEN CompactReply("compacted") /\ chunks' = {table[k] : k \in DOMAIN table}
                  ELSE CompactReply("compaction_integrity_error") /\ UNCHANGED chunks
      /\ UNCHANGED <<package, damages, reader>>

LeaveAsPlanned(target) ==
  /\ Gathered(WalkRows(chunks))
  /\ LayoutOf(OrderedByStart(chunks)) = LayoutOf(CutLoop(WalkRows(chunks).hashed, target))
  /\ CompactReply("compacted")
  /\ UNCHANGED <<package, chunks, damages, misstored, reader>>

-------------------------------------------------------------------------------
\* Storage alters a byte, the digest, or both of one row, cuts a byte off,
\* stretches the row, loses it, or brings up an alien row.
Damages(c) ==
  LET free == (0..Total) \ {d.start_offset : d \in chunks}
  IN  {{[c EXCEPT !.data = d]} : d \in Flips(c.data)}
        \cup {{[c EXCEPT !.sha256 = Sha256(d)]} : d \in Flips(c.data)}
        \cup {{RowOf(c.start_offset, d)} : d \in Flips(c.data)}
        \cup (IF c.data = <<>> THEN {} ELSE {{[c EXCEPT !.data = Tail(@)]}})
        \cup {{[c EXCEPT !.end_offset = @ + 1]}, {}}
        \cup {{c, RowOf(o, <<b>>)} : o \in free, b \in Byte}

Damage ==
  /\ damages < MaxDamages /\ damages' = damages + 1
  /\ \E c \in chunks : \E rows \in Damages(c) : chunks' = (chunks \ {c}) \cup rows
  /\ reply' = None
  /\ UNCHANGED <<package, misstored, reader>>

Next ==
  \/ \E headers \in RangeHeaders : Get(headers)
  \/ Fetch \/ Damage
  \/ Refuse \/ \E target \in Targets : Rewrite(target) \/ LeaveAsPlanned(target)

Spec == Init /\ [][Next]_vars

-------------------------------------------------------------------------------
(***************************************************************************)
(* Reads.                                                                  *)
(***************************************************************************)
AskedOffsets(headers) ==
  IF headers = <<>> THEN 0..(Total - 1) ELSE Asked(headers[1], Total)

\* A request is answered as its header asks: 206 if the package has a byte it
\* names, 416 if it has none, 400 if it is not one well-formed range.  A package
\* that storage did not damage is never refused as damaged, whatever its layout,
\* compactions between the two statements of the read included.  Nothing is said
\* here of boundaries with more digits than int() converts: the code does not answer
\* them as they deserve, see OutsideIsUnsatisfiable.
AnswersTheHeader ==
  reply # None /\ reply.kind = "content" =>
    LET right == RightCode(reply.headers, Total)
    IN  IF reply.code = "sealed_integrity_error"
        THEN (damages > 0 \/ misstored) /\ right \in {"ok", "partial_content"}
        ELSE Legible(reply.headers) => reply.code = right

\* The docstring of _parse_single_range: "ranges outside the package [...] raise 416".
\* The code answers 500 if a boundary of such a range has more digits than int()
\* converts, although its check of the digits is there to keep int() from raising.
OutsideIsUnsatisfiable ==
  /\ reply # None /\ reply.kind = "content"
  /\ Len(reply.headers) = 1 /\ WellFormed(reply.headers[1]) /\ ~Reversed(reply.headers[1])
  /\ AskedOffsets(reply.headers) = {}
  => reply.code = "range_not_satisfiable"

\* The bytes that leave are exactly the sealed bytes at the offsets that were
\* asked for, whatever the layout; a damaged archive releases none, also when the
\* damage lies outside the range, was compacted, or was written by a compaction.
ReleasesSealedBytes ==
  reply # None /\ reply.kind = "content" /\ reply.code \in {"ok", "partial_content"} =>
    /\ AskedOffsets(reply.headers) = reply.begin..(reply.end - 1)
    /\ reply.body = SubSeq(package, reply.begin + 1, reply.end)
    /\ ArchiveVerifies(chunks, Total, Digest)

(***************************************************************************)
(* Compactions.                                                            *)
(***************************************************************************)
\* The offsets of the bytes that a row holds, whatever end it declares.
Extent(c) == c.start_offset..(c.start_offset + Len(c.data) - 1)

\* A rewrite that lost a row, or gained one that is not of its plan, never gets
\* past the re-verification: the archive has a byte for every offset, and only one.
\* And only such a rewrite is refused, or an archive that was altered at rest.
CommitsThePlannedRows ==
  damages = 0 =>
    /\ UNION {Extent(c) : c \in chunks} = 0..(Total - 1)
    /\ \A c, d \in chunks : c # d => Extent(c) \cap Extent(d) = {}
    /\ reply # None /\ reply.kind = "compaction" /\ ~misstored => reply.code = "compacted"

\* service.py: "Re-verify the freshly persisted layout before committing."  What
\* is verified are the objects that were inserted, not what was stored.
CommitsVerifiedBytes == damages = 0 => ArchiveVerifies(chunks, Total, Digest)

(***************************************************************************)
(* The loops, on every set of rows that storage can come to hold.  They    *)
(* are functions of the rows, so they are compared in the states where     *)
(* nothing else is going on.                                               *)
(***************************************************************************)
AtRest == reader = None /\ reply = None

Offsets == 0..MaxBytes

Disjoint(C) ==
  \A c, d \in C : c # d => c.end_offset <= d.start_offset \/ d.end_offset <= c.start_offset

\* The digest that finalization computes is that of ComputedDigest, on any rows
\* of the declared lengths: gaps, overlaps, a short or a long archive included.
FinalizeAgrees ==
  AtRest /\ (\A c \in chunks : Len(c.data) = c.end_offset - c.start_offset) =>
    \A total \in Offsets : FinalizeLoop(chunks, total) = ComputedDigest(chunks, total)

\* The replay rule compares a chunk with the bytes of ArchivedBytes, whatever
\* boundaries the range crosses and whatever rows are missing before, in or
\* after it.
ArchivedBytesAgree ==
  AtRest /\ Disjoint(chunks) /\ (\A c \in chunks : RowIntact(c)) =>
    \A begin, end \in Offsets :
      begin <= end => ArchivedLoop(chunks, begin, end) = ArchivedBytes(chunks, begin, end)

\* Compaction of an archive that verifies writes, in offset order, the rows of
\* Rechunked, for targets that divide the length, do not, or exceed it.
CompactionAgrees ==
  AtRest =>
    \A total \in Offsets :
      Tiles(chunks, total) =>
        \A target \in 1..(MaxBytes + 1) :
          LET buffer == Whole(chunks, total)
          IN  CutLoop(buffer, target) = OrderedByStart(Rechunked(buffer, total, target))
==============================================================================
