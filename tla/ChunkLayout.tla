----------------------------- MODULE ChunkLayout -----------------------------
(***************************************************************************)
(* The rows of table `chunks` that belong to ONE upload session, and the   *)
(* computations app/service.py performs on them.                           *)
(*                                                                         *)
(* A set of rows stands for the table, a row for its columns start_offset, *)
(* end_offset, sha256 and data.  The column `length` repeats               *)
(* end_offset - start_offset and is left out.  Offsets are 0-based and     *)
(* half-open as in the code; a byte string is a sequence, so the byte at   *)
(* offset o of a package is element o + 1.                                 *)
(*                                                                         *)
(* The code's loops read the rows ORDER BY start_offset and keep a cursor. *)
(* Here the cursor before a row is the end of the latest row that starts   *)
(* earlier, which needs no recursion: the definitions can be proved about. *)
(*                                                                         *)
(* A definition named X_Y is X with the programming error Y (see Ingest).  *)
(***************************************************************************)
EXTENDS Integers, SequencesExt

CONSTANTS Byte,        \* the values of a byte
          MaxBytes,    \* bound on the length of every package and payload
          Digests,     \* SHA-256 values
          Sha256(_),   \* the digest of a byte string (no assumption on collisions)
          None         \* SQL NULL and Python None

Blobs == SeqOf(Byte, MaxBytes)

ASSUME MaxBytesAssumption == MaxBytes \in Nat
ASSUME Sha256Assumption == \A x \in Blobs : Sha256(x) \in Digests
ASSUME NoneAssumption == None \notin Blobs /\ None \notin Digests /\ None \notin Nat

ChunkRow == [start_offset : Nat, end_offset : Nat, sha256 : Digests, data : Blobs]

(***************************************************************************)
(* Walking the rows in offset order.                                       *)
(***************************************************************************)
Covers(c, o) == c.start_offset <= o /\ o < c.end_offset

RowsBefore(C, o) == {c \in C : c.start_offset < o}

\* The cursor once every row of C has been consumed.
Cursor(C) ==
  IF C = {} THEN 0
  ELSE (CHOOSE c \in C : \A d \in C : d.start_offset <= c.start_offset).end_offset

\* No row fails the test "chunk.start_offset != cursor".
Contiguous(C) == \A c \in C : c.start_offset = Cursor(RowsBefore(C, c.start_offset))

Complete(C, total) == Contiguous(C) /\ Cursor(C) = total

ByteAt(C, o) ==
  LET c == CHOOSE d \in C : Covers(d, o)
  IN  c.data[o - c.start_offset + 1]

\* The archived bytes of [begin, end), whatever the chunk boundaries.
BytesOf(C, begin, end) == [i \in 1..(end - begin) |-> ByteAt(C, begin + i - 1)]

Whole(C, total) == BytesOf(C, 0, total)

\* _archived_bytes: None when a byte of the range is not archived.
ArchivedBytes(C, begin, end) ==
  IF \A o \in begin..(end - 1) : \E c \in C : Covers(c, o)
  THEN BytesOf(C, begin, end)
  ELSE None

\* The digest that finalization recomputes, None on a gap or a short archive.
ComputedDigest(C, total) ==
  IF Complete(C, total) THEN Sha256(Whole(C, total)) ELSE None

(***************************************************************************)
(* verified_sealed_bytes: the checks every download makes on all the rows. *)
(***************************************************************************)
RowIntact(c) ==
  /\ Len(c.data) = c.end_offset - c.start_offset
  /\ Sha256(c.data) = c.sha256

ArchiveVerifies(C, total, whole_sha256) ==
  /\ Complete(C, total)
  /\ \A c \in C : RowIntact(c)
  /\ Sha256(Whole(C, total)) = whole_sha256

(***************************************************************************)
(* Compaction: _planned_spans and the rows it rewrites the archive into.   *)
(***************************************************************************)
SpanStarts(total, target) == {k * target : k \in {j \in 0..total : j * target < total}}

SpanEnd(off, total, target) == Min({off + target, total})

PlannedSpans(total, target) ==
  {<<off, SpanEnd(off, total, target)>> : off \in SpanStarts(total, target)}

RowOf(start, data) ==
  [start_offset |-> start, end_offset |-> start + Len(data),
   sha256 |-> Sha256(data), data |-> data]

Rechunked(buffer, total, target) ==
  {RowOf(span[1], SubSeq(buffer, span[1] + 1, span[2])) :
      span \in PlannedSpans(total, target)}

Spans(C) == {<<c.start_offset, c.end_offset>> : c \in C}

Layout_CountOnly(C) == Cardinality(C)

Layout(C) == {<<c.start_offset, c.end_offset, c.sha256>> : c \in C}

(***************************************************************************)
(* What _streams_first_difference answers for two byte strings.            *)
(***************************************************************************)
CommonPrefix(x, y) ==
  Max({n \in 0..Min({Len(x), Len(y)}) : \A i \in 1..n : x[i] = y[i]})

FirstDifference(x, y) ==
  IF Len(x) = Len(y) /\ CommonPrefix(x, y) = Len(x) THEN None ELSE CommonPrefix(x, y)

(***************************************************************************)
(* What the rows of a session should be: intact, non-empty, disjoint, and  *)
(* together covering exactly [0, n).                                       *)
(***************************************************************************)
Tiles(C, n) ==
  /\ \A c \in C : /\ c \in ChunkRow
                  /\ c.start_offset < c.end_offset
                  /\ c.end_offset <= n
                  /\ RowIntact(c)
  /\ \A o \in 0..(n - 1) : \E c \in C : Covers(c, o)
  /\ \A c, d \in C : c # d => c.end_offset <= d.start_offset \/ d.end_offset <= c.start_offset
==============================================================================
