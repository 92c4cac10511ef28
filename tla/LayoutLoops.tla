----------------------------- MODULE LayoutLoops -----------------------------
(***************************************************************************)
(* The loops of app/service.py over the chunk rows of a session, iteration *)
(* by iteration, and their agreement with the definitions of ChunkLayout,  *)
(* which say what the loops compute without saying how.                    *)
(*                                                                         *)
(* The rows are ANY set that the unique constraint admits: rows with gaps, *)
(* overlapping rows, rows whose bytes or digest were altered in storage.   *)
(* A loop that an exception or a break leaves early is a fold that keeps   *)
(* its accumulator from there on.  Archive runs these loops.               *)
(***************************************************************************)
EXTENDS ChunkLayout

\* ORDER BY start_offset: the i-th row is the one that starts behind i - 1 others
\* (the offsets of a session are unique: uq_chunk_session_offset).
OrderedByStart(C) ==
  [i \in 1..Cardinality(C) |->
     CHOOSE c \in C : Cardinality(RowsBefore(C, c.start_offset)) = i - 1]

\* data[from:to] of a row, from and to counted from 0.
Slice(c, from, to) == SubSeq(c.data, from + 1, to)

(***************************************************************************)
(* _verify_and_finalize: hash the rows, stop at the first discontinuity.   *)
(***************************************************************************)
HashRow(walk, c) ==
  IF walk.broken \/ c.start_offset # walk.cursor
  THEN [walk EXCEPT !.broken = TRUE]
  ELSE [walk EXCEPT !.cursor = c.end_offset, !.hashed = @ \o c.data]

WalkRows(C) ==
  FoldLeft(HashRow, [cursor |-> 0, hashed |-> <<>>, broken |-> FALSE], OrderedByStart(C))

FinalizeLoop_IgnoresTail(C, total) ==
  LET walk == WalkRows(C) IN IF walk.broken THEN None ELSE Sha256(walk.hashed)

FinalizeLoop(C, total) ==
  LET walk == WalkRows(C)
  IN  IF walk.broken \/ walk.cursor # total THEN None ELSE Sha256(walk.hashed)

(***************************************************************************)
(* _archived_bytes: copy [begin, end) out of the rows that overlap it.     *)
(***************************************************************************)
Overlapping(C, begin, end) == {c \in C : c.start_offset < end /\ c.end_offset > begin}

CopyRow_FromItsStart(copy, c, end) ==
  LET stop == Min({c.end_offset, end})
  IN  IF copy.gap \/ copy.cursor >= end THEN copy
      ELSE IF c.start_offset > copy.cursor THEN [copy EXCEPT !.gap = TRUE]
      ELSE [copy EXCEPT !.out = @ \o Slice(c, 0, stop - c.start_offset),
                        !.cursor = stop]

CopyRow(copy, c, end) ==
  LET stop == Min({c.end_offset, end})
  IN  IF copy.gap \/ copy.cursor >= end THEN copy
      ELSE IF c.start_offset > copy.cursor THEN [copy EXCEPT !.gap = TRUE]
      ELSE [copy EXCEPT !.out = @ \o Slice(c, copy.cursor - c.start_offset,
                                              stop - c.start_offset),
                        !.cursor = stop]

ArchivedLoop(C, begin, end) ==
  LET copy == FoldLeft(LAMBDA acc, c : CopyRow(acc, c, end),
                       [cursor |-> begin, out |-> <<>>, gap |-> FALSE],
                       OrderedByStart(Overlapping(C, begin, end)))
  IN  IF begin = end THEN <<>>
      ELSE IF copy.gap \/ copy.cursor # end THEN None
      ELSE copy.out

(***************************************************************************)
(* verified_sealed_bytes: check every row, keep the bytes of [begin, end). *)
(***************************************************************************)
InWindow(c, begin, end) == c.start_offset < end /\ c.end_offset > begin

VerifyRow_OnlyInWindow(read, c, begin, end) ==
  IF \/ read.damaged
     \/ c.start_offset # read.cursor
     \/ Len(c.data) # c.end_offset - c.start_offset
     \/ InWindow(c, begin, end) /\ Sha256(c.data) # c.sha256
  THEN [read EXCEPT !.damaged = TRUE]
  ELSE [cursor |-> c.end_offset, hashed |-> read.hashed \o c.data, damaged |-> FALSE,
        out |-> IF InWindow(c, begin, end)
                THEN read.out \o Slice(c, Max({begin, c.start_offset}) - c.start_offset,
                                          Min({end, c.end_offset}) - c.start_offset)
                ELSE read.out]

VerifyRow(read, c, begin, end) ==
  IF \/ read.damaged
     \/ c.start_offset # read.cursor
     \/ Len(c.data) # c.end_offset - c.start_offset
     \/ Sha256(c.data) # c.sha256
  THEN [read EXCEPT !.damaged = TRUE]
  ELSE [cursor |-> c.end_offset, hashed |-> read.hashed \o c.data, damaged |-> FALSE,
        out |-> IF InWindow(c, begin, end)
                THEN read.out \o Slice(c, Max({begin, c.start_offset}) - c.start_offset,
                                          Min({end, c.end_offset}) - c.start_offset)
                ELSE read.out]

\* The rows and, behind the loop, the length and the digest of the package: None
\* is a 500.
ReadRows(C, begin, end) ==
  FoldLeft(LAMBDA acc, c : VerifyRow(acc, c, begin, end),
           [cursor |-> 0, hashed |-> <<>>, damaged |-> FALSE, out |-> <<>>],
           OrderedByStart(C))

ReadLoop(C, total, whole_sha256, begin, end) ==
  LET read == ReadRows(C, begin, end)
  IN  IF read.damaged \/ read.cursor # total \/ Sha256(read.hashed) # whole_sha256
      THEN None ELSE read.out

(***************************************************************************)
(* compact_sealed: cut the buffer at range(0, total, target).              *)
(***************************************************************************)
CutLoop_DropsRest(buffer, target) ==
  LET cut[off \in Nat] ==
        IF off + target > Len(buffer) THEN <<>>
        ELSE <<RowOf(off, SubSeq(buffer, off + 1, off + target))>> \o cut[off + target]
  IN  cut[0]

CutLoop(buffer, target) ==
  LET cut[off \in Nat] ==
        IF off >= Len(buffer) THEN <<>>
        ELSE <<RowOf(off, SubSeq(buffer, off + 1, Min({off + target, Len(buffer)})))>>
               \o cut[off + target]
  IN  cut[0]
==============================================================================
