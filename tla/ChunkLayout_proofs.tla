-------------------------- MODULE ChunkLayout_proofs --------------------------
(***************************************************************************)
(* Facts about the chunk rows of one session, for every byte set, length   *)
(* bound and digest function: what tiling rows yield, and that appending a *)
(* chunk and packing the archive anew keep the rows tiling.                *)
(***************************************************************************)
EXTENDS ChunkLayout, FiniteSetTheorems, SequenceTheorems, WellFoundedInduction, TLAPS

\* A byte string is a sequence of bytes no longer than the bound.
LEMMA BlobIsSequence ==
  \A x \in Blobs : x \in Seq(Byte) /\ Len(x) \in 0..MaxBytes /\ x \in [1..Len(x) -> Byte]
<1> TAKE x \in Blobs
<1>1. PICK n \in 0..MaxBytes : x \in [1..n -> Byte]  BY DEF Blobs, SeqOf
<1>2. n \in Nat  BY MaxBytesAssumption
<1>3. x \in Seq(Byte)  BY <1>1, <1>2, SeqDef
<1> QED  BY <1>1, <1>2, <1>3, LenProperties

\* A function on 1..m into the bytes is a byte string of length m.
LEMMA FunctionIsBlob ==
  \A m \in 0..MaxBytes : \A x \in [1..m -> Byte] : x \in Blobs /\ Len(x) = m
<1> TAKE m \in 0..MaxBytes
<1> TAKE x \in [1..m -> Byte]
<1>1. x \in Blobs  BY DEF Blobs, SeqOf
<1>2. x \in Seq(Byte)  BY MaxBytesAssumption, SeqDef
<1>3. DOMAIN x = 1..Len(x) /\ Len(x) \in Nat  BY <1>2, LenProperties
<1> QED  BY <1>1, <1>3, MaxBytesAssumption

\* A slice of a byte string, in the half-open notation of the code.
LEMMA SliceIsBlob ==
  ASSUME NEW x \in Blobs, NEW a \in Nat, NEW b \in Nat, a <= b, b <= Len(x)
  PROVE  LET y == SubSeq(x, a + 1, b)
         IN  y \in Blobs /\ Len(y) = b - a /\ \A i \in 1..(b - a) : y[i] = x[a + i]
<1> DEFINE y == SubSeq(x, a + 1, b)
<1>1. x \in [1..Len(x) -> Byte] /\ Len(x) \in 0..MaxBytes  BY BlobIsSequence
<1>2. \A i \in (a + 1)..b : x[i] \in Byte  BY <1>1, MaxBytesAssumption
<1>3. /\ y \in Seq(Byte)
      /\ Len(y) = IF a + 1 <= b THEN b - (a + 1) + 1 ELSE 0
      /\ \A i \in 1..(b - (a + 1) + 1) : y[i] = x[(a + 1) + i - 1]
  BY <1>2, SubSeqProperties
<1>4. Len(y) = b - a  BY <1>3
<1>5. y \in [1..(b - a) -> Byte]  BY <1>3, <1>4, LenProperties
<1>6. b - a \in 0..MaxBytes  BY <1>1, MaxBytesAssumption
<1>7. y \in Blobs  BY <1>5, <1>6, FunctionIsBlob
<1>8. \A i \in 1..(b - a) : y[i] = x[a + i]
  <2> TAKE i \in 1..(b - a)
  <2>1. i \in 1..(b - (a + 1) + 1) /\ (a + 1) + i - 1 = a + i  OBVIOUS
  <2> QED  BY <2>1, <1>3
<1> QED  BY <1>4, <1>7, <1>8

-------------------------------------------------------------------------------
\* At most one of tiling rows covers an offset.
LEMMA CoveredOnce ==
  ASSUME NEW C, NEW n \in Nat, Tiles(C, n), NEW c \in C, NEW d \in C, NEW o \in Nat,
         Covers(c, o), Covers(d, o)
  PROVE  c = d
<1>1. c \in ChunkRow /\ d \in ChunkRow  BY DEF Tiles
<1> QED  BY <1>1 DEF Tiles, Covers, ChunkRow

\* The byte at an offset is the one that the covering row holds.
LEMMA ByteOfRow ==
  ASSUME NEW C, NEW n \in Nat, Tiles(C, n), NEW c \in C, NEW o \in Nat, Covers(c, o)
  PROVE  /\ ByteAt(C, o) = c.data[o - c.start_offset + 1]
         /\ ByteAt(C, o) \in Byte
<1> DEFINE d == CHOOSE e \in C : Covers(e, o)
<1>1. d \in C /\ Covers(d, o)  OBVIOUS
<1>2. d = c  BY <1>1, CoveredOnce
<1>3. ByteAt(C, o) = c.data[o - c.start_offset + 1]  BY <1>2 DEF ByteAt
<1>4. /\ c.start_offset \in Nat /\ c.end_offset \in Nat /\ c.data \in Blobs
      /\ Len(c.data) = c.end_offset - c.start_offset
  BY DEF Tiles, ChunkRow, RowIntact
<1>5. c.data \in [1..Len(c.data) -> Byte]  BY <1>4, BlobIsSequence
<1>6. o - c.start_offset + 1 \in 1..Len(c.data)  BY <1>4 DEF Covers
<1> QED  BY <1>3, <1>5, <1>6

\* A prefix of a tiled archive is a byte string of its length.
LEMMA WholeIsBlob ==
  ASSUME NEW C, NEW n \in 0..MaxBytes, Tiles(C, n), NEW m \in 0..n
  PROVE  /\ Whole(C, m) \in Blobs
         /\ Len(Whole(C, m)) = m
         /\ \A i \in 1..m : Whole(C, m)[i] = ByteAt(C, i - 1)
<1>0. n \in Nat /\ m \in 0..MaxBytes /\ m \in Nat  BY MaxBytesAssumption
<1>1. \A o \in 0..(m - 1) : ByteAt(C, o) \in Byte
  <2> TAKE o \in 0..(m - 1)
  <2>1. o \in Nat /\ o \in 0..(n - 1)  BY <1>0
  <2>2. PICK c \in C : Covers(c, o)  BY <2>1 DEF Tiles
  <2> QED  BY <2>1, <2>2, <1>0, ByteOfRow
<1>2. Whole(C, m) = [i \in 1..m |-> ByteAt(C, 0 + i - 1)]
  <2>1. m - 0 = m  BY <1>0
  <2> QED  BY <2>1 DEF Whole, BytesOf
<1>3. \A i \in 1..m : 0 + i - 1 = i - 1 /\ i - 1 \in 0..(m - 1)  BY <1>0
<1>4. Whole(C, m) \in [1..m -> Byte]  BY <1>1, <1>2, <1>3
<1> QED  BY <1>0, <1>2, <1>3, <1>4, FunctionIsBlob

-------------------------------------------------------------------------------
\* At every boundary between tiling rows, the cursor of the code's loop is the
\* boundary: what has been read so far ends exactly there.
LEMMA CursorAtBoundary ==
  ASSUME NEW C, NEW n \in Nat, Tiles(C, n), NEW p \in 0..n,
         \A c \in C : ~(c.start_offset < p /\ p < c.end_offset)
  PROVE  Cursor(RowsBefore(C, p)) = p
<1> DEFINE B == RowsBefore(C, p)
<1>1. \A c \in C : c.start_offset \in Nat /\ c.end_offset \in Nat
                   /\ c.start_offset < c.end_offset /\ c.end_offset <= n
  BY DEF Tiles, ChunkRow
<1>2. \A c, d \in C : c # d =>
        c.end_offset <= d.start_offset \/ d.end_offset <= c.start_offset
  BY DEF Tiles
<1>3. CASE p = 0
  <2>1. B = {}  BY <1>1, <1>3 DEF RowsBefore
  <2> QED  BY <2>1, <1>3 DEF Cursor
<1>4. CASE p > 0
  <2>1. PICK d \in C : Covers(d, p - 1)  BY <1>4 DEF Tiles
  <2>2. d \in B /\ d.end_offset = p  BY <2>1, <1>1 DEF RowsBefore, Covers
  <2>3. \A e \in B : e.start_offset <= d.start_offset
    BY <2>1, <2>2, <1>1, <1>2 DEF RowsBefore, Covers
  <2> DEFINE last == CHOOSE c \in B : \A e \in B : e.start_offset <= c.start_offset
  <2>4. last \in B /\ \A e \in B : e.start_offset <= last.start_offset  BY <2>2, <2>3
  <2>5. last \in C  BY <2>4 DEF RowsBefore
  <2>6. last = d  BY <2>2, <2>3, <2>4, <2>5, <2>1, <1>1, <1>2
  <2>7. B # {} /\ Cursor(B) = last.end_offset  BY <2>2 DEF Cursor
  <2> QED  BY <2>2, <2>6, <2>7
<1> QED  BY <1>3, <1>4

\* Tiling rows pass the continuity and length checks of every read.
LEMMA TilesComplete ==
  ASSUME NEW C, NEW n \in Nat, Tiles(C, n)
  PROVE  Complete(C, n)
<1>1. \A c \in C : c.start_offset \in Nat /\ c.end_offset \in Nat
                   /\ c.start_offset < c.end_offset /\ c.end_offset <= n
  BY DEF Tiles, ChunkRow
<1>2. \A c, d \in C : c # d =>
        c.end_offset <= d.start_offset \/ d.end_offset <= c.start_offset
  BY DEF Tiles
<1>3. ASSUME NEW c \in C  PROVE c.start_offset = Cursor(RowsBefore(C, c.start_offset))
  <2>1. c.start_offset \in 0..n  BY <1>1
  <2>2. \A d \in C : ~(d.start_offset < c.start_offset /\ c.start_offset < d.end_offset)
    BY <1>1, <1>2
  <2> QED  BY <2>1, <2>2, CursorAtBoundary
<1>4. Cursor(C) = n
  <2>1. RowsBefore(C, n) = C  BY <1>1 DEF RowsBefore
  <2>2. \A d \in C : ~(d.start_offset < n /\ n < d.end_offset)  BY <1>1
  <2>3. n \in 0..n  OBVIOUS
  <2>4. Cursor(RowsBefore(C, n)) = n  BY <2>2, <2>3, CursorAtBoundary
  <2> QED  BY <2>1, <2>4
<1> QED  BY <1>3, <1>4 DEF Complete, Contiguous

\* Tiling rows have pairwise different offsets, so there are finitely many.
LEMMA TilesFinite ==
  ASSUME NEW C, NEW n \in Nat, Tiles(C, n)
  PROVE  IsFiniteSet(C)
<1> DEFINE f == [c \in C |-> c.start_offset]
<1>1. \A c \in C : c.start_offset \in 0..n  BY DEF Tiles, ChunkRow
<1>2. \A c, d \in C : c.start_offset = d.start_offset => c = d  BY DEF Tiles, ChunkRow
<1>3. f \in Injection(C, 0..n)  BY <1>1, <1>2 DEF Injection, IsInjective
<1>4. IsFiniteSet(0..n)  BY FS_Interval
<1> QED  BY <1>3, <1>4, FS_Injection

\* Two tiled archives with the same bytes below m have the same prefix.
LEMMA SamePrefix ==
  ASSUME NEW C, NEW D, NEW m \in Nat, \A o \in 0..(m - 1) : ByteAt(C, o) = ByteAt(D, o)
  PROVE  Whole(C, m) = Whole(D, m)
<1>1. m - 0 = m  OBVIOUS
<1>2. \A i \in 1..m : 0 + i - 1 \in 0..(m - 1)  OBVIOUS
<1>3. \A i \in 1..m : ByteAt(C, 0 + i - 1) = ByteAt(D, 0 + i - 1)  BY <1>2
<1> QED  BY <1>1, <1>3 DEF Whole, BytesOf

-------------------------------------------------------------------------------
\* Appending a non-empty chunk at the checkpoint extends the tiling and leaves
\* every byte below the checkpoint as it was.
LEMMA AppendTiles ==
  ASSUME NEW C, NEW n \in Nat, Tiles(C, n), NEW x \in Blobs, Len(x) > 0
  PROVE  LET D == C \cup {RowOf(n, x)}
         IN  /\ Tiles(D, n + Len(x))
             /\ \A m \in 0..n : Whole(D, m) = Whole(C, m)
<1> DEFINE row == RowOf(n, x)
           D   == C \cup {row}
           k   == n + Len(x)
<1>1. Len(x) \in Nat \ {0} /\ Sha256(x) \in Digests
  BY BlobIsSequence, MaxBytesAssumption, Sha256Assumption
<1>2. /\ row \in ChunkRow /\ RowIntact(row)
      /\ row.start_offset = n /\ row.end_offset = k /\ row.data = x
  BY <1>1 DEF RowOf, ChunkRow, RowIntact
<1>3. \A c \in C : c \in ChunkRow /\ c.start_offset < c.end_offset
                   /\ c.end_offset <= n /\ RowIntact(c)
  BY DEF Tiles
<1>4. Tiles(D, k)
  <2>1. \A c \in D : c \in ChunkRow /\ c.start_offset < c.end_offset
                     /\ c.end_offset <= k /\ RowIntact(c)
    BY <1>1, <1>2, <1>3 DEF ChunkRow
  <2>2. ASSUME NEW o \in 0..(k - 1)  PROVE \E c \in D : Covers(c, o)
    <3>1. CASE o < n
      <4>1. \E c \in C : Covers(c, o)  BY <3>1, <1>1 DEF Tiles
      <4> QED  BY <4>1
    <3>2. CASE o >= n  BY <3>2, <1>1, <1>2 DEF Covers
    <3> QED  BY <3>1, <3>2, <1>1
  <2>3. \A c, d \in D : c # d =>
          c.end_offset <= d.start_offset \/ d.end_offset <= c.start_offset
    BY <1>2, <1>3 DEF Tiles
  <2> QED  BY <2>1, <2>2, <2>3 DEF Tiles
<1>5. ASSUME NEW m \in 0..n  PROVE Whole(D, m) = Whole(C, m)
  <2>1. ASSUME NEW o \in 0..(m - 1)  PROVE ByteAt(D, o) = ByteAt(C, o)
    <3>1. o \in Nat /\ o \in 0..(n - 1) /\ k \in Nat  BY <1>1
    <3>2. PICK c \in C : Covers(c, o)  BY <3>1 DEF Tiles
    <3>3. ByteAt(C, o) = c.data[o - c.start_offset + 1]  BY <3>1, <3>2, ByteOfRow
    <3>4. c \in D  OBVIOUS
    <3>5. ByteAt(D, o) = c.data[o - c.start_offset + 1]
      BY <3>1, <3>2, <3>4, <1>4, ByteOfRow
    <3> QED  BY <3>3, <3>5
  <2> HIDE DEF D
  <2> QED  BY <2>1, SamePrefix
<1> QED  BY <1>4, <1>5

-------------------------------------------------------------------------------
\* A planned span is not empty, stays in the package and is no longer than the
\* target; only the last one can be shorter.
LEMMA PlannedSpan ==
  ASSUME NEW total \in Nat, NEW target \in Nat \ {0}, NEW off \in Nat, off < total
  PROVE  /\ SpanEnd(off, total, target) \in Nat
         /\ off < SpanEnd(off, total, target)
         /\ SpanEnd(off, total, target) <= total
         /\ SpanEnd(off, total, target) <= off + target
         /\ SpanEnd(off, total, target) = off + target \/ SpanEnd(off, total, target) = total
<1>1. \A a, b \in Nat : Min({a, b}) = IF a <= b THEN a ELSE b  BY DEF Min
<1>2. SpanEnd(off, total, target) = IF off + target <= total THEN off + target ELSE total
  BY <1>1 DEF SpanEnd
<1> QED  BY <1>2

\* A row of a rewritten archive starts at a multiple of the target, and holds
\* the slice of the buffer that belongs there.
LEMMA RechunkedRow ==
  ASSUME NEW buffer \in Blobs, NEW target \in Nat \ {0},
         NEW c \in Rechunked(buffer, Len(buffer), target)
  PROVE  /\ \E k \in Nat : c.start_offset = k * target
         /\ c.start_offset < c.end_offset
         /\ c.end_offset = SpanEnd(c.start_offset, Len(buffer), target)
         /\ c.end_offset <= Len(buffer)
         /\ c.end_offset <= c.start_offset + target
         /\ c = RowOf(c.start_offset, SubSeq(buffer, c.start_offset + 1, c.end_offset))
         /\ c \in ChunkRow
         /\ RowIntact(c)
         /\ \A i \in 1..(c.end_offset - c.start_offset) :
              c.data[i] = buffer[c.start_offset + i]
<1>1. Len(buffer) \in Nat  BY BlobIsSequence, MaxBytesAssumption
<1>2. PICK span \in PlannedSpans(Len(buffer), target) :
        c = RowOf(span[1], SubSeq(buffer, span[1] + 1, span[2]))
  BY DEF Rechunked
<1>3. PICK off \in SpanStarts(Len(buffer), target) :
        span = <<off, SpanEnd(off, Len(buffer), target)>>
  BY DEF PlannedSpans
<1>4. PICK k \in 0..Len(buffer) : off = k * target /\ k * target < Len(buffer)
  BY DEF SpanStarts
<1>5. k \in Nat /\ off \in Nat /\ off < Len(buffer)  BY <1>1, <1>4
<1> DEFINE end  == SpanEnd(off, Len(buffer), target)
           data == SubSeq(buffer, off + 1, end)
<1>6. end \in Nat /\ off < end /\ end <= Len(buffer) /\ end <= off + target
  BY <1>1, <1>5, PlannedSpan
<1>7. c = RowOf(off, data)  BY <1>2, <1>3
<1> HIDE DEF end
<1>8. data \in Blobs /\ Len(data) = end - off /\ \A i \in 1..(end - off) : data[i] = buffer[off + i]
  BY <1>5, <1>6, SliceIsBlob
<1>9. Sha256(data) \in Digests  BY <1>8, Sha256Assumption
<1>10. c.start_offset = off /\ c.end_offset = off + Len(data) /\ c.data = data
       /\ c.sha256 = Sha256(data)
  BY <1>7 DEF RowOf
<1>11. c.end_offset = end  BY <1>5, <1>6, <1>8, <1>10
<1>12. c \in ChunkRow /\ RowIntact(c)
  BY <1>5, <1>6, <1>7, <1>8, <1>9, <1>10, <1>11 DEF RowOf, ChunkRow, RowIntact
<1>13. c.end_offset = SpanEnd(c.start_offset, Len(buffer), target)  BY <1>10, <1>11 DEF end
<1>14. c = RowOf(c.start_offset, SubSeq(buffer, c.start_offset + 1, c.end_offset))
  BY <1>7, <1>10, <1>11
<1> QED  BY <1>4, <1>5, <1>6, <1>8, <1>10, <1>11, <1>12, <1>13, <1>14

\* Every multiple of the target inside the package starts a row.
LEMMA RechunkedCovers ==
  ASSUME NEW buffer \in Blobs, NEW target \in Nat \ {0}, NEW o \in 0..(Len(buffer) - 1)
  PROVE  \E c \in Rechunked(buffer, Len(buffer), target) : Covers(c, o)
<1>1. Len(buffer) \in Nat /\ o \in Nat /\ o < Len(buffer)
  BY BlobIsSequence, MaxBytesAssumption
<1>2. o \div target \in Nat /\ o = target * (o \div target) + (o % target)
      /\ o % target \in 0..(target - 1)
  BY <1>1
<1>3. PICK k \in Nat, r \in 0..(target - 1) : o = target * k + r  BY <1>2
<1>4. PICK off \in Nat : off = k * target  OBVIOUS
<1>5. off <= o /\ o < off + target
  <2>1. target * k = off  BY <1>4
  <2> QED  BY <2>1, <1>1, <1>3
<1>6. k <= off  BY <1>4
<1>7. off \in SpanStarts(Len(buffer), target)
  <2>1. k \in 0..Len(buffer) /\ k * target < Len(buffer)  BY <1>1, <1>4, <1>5, <1>6
  <2> QED  BY <2>1, <1>4 DEF SpanStarts
<1>8. PICK end \in Nat : end = SpanEnd(off, Len(buffer), target)
  BY <1>1, <1>5, PlannedSpan
<1>9. off < end /\ end <= Len(buffer) /\ (end = off + target \/ end = Len(buffer))
  <2>1. off < Len(buffer)  BY <1>1, <1>5
  <2>2. /\ off < SpanEnd(off, Len(buffer), target)
        /\ SpanEnd(off, Len(buffer), target) <= Len(buffer)
        /\ \/ SpanEnd(off, Len(buffer), target) = off + target
           \/ SpanEnd(off, Len(buffer), target) = Len(buffer)
    BY <1>1, <2>1, PlannedSpan
  <2> QED  BY <2>2, <1>8
<1>10. <<off, end>> \in PlannedSpans(Len(buffer), target)  BY <1>7, <1>8 DEF PlannedSpans
<1>11. PICK c : c = RowOf(off, SubSeq(buffer, off + 1, end))  OBVIOUS
<1>12. c \in Rechunked(buffer, Len(buffer), target)
  <2>1. <<off, end>>[1] = off /\ <<off, end>>[2] = end  OBVIOUS
  <2> QED  BY <1>10, <1>11, <2>1 DEF Rechunked
<1>13. Len(SubSeq(buffer, off + 1, end)) = end - off  BY <1>9, SliceIsBlob
<1>14. c.start_offset = off /\ c.end_offset = off + (end - off)  BY <1>11, <1>13 DEF RowOf
<1>15. Covers(c, o)  BY <1>1, <1>5, <1>9, <1>14 DEF Covers
<1> QED  BY <1>12, <1>15

\* Rows of a rewritten archive do not overlap.
LEMMA RechunkedDisjoint ==
  ASSUME NEW buffer \in Blobs, NEW target \in Nat \ {0},
         NEW c \in Rechunked(buffer, Len(buffer), target),
         NEW d \in Rechunked(buffer, Len(buffer), target), c # d
  PROVE  c.end_offset <= d.start_offset \/ d.end_offset <= c.start_offset
<1>1. /\ c = RowOf(c.start_offset, SubSeq(buffer, c.start_offset + 1, c.end_offset))
      /\ c.end_offset = SpanEnd(c.start_offset, Len(buffer), target)
      /\ c.end_offset <= c.start_offset + target
      /\ c.start_offset \in Nat /\ c.end_offset \in Nat
  BY RechunkedRow DEF ChunkRow
<1>2. /\ d = RowOf(d.start_offset, SubSeq(buffer, d.start_offset + 1, d.end_offset))
      /\ d.end_offset = SpanEnd(d.start_offset, Len(buffer), target)
      /\ d.end_offset <= d.start_offset + target
      /\ d.start_offset \in Nat /\ d.end_offset \in Nat
  BY RechunkedRow DEF ChunkRow
<1>3. c.start_offset # d.start_offset  BY <1>1, <1>2
<1>4. PICK j \in Nat : c.start_offset = j * target  BY RechunkedRow
<1>5. PICK k \in Nat : d.start_offset = k * target  BY RechunkedRow
<1>6. j < k \/ k < j  BY <1>3, <1>4, <1>5
<1>7. \A a, b \in Nat : a < b => a * target + target <= b * target
  <2> TAKE a, b \in Nat
  <2> HAVE a < b
  <2>1. (a + 1) * target <= b * target  OBVIOUS
  <2>2. (a + 1) * target = a * target + target  OBVIOUS
  <2> QED  BY <2>1, <2>2
<1>8. CASE j < k
  <2>1. c.start_offset + target <= d.start_offset  BY <1>4, <1>5, <1>7, <1>8
  <2> QED  BY <2>1, <1>1, <1>2
<1>9. CASE k < j
  <2>1. d.start_offset + target <= c.start_offset  BY <1>4, <1>5, <1>7, <1>9
  <2> QED  BY <2>1, <1>1, <1>2
<1> QED  BY <1>6, <1>8, <1>9

\* Packing the archive anew keeps it tiled, with the same bytes, for every
\* target: compaction moves chunk boundaries and nothing else.
THEOREM RechunkedKeepsBytes ==
  ASSUME NEW buffer \in Blobs, NEW target \in Nat \ {0}
  PROVE  LET N == Rechunked(buffer, Len(buffer), target)
         IN  /\ Tiles(N, Len(buffer))
             /\ Whole(N, Len(buffer)) = buffer
             /\ \A c \in N : c.end_offset - c.start_offset <= target
<1> DEFINE total == Len(buffer)
           N     == Rechunked(buffer, total, target)
<1>1. total \in 0..MaxBytes /\ total \in Nat /\ buffer \in Seq(Byte)
  BY BlobIsSequence, MaxBytesAssumption
<1>2. \A c \in N : /\ c \in ChunkRow /\ RowIntact(c)
                   /\ c.start_offset < c.end_offset /\ c.end_offset <= total
                   /\ c.end_offset <= c.start_offset + target
  BY RechunkedRow
<1>3. \A o \in 0..(total - 1) : \E c \in N : Covers(c, o)  BY RechunkedCovers
<1>4. \A c, d \in N : c # d =>
        c.end_offset <= d.start_offset \/ d.end_offset <= c.start_offset
  BY RechunkedDisjoint
<1>5. Tiles(N, total)
  <2> HIDE DEF N, total
  <2> QED  BY <1>2, <1>3, <1>4 DEF Tiles
<1>6. /\ Whole(N, total) \in Blobs /\ Len(Whole(N, total)) = total
      /\ \A i \in 1..total : Whole(N, total)[i] = ByteAt(N, i - 1)
  <2> HIDE DEF N, total
  <2>1. total \in 0..total  BY <1>1
  <2> QED  BY <1>1, <1>5, <2>1, WholeIsBlob
<1>7. ASSUME NEW i \in 1..total  PROVE Whole(N, total)[i] = buffer[i]
  <2>1. i - 1 \in Nat /\ i - 1 \in 0..(total - 1)  BY <1>1
  <2>2. PICK c \in N : Covers(c, i - 1)  BY <2>1, <1>3
  <2>3. c.start_offset \in Nat /\ c.end_offset \in Nat  BY <1>2 DEF ChunkRow
  <2>4. PICK p \in 1..(c.end_offset - c.start_offset) : p = (i - 1) - c.start_offset + 1
    BY <2>1, <2>2, <2>3 DEF Covers
  <2>5. c.data[p] = buffer[c.start_offset + p]  BY RechunkedRow
  <2>6. c.start_offset + p = i  BY <2>3, <2>4
  <2>7. ByteAt(N, i - 1) = c.data[p]
    <3> HIDE DEF N, total
    <3> QED  BY <2>1, <2>2, <2>4, <1>1, <1>5, ByteOfRow
  <2>8. Whole(N, total)[i] = ByteAt(N, i - 1)  BY <1>6
  <2> QED  BY <2>5, <2>6, <2>7, <2>8
<1>8. Whole(N, total) = buffer
  <2>1. Whole(N, total) \in Seq(Byte)  BY <1>6, BlobIsSequence
  <2> HIDE DEF N
  <2> QED  BY <1>1, <1>6, <1>7, <2>1, SeqEqual
<1>9. \A c \in N : c.end_offset - c.start_offset <= target  BY <1>2, <1>1 DEF ChunkRow
<1> QED  BY <1>5, <1>8, <1>9

-------------------------------------------------------------------------------
\* The digest that finalization, compaction and downloads recompute from tiling
\* rows is the digest of the archived bytes.
LEMMA TilesDigest ==
  ASSUME NEW C, NEW n \in 0..MaxBytes, Tiles(C, n)
  PROVE  /\ ComputedDigest(C, n) = Sha256(Whole(C, n))
         /\ ComputedDigest(C, n) \in Digests
<1>1. n \in Nat /\ n \in 0..n  BY MaxBytesAssumption
<1>2. Complete(C, n)  BY <1>1, TilesComplete
<1>3. Whole(C, n) \in Blobs  BY <1>1, WholeIsBlob
<1> QED  BY <1>2, <1>3, Sha256Assumption DEF ComputedDigest

\* No rows tile the empty package, whose content is the empty byte string.
LEMMA NothingTiled ==
  /\ Tiles({}, 0)
  /\ \A C : Whole(C, 0) = <<>>
  /\ <<>> \in Blobs
<1>1. Tiles({}, 0)  BY DEF Tiles
<1>2. ASSUME NEW C  PROVE Whole(C, 0) = <<>>
  <2>1. Whole(C, 0) = [i \in 1..(0 - 0) |-> ByteAt(C, 0 + i - 1)]  BY DEF Whole, BytesOf
  <2>2. 1..(0 - 0) = {}  OBVIOUS
  <2>3. Whole(C, 0) \in [{} -> Byte]  BY <2>1, <2>2
  <2>4. Whole(C, 0) \in Seq(Byte) /\ Len(Whole(C, 0)) = 0
    <3>1. 1..0 = {} /\ 0 \in 0..MaxBytes  BY MaxBytesAssumption
    <3>2. Whole(C, 0) \in [1..0 -> Byte]  BY <2>3, <3>1
    <3> QED  BY <3>1, <3>2, FunctionIsBlob, BlobIsSequence
  <2> QED  BY <2>4, EmptySeq
<1>3. <<>> \in Blobs
  <2>1. <<>> \in [1..0 -> Byte] /\ 0 \in 0..MaxBytes  BY MaxBytesAssumption
  <2> QED  BY <2>1 DEF Blobs, SeqOf
<1> QED  BY <1>1, <1>2, <1>3

-------------------------------------------------------------------------------
(***************************************************************************)
(* Slices of the archive.                                                  *)
(***************************************************************************)
\* A slice that ends below the checkpoint is archived.
LEMMA SliceIsArchived ==
  ASSUME NEW C, NEW n \in Nat, Tiles(C, n), NEW a \in Nat, NEW b \in Int, b <= n
  PROVE  ArchivedBytes(C, a, b) = BytesOf(C, a, b)
<1>1. \A o \in a..(b - 1) : o \in 0..(n - 1)  OBVIOUS
<1>2. \A o \in a..(b - 1) : \E c \in C : Covers(c, o)  BY <1>1 DEF Tiles
<1> QED  BY <1>2 DEF ArchivedBytes

\* A slice that ends beyond the checkpoint is not.
LEMMA BeyondIsNotArchived ==
  ASSUME NEW C, NEW n \in Nat, Tiles(C, n), NEW a \in Int, NEW b \in Int, a < b, n < b
  PROVE  ArchivedBytes(C, a, b) = None
<1>1. \A c \in C : c.end_offset \in Nat /\ c.end_offset <= n  BY DEF Tiles, ChunkRow
<1>2. b - 1 \in a..(b - 1)  OBVIOUS
<1>3. ~ \E c \in C : Covers(c, b - 1)  BY <1>1 DEF Covers
<1> QED  BY <1>2, <1>3 DEF ArchivedBytes

\* Two archives with the same bytes below n have the same slices below n.
LEMMA SameSlice ==
  ASSUME NEW C, NEW n \in 0..MaxBytes, Tiles(C, n),
         NEW D, NEW m \in 0..MaxBytes, Tiles(D, m), n <= m,
         Whole(D, n) = Whole(C, n),
         NEW a \in Nat, NEW b \in Int, b <= n
  PROVE  ArchivedBytes(D, a, b) = ArchivedBytes(C, a, b)
<1>1. n \in Nat /\ m \in Nat /\ n \in 0..n /\ n \in 0..m  BY MaxBytesAssumption
<1>2. \A i \in 1..n : Whole(C, n)[i] = ByteAt(C, i - 1)  BY <1>1, WholeIsBlob
<1>3. \A i \in 1..n : Whole(D, n)[i] = ByteAt(D, i - 1)  BY <1>1, WholeIsBlob
<1>4. ASSUME NEW i \in 1..(b - a)  PROVE ByteAt(D, a + i - 1) = ByteAt(C, a + i - 1)
  <2>1. a + i \in 1..n /\ (a + i) - 1 = a + i - 1  BY <1>1
  <2> QED  BY <2>1, <1>2, <1>3
<1>5. BytesOf(D, a, b) = BytesOf(C, a, b)  BY <1>4 DEF BytesOf
<1>6. ArchivedBytes(C, a, b) = BytesOf(C, a, b)  BY <1>1, SliceIsArchived
<1>7. ArchivedBytes(D, a, b) = BytesOf(D, a, b)
  <2>1. b <= m  BY <1>1
  <2> QED  BY <2>1, <1>1, SliceIsArchived
<1> QED  BY <1>5, <1>6, <1>7

\* The slice under a row is the data of the row.
LEMMA RowIsArchived ==
  ASSUME NEW C, NEW n \in Nat, Tiles(C, n), NEW a \in Nat, NEW x \in Blobs,
         RowOf(a, x) \in C
  PROVE  ArchivedBytes(C, a, a + Len(x)) = x
<1> DEFINE b == a + Len(x)
           c == RowOf(a, x)
<1>1. Len(x) \in Nat /\ b \in Nat /\ x \in [1..Len(x) -> Byte]
  BY BlobIsSequence, MaxBytesAssumption
<1>2. c.start_offset = a /\ c.end_offset = b /\ c.data = x  BY DEF RowOf
<1>3. b <= n  BY <1>2 DEF Tiles
<1>4. ASSUME NEW i \in 1..(b - a)  PROVE ByteAt(C, a + i - 1) = x[i]
  <2>1. a + i - 1 \in Nat /\ Covers(c, a + i - 1)  BY <1>1, <1>2 DEF Covers
  <2>2. ByteAt(C, a + i - 1) = c.data[(a + i - 1) - c.start_offset + 1]
    <3> HIDE DEF c
    <3> QED  BY <2>1, ByteOfRow DEF c
  <2>3. (a + i - 1) - a + 1 = i  BY <1>1
  <2> QED  BY <2>2, <2>3, <1>2
<1>5. b - a = Len(x)  BY <1>1
<1>6. BytesOf(C, a, b) = [i \in 1..Len(x) |-> x[i]]
  <2> HIDE DEF b
  <2> QED  BY <1>4, <1>5 DEF BytesOf
<1>7. BytesOf(C, a, b) = x  BY <1>1, <1>6
<1>8. ArchivedBytes(C, a, b) = BytesOf(C, a, b)  BY <1>1, <1>3, SliceIsArchived
<1> QED  BY <1>7, <1>8

\* An empty slice is archived wherever it lies, as the empty byte string.
LEMMA EmptySlice ==
  ASSUME NEW C, NEW a \in Nat, NEW x \in Blobs, Len(x) = 0
  PROVE  ArchivedBytes(C, a, a) = x
<1>1. a..(a - 1) = {} /\ 1..(a - a) = {}  OBVIOUS
<1>2. ArchivedBytes(C, a, a) = BytesOf(C, a, a)  BY <1>1 DEF ArchivedBytes
<1>3. x = [i \in 1..Len(x) |-> x[i]] /\ 1..Len(x) = {}  BY BlobIsSequence
<1>4. BytesOf(C, a, a) = [i \in 1..(a - a) |-> ByteAt(C, a + i - 1)]  BY DEF BytesOf
<1>5. BytesOf(C, a, a) = x  BY <1>1, <1>3, <1>4
<1> QED  BY <1>2, <1>5

\* Tiling rows pass every check of a download.
LEMMA TilesVerify ==
  ASSUME NEW C, NEW n \in Nat, Tiles(C, n)
  PROVE  ArchiveVerifies(C, n, Sha256(Whole(C, n)))
<1>1. Complete(C, n)  BY TilesComplete
<1>2. \A c \in C : RowIntact(c)  BY DEF Tiles
<1> QED  BY <1>1, <1>2 DEF ArchiveVerifies

\* The archive is its bytes below n followed by the others.
LEMMA WholeGrows ==
  ASSUME NEW C, NEW k \in 0..MaxBytes, Tiles(C, k), NEW n \in Nat, n < k
  PROVE  \E piece \in Blobs :
           /\ Whole(C, k) = Whole(C, n) \o piece
           /\ Len(piece) = k - n
           /\ piece # <<>>
<1>1. k \in Nat /\ n \in 0..k /\ k \in 0..k  BY MaxBytesAssumption
<1> DEFINE y     == Whole(C, k)
           x     == Whole(C, n)
           piece == SubSeq(y, n + 1, k)
<1>2. /\ y \in Blobs /\ Len(y) = k /\ y \in Seq(Byte)
      /\ \A i \in 1..k : y[i] = ByteAt(C, i - 1)
  BY <1>1, WholeIsBlob, BlobIsSequence
<1>3. /\ x \in Blobs /\ Len(x) = n /\ x \in Seq(Byte)
      /\ \A i \in 1..n : x[i] = ByteAt(C, i - 1)
  BY <1>1, WholeIsBlob, BlobIsSequence
<1> HIDE DEF x, y
<1>4. piece \in Blobs /\ Len(piece) = k - n /\ \A i \in 1..(k - n) : piece[i] = y[n + i]
  BY <1>1, <1>2, SliceIsBlob
<1>5. piece \in Seq(Byte)  BY <1>4, BlobIsSequence
<1> HIDE DEF piece
<1> DEFINE z == x \o piece
<1>6. /\ z \in Seq(Byte) /\ Len(z) = Len(x) + Len(piece)
      /\ \A i \in 1..(Len(x) + Len(piece)) : z[i] = IF i <= Len(x) THEN x[i]
                                                    ELSE piece[i - Len(x)]
  BY <1>3, <1>5, ConcatProperties
<1> HIDE DEF z
<1>7. Len(x) + Len(piece) = k  BY <1>1, <1>3, <1>4
<1>8. y = z
  <2>1. ASSUME NEW i \in 1..k  PROVE z[i] = y[i]
    <3>1. CASE i <= n
      <4>1. i \in 1..n  BY <3>1, <1>1
      <4> QED  BY <4>1, <3>1, <1>2, <1>3, <1>6, <1>7
    <3>2. CASE ~(i <= n)
      <4>1. i - n \in 1..(k - n) /\ n + (i - n) = i  BY <3>2, <1>1
      <4> QED  BY <4>1, <3>2, <1>3, <1>4, <1>6, <1>7
    <3> QED  BY <3>1, <3>2
  <2> QED  BY <2>1, <1>2, <1>6, <1>7, SeqEqual
<1>9. piece # <<>>
  <2>1. Len(<<>>) = 0  OBVIOUS
  <2> QED  BY <2>1, <1>1, <1>4
<1> QED  BY <1>4, <1>8, <1>9 DEF x, y, z

-------------------------------------------------------------------------------
(***************************************************************************)
(* Layouts: how many rows there are, and where they begin and end.         *)
(***************************************************************************)
\* A layout has as many spans as there are rows.
LEMMA LayoutCounts ==
  ASSUME NEW C, NEW n \in Nat, Tiles(C, n)
  PROVE  Cardinality(Layout(C)) = Cardinality(C) /\ Cardinality(C) \in Nat
<1> DEFINE f == [c \in C |-> <<c.start_offset, c.end_offset, c.sha256>>]
<1>1. IsFiniteSet(C) /\ Cardinality(C) \in Nat  BY TilesFinite, FS_CardinalityType
<1>2. \A c, d \in C : f[c] = f[d] => c = d
  <2> SUFFICES ASSUME NEW c \in C, NEW d \in C, c # d  PROVE f[c] # f[d]
    OBVIOUS
  <2>1. /\ c.start_offset \in Nat /\ c.end_offset \in Nat /\ c.start_offset < c.end_offset
        /\ d.start_offset \in Nat /\ d.end_offset \in Nat /\ d.start_offset < d.end_offset
        /\ c.end_offset <= d.start_offset \/ d.end_offset <= c.start_offset
    BY DEF Tiles, ChunkRow
  <2> QED  BY <2>1
<1>3. f \in Surjection(C, Layout(C))
  BY DEF Surjection, Layout
<1>4. f \in Injection(C, Layout(C))
  BY <1>2, <1>3 DEF Surjection, Injection, IsInjective
<1> QED  BY <1>1, <1>3, <1>4, FS_Surjection

\* Rows of the same layout have the same spans.
LEMMA LayoutSpans ==
  ASSUME NEW C, NEW D, Layout(C) = Layout(D)
  PROVE  Spans(C) = Spans(D)
<1>1. \A c \in C : \E d \in D : c.start_offset = d.start_offset /\ c.end_offset = d.end_offset
  <2> TAKE c \in C
  <2>1. <<c.start_offset, c.end_offset, c.sha256>> \in Layout(D)  BY DEF Layout
  <2>2. PICK d \in D : <<c.start_offset, c.end_offset, c.sha256>>
                         = <<d.start_offset, d.end_offset, d.sha256>>
    BY <2>1 DEF Layout
  <2> QED  BY <2>2
<1>2. \A d \in D : \E c \in C : c.start_offset = d.start_offset /\ c.end_offset = d.end_offset
  <2> TAKE d \in D
  <2>1. <<d.start_offset, d.end_offset, d.sha256>> \in Layout(C)  BY DEF Layout
  <2>2. PICK c \in C : <<d.start_offset, d.end_offset, d.sha256>>
                         = <<c.start_offset, c.end_offset, c.sha256>>
    BY <2>1 DEF Layout
  <2> QED  BY <2>2
<1> QED  BY <1>1, <1>2 DEF Spans

\* Compaction leaves exactly the planned spans.
LEMMA RechunkedSpans ==
  ASSUME NEW buffer \in Blobs, NEW target \in Nat \ {0}
  PROVE  Spans(Rechunked(buffer, Len(buffer), target)) = PlannedSpans(Len(buffer), target)
<1> DEFINE total == Len(buffer)
           Row(span) == RowOf(span[1], SubSeq(buffer, span[1] + 1, span[2]))
<1>1. total \in Nat  BY BlobIsSequence, MaxBytesAssumption
<1>2. ASSUME NEW span \in PlannedSpans(total, target)
      PROVE  Row(span).start_offset = span[1] /\ Row(span).end_offset = span[2]
             /\ span = <<span[1], span[2]>>
  <2>1. PICK off \in SpanStarts(total, target) : span = <<off, SpanEnd(off, total, target)>>
    BY DEF PlannedSpans
  <2>2. off \in Nat /\ off < total  BY <1>1 DEF SpanStarts
  <2> DEFINE end == SpanEnd(off, total, target)
  <2>3. end \in Nat /\ off < end /\ end <= total  BY <1>1, <2>2, PlannedSpan
  <2> HIDE DEF end
  <2>4. Len(SubSeq(buffer, off + 1, end)) = end - off  BY <2>2, <2>3, SliceIsBlob
  <2>5. span[1] = off /\ span[2] = end /\ span = <<off, end>>  BY <2>1 DEF end
  <2> QED  BY <2>2, <2>3, <2>4, <2>5 DEF RowOf
<1>3. \A c \in Rechunked(buffer, total, target) :
        \E span \in PlannedSpans(total, target) : c = Row(span)
  BY DEF Rechunked
<1>4. \A span \in PlannedSpans(total, target) : Row(span) \in Rechunked(buffer, total, target)
  BY DEF Rechunked
<1> HIDE DEF Row, total
<1>5. \A c \in Rechunked(buffer, total, target) :
        <<c.start_offset, c.end_offset>> \in PlannedSpans(total, target)
  BY <1>2, <1>3
<1>6. ASSUME NEW span \in PlannedSpans(total, target)
      PROVE  span \in Spans(Rechunked(buffer, total, target))
  BY <1>2, <1>4 DEF Spans
<1> QED  BY <1>5, <1>6 DEF Spans, total
-------------------------------------------------------------------------------
(***************************************************************************)
(* The common prefix of two byte strings.                                  *)
(***************************************************************************)
\* A set of naturals has a least element.
LEMMA LeastNatural ==
  ASSUME NEW T, T \subseteq Nat, T # {}
  PROVE  \E n \in T : \A m \in T : n <= m
<1> DEFINE R == OpToRel(<, Nat)
<1>1. \A m, n \in Nat : m < n => <<m, n>> \in R  BY DEF OpToRel
<1>2. IsWellFoundedOn(R, Nat)  BY NatLessThanWellFounded
<1>3. PICK n \in T : \A m \in T : <<m, n>> \notin R  BY <1>2, WFMin
<1> HIDE DEF R
<1>4. \A m \in T : m \in Nat /\ n \in Nat /\ ~(m < n)  BY <1>1, <1>3
<1> QED  BY <1>4

\* The smaller of two numbers is one of them and no larger than either.
LEMMA MinOfTwo ==
  ASSUME NEW a \in Nat, NEW b \in Nat
  PROVE  Min({a, b}) \in {a, b} /\ Min({a, b}) <= a /\ Min({a, b}) <= b
BY DEF Min

\* Two byte strings that agree on their first n bytes and then differ, or where one
\* ends, have n bytes in common.
LEMMA PrefixLength ==
  ASSUME NEW x, NEW y, NEW n \in Nat,
         Len(x) \in Nat, Len(y) \in Nat, n <= Len(x), n <= Len(y),
         \A i \in 1..n : x[i] = y[i],
         n < Len(x) /\ n < Len(y) => x[n + 1] # y[n + 1]
  PROVE  CommonPrefix(x, y) = n
<1> DEFINE m == Min({Len(x), Len(y)})
           A == {k \in 0..m : \A i \in 1..k : x[i] = y[i]}
<1>1. m \in {Len(x), Len(y)} /\ m <= Len(x) /\ m <= Len(y)  BY MinOfTwo
<1>2. n \in A  BY <1>1
<1>3. ASSUME NEW k \in A  PROVE k \in Nat /\ n >= k
  <2>1. k \in Nat /\ k <= m /\ \A i \in 1..k : x[i] = y[i]  BY <1>1
  <2>2. CASE k > n
    <3>1. n < Len(x) /\ n < Len(y) /\ n + 1 \in 1..k  BY <1>1, <2>1, <2>2
    <3> QED  BY <2>1, <3>1
  <2> QED  BY <2>1, <2>2
<1>4. Max(A) \in A /\ \A k \in A : Max(A) >= k  BY <1>2, <1>3 DEF Max
<1> HIDE DEF A
<1>5. ASSUME NEW k \in A, k >= n  PROVE k = n
  <2>1. k \in Nat /\ n >= k  BY <1>3
  <2> QED  BY <1>5, <2>1
<1>6. Max(A) = n  BY <1>2, <1>4, <1>5
<1> QED  BY <1>6 DEF CommonPrefix, A

\* The common prefix is the part in which two byte strings agree, and ends where
\* they differ or where one of them ends.
LEMMA PrefixIsCommon ==
  ASSUME NEW x, NEW y, Len(x) \in Nat, Len(y) \in Nat
  PROVE  LET n == CommonPrefix(x, y)
         IN  /\ n \in Nat /\ n <= Len(x) /\ n <= Len(y)
             /\ \A i \in 1..n : x[i] = y[i]
             /\ n < Len(x) /\ n < Len(y) => x[n + 1] # y[n + 1]
<1> DEFINE m == Min({Len(x), Len(y)})
           Ends == {k \in 0..m : k < m => x[k + 1] # y[k + 1]}
<1>1. m \in {Len(x), Len(y)} /\ m <= Len(x) /\ m <= Len(y)  BY MinOfTwo
<1>2. m \in Ends /\ Ends \subseteq Nat  BY <1>1
<1>3. PICK n \in Ends : \A k \in Ends : n <= k  BY <1>2, LeastNatural
<1> HIDE DEF m
<1>4. n \in Nat /\ m \in Nat /\ n <= m /\ (n < m => x[n + 1] # y[n + 1])  BY <1>1
<1>5. ASSUME NEW i \in 1..n  PROVE x[i] = y[i]
  <2>1. i - 1 \in 0..m /\ i - 1 < n /\ i - 1 < m /\ (i - 1) + 1 = i  BY <1>4
  <2>2. i - 1 \notin Ends  BY <1>3, <1>4, <2>1
  <2> QED  BY <2>1, <2>2
<1>6. n <= Len(x) /\ n <= Len(y) /\ (n < Len(x) /\ n < Len(y) => n < m)  BY <1>1, <1>4
<1>7. CommonPrefix(x, y) = n  BY <1>4, <1>5, <1>6, PrefixLength
<1> QED  BY <1>4, <1>5, <1>6, <1>7
==============================================================================
