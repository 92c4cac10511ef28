--------------------------- MODULE StreamWalk_proofs ---------------------------
(***************************************************************************)
(* The walk over two streams answers with the common prefix and the first  *)
(* difference of the two packages, whatever the packages and the blocks    *)
(* their archives are cut into.                                            *)
(***************************************************************************)
EXTENDS StreamWalk, ChunkLayout_proofs

(***************************************************************************)
(* The blocks of a stream.                                                 *)
(***************************************************************************)
\* A block is as long as its span, and not empty.
LEMMA BlockSpan ==
  ASSUME NEW S, IsStream(S), NEW i \in 1..Len(S)
  PROVE  /\ Len(S) \in Nat /\ S[i] \in ChunkRow
         /\ S[i].start_offset \in Nat /\ S[i].end_offset \in Nat
         /\ Len(S[i].data) \in Nat /\ Len(S[i].data) > 0
         /\ S[i].end_offset = S[i].start_offset + Len(S[i].data)
         /\ i = 1 => S[i].start_offset = 0
         /\ i > 1 => S[i].start_offset = S[i - 1].end_offset
<1>1. S \in Seq(ChunkRow) /\ S[i].data # <<>>  BY DEF IsStream
<1>2. Len(S) \in Nat /\ S[i] \in ChunkRow  BY <1>1, LenProperties, ElementOfSeq
<1>3. S[i].data \in Blobs /\ S[i].start_offset \in Nat /\ S[i].end_offset \in Nat
  BY <1>2 DEF ChunkRow
<1>4. S[i].data \in Seq(Byte)  BY <1>3, BlobIsSequence
<1>5. Len(S[i].data) \in Nat /\ Len(S[i].data) > 0  BY <1>1, <1>4, EmptySeq, LenProperties
<1> QED  BY <1>2, <1>3, <1>5 DEF IsStream

\* A block ends before a later one starts.
LEMMA BlocksAscend ==
  ASSUME NEW S, IsStream(S)
  PROVE  \A j \in 1..Len(S) : \A i \in 1..(j - 1) : S[i].end_offset <= S[j].start_offset
<1> DEFINE Bad == {j \in 1..Len(S) : \E i \in 1..(j - 1) : ~(S[i].end_offset <= S[j].start_offset)}
<1>0. Len(S) \in Nat  BY LenProperties DEF IsStream
<1>1. SUFFICES ASSUME Bad # {} PROVE FALSE  OBVIOUS
<1>2. Bad \in SUBSET Nat  BY <1>0
<1>3. PICK j \in Bad : \A k \in Bad : j <= k  BY <1>1, <1>2, LeastNatural
<1>4. PICK i \in 1..(j - 1) : ~(S[i].end_offset <= S[j].start_offset)  BY <1>3
<1>5. /\ j \in 1..Len(S) /\ j - 1 \in 1..Len(S) /\ i \in 1..Len(S)
      /\ j > 1 /\ i <= j - 1 /\ ~(j <= j - 1)
  BY <1>0, <1>3, <1>4
<1>6. j - 1 \notin Bad  BY <1>3, <1>5
<1>7. S[j].start_offset = S[j - 1].end_offset  BY <1>5, BlockSpan
<1>8. S[j - 1].start_offset <= S[j - 1].end_offset /\ S[j - 1].start_offset \in Nat
      /\ S[j - 1].end_offset \in Nat /\ S[i].end_offset \in Nat
  BY <1>5, BlockSpan
<1>9. CASE i = j - 1  BY <1>4, <1>7, <1>8, <1>9
<1>10. CASE i # j - 1
  <2>1. i \in 1..(j - 1 - 1)  BY <1>4, <1>5, <1>10
  <2>2. S[i].end_offset <= S[j - 1].start_offset  BY <1>5, <1>6, <2>1
  <2> QED  BY <1>4, <1>7, <1>8, <2>2
<1> QED  BY <1>9, <1>10

\* No block reaches beyond the end of its stream.
LEMMA BlocksEnd ==
  ASSUME NEW S, IsStream(S)
  PROVE  /\ EndOfStream(S) \in Nat
         /\ \A i \in 1..Len(S) : S[i].end_offset <= EndOfStream(S)
         /\ \A i \in 1..Len(S) : i = Len(S) => S[i].end_offset = EndOfStream(S)
<1>1. S \in Seq(ChunkRow) /\ Len(S) \in Nat  BY LenProperties DEF IsStream
<1>2. CASE S = <<>>
  BY <1>1, <1>2, EmptySeq DEF EndOfStream
<1>3. CASE S # <<>>
  <2>1. Len(S) \in 1..Len(S)  BY <1>1, <1>3, EmptySeq
  <2>2. EndOfStream(S) = S[Len(S)].end_offset  BY <1>3 DEF EndOfStream
  <2>3. EndOfStream(S) \in Nat /\ S[Len(S)].start_offset <= EndOfStream(S)
        /\ S[Len(S)].start_offset \in Nat
    BY <2>1, <2>2, BlockSpan
  <2>4. ASSUME NEW i \in 1..Len(S), i # Len(S)  PROVE S[i].end_offset <= EndOfStream(S)
    <3>1. i \in 1..(Len(S) - 1)  BY <1>1, <2>4
    <3>2. S[i].end_offset <= S[Len(S)].start_offset  BY <2>1, <3>1, BlocksAscend
    <3>3. S[i].end_offset \in Nat  BY BlockSpan
    <3> QED  BY <2>3, <3>2, <3>3
  <2> QED  BY <2>2, <2>3, <2>4
<1> QED  BY <1>2, <1>3

\* The content of a stream at a position inside a block is the block's byte.
LEMMA ContentInBlock ==
  ASSUME NEW S, IsStream(S), NEW i \in 1..Len(S), NEW k \in 1..Len(S[i].data)
  PROVE  /\ S[i].start_offset + k \in 1..EndOfStream(S)
         /\ Content(S)[S[i].start_offset + k] = S[i].data[k]
<1> DEFINE o == S[i].start_offset + k - 1
           C == Range(S)
           n == EndOfStream(S)
<1>1. /\ Len(S) \in Nat /\ S[i].start_offset \in Nat /\ Len(S[i].data) \in Nat
      /\ S[i].end_offset = S[i].start_offset + Len(S[i].data)
  BY BlockSpan
<1>2. n \in Nat /\ S[i].end_offset <= n  BY BlocksEnd
<1>3. o \in Nat /\ o + 1 \in 1..n /\ Covers(S[i], o)  BY <1>1, <1>2 DEF Covers
<1>4. C = {S[j] : j \in 1..Len(S)}
  <2>1. DOMAIN S = 1..Len(S)  BY LenProperties DEF IsStream
  <2> QED  BY <2>1 DEF Range
<1>5. ASSUME NEW c \in C, Covers(c, o)  PROVE c = S[i]
  <2>1. PICK j \in 1..Len(S) : c = S[j]  BY <1>4
  <2>2. S[j].start_offset \in Nat /\ S[j].end_offset \in Nat  BY BlockSpan
  <2>3. CASE j < i
    <3>1. j \in 1..(i - 1)  BY <1>1, <2>3
    <3>2. S[j].end_offset <= S[i].start_offset  BY <3>1, BlocksAscend
    <3> QED  BY <1>1, <1>3, <1>5, <2>1, <2>2, <3>2 DEF Covers
  <2>4. CASE i < j
    <3>1. i \in 1..(j - 1)  BY <1>1, <2>4
    <3>2. S[i].end_offset <= S[j].start_offset  BY <3>1, BlocksAscend
    <3> QED  BY <1>1, <1>3, <1>5, <2>1, <2>2, <3>2 DEF Covers
  <2> QED  BY <1>1, <2>1, <2>3, <2>4
<1>6. ByteAt(C, o) = S[i].data[k]
  <2> DEFINE d == CHOOSE e \in C : Covers(e, o)
  <2>1. S[i] \in C  BY <1>4
  <2>2. d \in C /\ Covers(d, o)  BY <1>3, <2>1
  <2>3. d = S[i]  BY <1>5, <2>2
  <2>4. o - S[i].start_offset + 1 = k  BY <1>1
  <2> QED  BY <2>3, <2>4 DEF ByteAt
<1>7. Content(S) = [p \in 1..(n - 0) |-> ByteAt(C, 0 + p - 1)]  BY DEF Content, Whole, BytesOf
<1>8. S[i].start_offset + k \in 1..(n - 0) /\ 0 + (S[i].start_offset + k) - 1 = o
  BY <1>1, <1>2, <1>3
<1>9. Content(S)[S[i].start_offset + k] = ByteAt(C, 0 + (S[i].start_offset + k) - 1)
  BY <1>7, <1>8
<1> QED  BY <1>2, <1>6, <1>8, <1>9

\* The content of a stream is as long as the stream.
LEMMA ContentLength ==
  ASSUME NEW S, IsStream(S)
  PROVE  Len(Content(S)) = EndOfStream(S)
<1> DEFINE n == EndOfStream(S)
           T == {ByteAt(Range(S), 0 + p - 1) : p \in 1..n}
<1>1. n \in Nat /\ n - 0 = n  BY BlocksEnd
<1>2. Content(S) = [p \in 1..n |-> ByteAt(Range(S), 0 + p - 1)]
  BY <1>1 DEF Content, Whole, BytesOf
<1>3. Content(S) \in [1..n -> T]  BY <1>2
<1>4. Content(S) \in Seq(T)  BY <1>1, <1>3, SeqDef
<1>5. DOMAIN Content(S) = 1..Len(Content(S)) /\ Len(Content(S)) \in Nat
  BY <1>4, LenProperties
<1>6. DOMAIN Content(S) = 1..n  BY <1>2
<1> QED  BY <1>1, <1>5, <1>6

(***************************************************************************)
(* The walk.                                                               *)
(***************************************************************************)
\* The bytes before `offset` are equal.
PrefixAgrees == \A i \in 1..offset : Content(left)[i] = Content(right)[i]

Inv == WalkTypeOK /\ CursorsInStep /\ PrefixAgrees /\ AnswerIsFirstDifference

\* One side of the walk, as far as WalkTypeOK and CursorsInStep go.
Stands(S, i, p, o) ==
  /\ i \in 1..(Len(S) + 1)
  /\ p \in Nat /\ (IF i <= Len(S) THEN p < Len(S[i].data) ELSE p = 0)
  /\ Position(S, i, p) = o

\* A side that consumes n bytes of its block stands n bytes further.
LEMMA SideAdvances ==
  ASSUME NEW S, IsStream(S), NEW i, NEW p, NEW o \in Nat, Stands(S, i, p, o), i <= Len(S),
         NEW n \in Nat, n > 0, p + n <= Len(S[i].data),
         NEW j, NEW q,
         IF p + n = Len(S[i].data) THEN j = i + 1 /\ q = 0 ELSE j = i /\ q = p + n
  PROVE  Stands(S, j, q, o + n)
<1>0. Len(S) \in Nat /\ i \in 1..Len(S)  BY LenProperties DEF IsStream, Stands
<1>1. /\ S[i].start_offset \in Nat /\ S[i].end_offset \in Nat
      /\ Len(S[i].data) \in Nat
      /\ S[i].end_offset = S[i].start_offset + Len(S[i].data)
  BY <1>0, BlockSpan
<1>2. S[i].start_offset + p = o /\ p \in Nat /\ p < Len(S[i].data)
  BY <1>0 DEF Stands, Position
<1>3. CASE p + n = Len(S[i].data)
  <2>1. j = i + 1 /\ q = 0 /\ o + n = S[i].end_offset  BY <1>1, <1>2, <1>3
  <2>2. CASE i = Len(S)
    <3>1. S[i].end_offset = EndOfStream(S)  BY <1>0, <2>2, BlocksEnd
    <3> QED  BY <1>0, <2>1, <2>2, <3>1 DEF Stands, Position
  <2>3. CASE i < Len(S)
    <3>1. j \in 1..Len(S) /\ j > 1 /\ j - 1 = i  BY <1>0, <2>1, <2>3
    <3>2. S[j].start_offset = S[i].end_offset /\ Len(S[j].data) > 0 /\ S[j].start_offset \in Nat
      BY <3>1, BlockSpan
    <3> QED  BY <1>0, <1>1, <2>1, <3>1, <3>2 DEF Stands, Position
  <2> QED  BY <1>0, <2>2, <2>3
<1>4. CASE p + n # Len(S[i].data)
  <2>1. j = i /\ q = p + n /\ q < Len(S[i].data)  BY <1>1, <1>2, <1>4
  <2> QED  BY <1>0, <1>1, <1>2, <2>1 DEF Stands, Position
<1> QED  BY <1>3, <1>4

\* The bytes ahead in a block are those of the content behind `o`.
LEMMA SideReads ==
  ASSUME NEW S, IsStream(S), NEW i, NEW p, NEW o \in Nat, Stands(S, i, p, o), i <= Len(S),
         NEW k \in Nat, k > 0, p + k <= Len(S[i].data)
  PROVE  /\ o + k <= EndOfStream(S)
         /\ Content(S)[o + k] = S[i].data[p + k]
<1>0. Len(S) \in Nat /\ i \in 1..Len(S)  BY LenProperties DEF IsStream, Stands
<1>1. S[i].start_offset \in Nat /\ Len(S[i].data) \in Nat  BY <1>0, BlockSpan
<1>2. S[i].start_offset + p = o /\ p \in Nat  BY <1>0 DEF Stands, Position
<1>3. p + k \in 1..Len(S[i].data) /\ S[i].start_offset + (p + k) = o + k  BY <1>1, <1>2
<1>4. EndOfStream(S) \in Nat  BY BlocksEnd
<1> QED  BY <1>0, <1>3, <1>4, ContentInBlock

\* A side stands before its end, or at it if it has no block left.
LEMMA SidePlace ==
  ASSUME NEW S, IsStream(S), NEW i, NEW p, NEW o \in Nat, Stands(S, i, p, o)
  PROVE  /\ EndOfStream(S) \in Nat /\ Len(Content(S)) = EndOfStream(S)
         /\ i <= Len(S) => o < EndOfStream(S)
         /\ i > Len(S) => o = EndOfStream(S)
<1>0. Len(S) \in Nat /\ i \in 1..(Len(S) + 1)  BY LenProperties DEF IsStream, Stands
<1>1. EndOfStream(S) \in Nat /\ Len(Content(S)) = EndOfStream(S)  BY BlocksEnd, ContentLength
<1>2. CASE i <= Len(S)
  <2>1. p + 1 <= Len(S[i].data) /\ Len(S[i].data) \in Nat /\ p \in Nat
    BY <1>0, <1>2, BlockSpan DEF Stands
  <2>2. o + 1 <= EndOfStream(S)  BY <1>2, <2>1, SideReads
  <2> QED  BY <1>0, <1>1, <1>2, <2>2
<1>3. CASE i > Len(S)
  <2>1. ~(i <= Len(S))  BY <1>0, <1>3
  <2> QED  BY <1>1, <2>1 DEF Stands, Position
<1> QED  BY <1>0, <1>2, <1>3
\* A state of the walk, side by side.
LEMMA BothStand ==
  ASSUME WalkTypeOK, CursorsInStep
  PROVE  /\ IsStream(left) /\ IsStream(right)
         /\ Stands(left, li, lp, offset) /\ Stands(right, ri, rp, offset)
<1>1. IsStream(left) /\ IsStream(right)  BY StreamsAssumption DEF WalkTypeOK
<1> QED  BY <1>1 DEF WalkTypeOK, CursorsInStep, Stands

\* The shorter remainder has a byte and fits both blocks.
LEMMA SharedRemainder ==
  ASSUME WalkTypeOK, CursorsInStep, BothHaveBlocks
  PROVE  /\ Shared \in Nat /\ Shared > 0
         /\ lp + Shared <= Len(left[li].data) /\ rp + Shared <= Len(right[ri].data)
<1>1. IsStream(left) /\ IsStream(right)  BY BothStand
<1>2. li \in 1..Len(left) /\ ri \in 1..Len(right)
  BY <1>1, LenProperties DEF WalkTypeOK, BothHaveBlocks, IsStream
<1>3. /\ Len(left[li].data) \in Nat /\ lp \in Nat /\ lp < Len(left[li].data)
      /\ Len(right[ri].data) \in Nat /\ rp \in Nat /\ rp < Len(right[ri].data)
  BY <1>1, <1>2, BlockSpan DEF WalkTypeOK, BothHaveBlocks
<1> DEFINE a == Len(left[li].data) - lp
           b == Len(right[ri].data) - rp
<1>4. a \in Nat /\ a > 0 /\ b \in Nat /\ b > 0  BY <1>3
<1>5. Min({a, b}) \in {a, b} /\ Min({a, b}) <= a /\ Min({a, b}) <= b
  BY <1>4, MinOfTwo
<1>6. Shared = Min({a, b})  BY DEF Shared
<1> QED  BY <1>3, <1>4, <1>5, <1>6

\* What the loop compares are the bytes of the two packages behind `offset`.
LEMMA SharedBytes ==
  ASSUME WalkTypeOK, CursorsInStep, BothHaveBlocks, NEW k \in 1..Shared
  PROVE  /\ offset + k <= EndOfStream(left) /\ offset + k <= EndOfStream(right)
         /\ Content(left)[offset + k] = Left(k) /\ Content(right)[offset + k] = Right(k)
<1>1. Shared \in Nat /\ k \in Nat /\ k > 0 /\ k <= Shared  BY SharedRemainder
<1>2. /\ li <= Len(left) /\ ri <= Len(right) /\ offset \in Nat
      /\ Len(left[li].data) \in Nat /\ Len(right[ri].data) \in Nat
      /\ lp \in Nat /\ rp \in Nat
  <2>1. IsStream(left) /\ IsStream(right)  BY BothStand
  <2>2. li \in 1..Len(left) /\ ri \in 1..Len(right)
    BY <2>1, LenProperties DEF WalkTypeOK, BothHaveBlocks, IsStream
  <2> QED  BY <2>1, <2>2, BlockSpan DEF WalkTypeOK, BothHaveBlocks
<1>3. lp + k <= Len(left[li].data) /\ rp + k <= Len(right[ri].data)
  BY <1>1, <1>2, SharedRemainder
<1>4. IsStream(left) /\ Stands(left, li, lp, offset) /\ li <= Len(left)  BY <1>2, BothStand
<1>5. IsStream(right) /\ Stands(right, ri, rp, offset) /\ ri <= Len(right)  BY <1>2, BothStand
<1>6. offset + k <= EndOfStream(left) /\ Content(left)[offset + k] = left[li].data[lp + k]
  <2>1. offset \in Nat /\ k \in Nat /\ k > 0 /\ lp + k <= Len(left[li].data)
    BY <1>1, <1>2, <1>3
  <2> QED  BY <1>4, <2>1, SideReads
<1>7. offset + k <= EndOfStream(right) /\ Content(right)[offset + k] = right[ri].data[rp + k]
  <2>1. offset \in Nat /\ k \in Nat /\ k > 0 /\ rp + k <= Len(right[ri].data)
    BY <1>1, <1>2, <1>3
  <2> QED  BY <1>5, <2>1, SideReads
<1> QED  BY <1>6, <1>7 DEF Left, Right

\* The walk starts at the first byte of both packages.
LEMMA InvInit == Init => Inv
<1> SUFFICES ASSUME Init PROVE Inv  OBVIOUS
<1>1. IsStream(left) /\ IsStream(right)  BY StreamsAssumption DEF Init
<1>2. ASSUME NEW S, IsStream(S)  PROVE Stands(S, 1, 0, 0)
  <2>1. Len(S) \in Nat  BY <1>2, LenProperties DEF IsStream
  <2>2. CASE Len(S) = 0
    <3>1. S = <<>>  BY <1>2, <2>2, EmptySeq DEF IsStream
    <3> QED  BY <2>1, <2>2, <3>1 DEF Stands, Position, EndOfStream
  <2>3. CASE Len(S) > 0
    <3>1. 1 \in 1..Len(S)  BY <2>1, <2>3
    <3>2. S[1].start_offset = 0 /\ Len(S[1].data) > 0  BY <1>2, <3>1, BlockSpan
    <3> QED  BY <2>1, <2>3, <3>2 DEF Stands, Position
  <2> QED  BY <2>1, <2>2, <2>3
<1>3. Stands(left, li, lp, offset) /\ Stands(right, ri, rp, offset)  BY <1>1, <1>2 DEF Init
<1>4. WalkTypeOK /\ CursorsInStep  BY <1>3 DEF Init, Stands, WalkTypeOK, CursorsInStep
<1> QED  BY <1>4 DEF Init, Inv, PrefixAgrees, AnswerIsFirstDifference

\* A byte that differs: everything before it is equal.
LEMMA DifferKeeps == Inv /\ Differ => Inv'
<1> SUFFICES ASSUME Inv, Differ PROVE Inv'  OBVIOUS
<1>a. WalkTypeOK /\ CursorsInStep /\ PrefixAgrees /\ BothHaveBlocks /\ SegmentsDiffer
  BY DEF Inv, Differ
<1>b. UNCHANGED <<left, right, li, ri, lp, rp, offset>>  BY DEF Differ
<1> DEFINE First(i) == Left(i) # Right(i) /\ \A j \in 1..(i - 1) : Left(j) = Right(j)
           x == Content(left)
           y == Content(right)
<1>1. Shared \in Nat  BY <1>a, SharedRemainder
<1>2. \E i \in 1..Shared : First(i)
  <2> DEFINE D == {i \in 1..Shared : Left(i) # Right(i)}
  <2>1. D \subseteq Nat /\ D # {}  BY <1>a, <1>1 DEF SegmentsDiffer
  <2>2. PICK i \in D : \A j \in D : i <= j  BY <2>1, LeastNatural
  <2>3. \A j \in 1..(i - 1) : j \in 1..Shared /\ ~(i <= j)  BY <1>1, <2>2
  <2> QED  BY <2>2, <2>3
<1>3. PICK f \in 1..Shared :
        First(f) /\ answer' = Answer(offset + f - 1, offset + f - 1)
  <2> DEFINE g == CHOOSE i \in 1..Shared : First(i)
  <2>1. g \in 1..Shared /\ First(g)  BY <1>2
  <2>2. answer' = Answer(offset + g - 1, offset + g - 1)  BY DEF Differ
  <2> QED  BY <2>1, <2>2
<1>4. offset \in Nat /\ f \in Nat /\ f > 0  BY <1>a, <1>1 DEF WalkTypeOK
<1> DEFINE n == offset + f - 1
<1>5. n \in Nat /\ n + 1 = offset + f  BY <1>4
<1>6. /\ IsStream(left) /\ IsStream(right)
      /\ EndOfStream(left) \in Nat /\ EndOfStream(right) \in Nat
      /\ Len(x) = EndOfStream(left) /\ Len(y) = EndOfStream(right)
  BY <1>a, BothStand, BlocksEnd, ContentLength
<1>7. n + 1 <= Len(x) /\ n + 1 <= Len(y) /\ x[n + 1] # y[n + 1]
  <2>1. /\ offset + f <= EndOfStream(left) /\ offset + f <= EndOfStream(right)
        /\ x[offset + f] = Left(f) /\ y[offset + f] = Right(f)
    BY <1>a, SharedBytes
  <2>2. Left(f) # Right(f)  BY <1>3
  <2> QED  BY <1>5, <1>6, <2>1, <2>2
<1>8. ASSUME NEW i \in 1..n  PROVE x[i] = y[i]
  <2>1. CASE i <= offset  BY <1>4, <1>a, <2>1 DEF PrefixAgrees
  <2>2. CASE i > offset
    <3>1. i - offset \in 1..(f - 1) /\ i - offset \in 1..Shared /\ offset + (i - offset) = i
      BY <1>1, <1>4, <2>2
    <3>2. Left(i - offset) = Right(i - offset)  BY <1>3, <3>1
    <3>3. x[offset + (i - offset)] = Left(i - offset) /\ y[offset + (i - offset)] = Right(i - offset)
      BY <1>a, <3>1, SharedBytes
    <3> QED  BY <3>1, <3>2, <3>3
  <2> QED  BY <1>4, <2>1, <2>2
<1>9. CommonPrefix(x, y) = n  BY <1>5, <1>6, <1>7, <1>8, PrefixLength
<1>10. FirstDifference(x, y) = n
  BY <1>5, <1>6, <1>7, <1>9 DEF FirstDifference
<1>11. AnswerIsFirstDifference'
  <2>1. answer' = Answer(n, n)  BY <1>3
  <2>2. Content(left)' = x /\ Content(right)' = y  BY <1>b DEF Content, EndOfStream
  <2> QED  BY <1>9, <1>10, <2>1, <2>2 DEF AnswerIsFirstDifference
<1>12. WalkTypeOK'
  <2>1. answer' \in [common_prefix_bytes : Nat, first_difference_offset : Nat \cup {None}]
    BY <1>3, <1>5 DEF Answer
  <2> QED  BY <1>a, <1>b, <2>1 DEF WalkTypeOK
<1>13. CursorsInStep' /\ PrefixAgrees'
  BY <1>a, <1>b DEF CursorsInStep, PrefixAgrees, Position, EndOfStream, Content
<1> QED  BY <1>11, <1>12, <1>13 DEF Inv

\* Equal segments: both sides consume as many bytes.
LEMMA AdvanceKeeps == Inv /\ Advance => Inv'
<1> SUFFICES ASSUME Inv, Advance PROVE Inv'  OBVIOUS
<1>a. WalkTypeOK /\ CursorsInStep /\ PrefixAgrees /\ BothHaveBlocks /\ ~SegmentsDiffer
  BY DEF Inv, Advance
<1>b. UNCHANGED <<left, right, answer>> /\ answer = None /\ offset' = offset + Shared
  BY DEF Advance
<1>1. /\ Shared \in Nat /\ Shared > 0 /\ offset \in Nat
      /\ lp + Shared <= Len(left[li].data) /\ rp + Shared <= Len(right[ri].data)
      /\ li <= Len(left) /\ ri <= Len(right)
  BY <1>a, SharedRemainder DEF WalkTypeOK, BothHaveBlocks
<1>2. Stands(left, li', lp', offset + Shared)
  <2>1. IsStream(left) /\ Stands(left, li, lp, offset)  BY <1>a, BothStand
  <2>2. IF lp + Shared = Len(left[li].data) THEN li' = li + 1 /\ lp' = 0
                                            ELSE li' = li /\ lp' = lp + Shared
    BY DEF Advance
  <2> QED  BY <1>1, <2>1, <2>2, SideAdvances
<1>3. Stands(right, ri', rp', offset + Shared)
  <2>1. IsStream(right) /\ Stands(right, ri, rp, offset)  BY <1>a, BothStand
  <2>2. IF rp + Shared = Len(right[ri].data) THEN ri' = ri + 1 /\ rp' = 0
                                             ELSE ri' = ri /\ rp' = rp + Shared
    BY DEF Advance
  <2> QED  BY <1>1, <2>1, <2>2, SideAdvances
<1>4. WalkTypeOK'
  <2>1. offset' \in Nat  BY <1>1, <1>b
  <2> QED  BY <1>a, <1>b, <1>2, <1>3, <2>1 DEF WalkTypeOK, Stands
<1>5. CursorsInStep'
  BY <1>b, <1>2, <1>3 DEF CursorsInStep, Stands, Position, EndOfStream
<1>6. ASSUME NEW i \in 1..(offset + Shared)  PROVE Content(left)[i] = Content(right)[i]
  <2>1. CASE i <= offset  BY <1>1, <1>a, <2>1 DEF PrefixAgrees
  <2>2. CASE i > offset
    <3>1. i - offset \in 1..Shared /\ offset + (i - offset) = i  BY <1>1, <2>2
    <3>2. Left(i - offset) = Right(i - offset)  BY <1>a, <3>1 DEF SegmentsDiffer
    <3> QED  BY <1>a, <3>1, <3>2, SharedBytes
  <2> QED  BY <1>1, <2>1, <2>2
<1>7. PrefixAgrees'  BY <1>b, <1>6 DEF PrefixAgrees, Content, EndOfStream
<1>8. AnswerIsFirstDifference'  BY <1>b DEF AnswerIsFirstDifference
<1> QED  BY <1>4, <1>5, <1>7, <1>8 DEF Inv

\* A side has ended: the packages are equal, or one is a prefix of the other.
LEMMA FinishKeeps == Inv /\ Finish => Inv'
<1> SUFFICES ASSUME Inv, Finish PROVE Inv'  OBVIOUS
<1>a. WalkTypeOK /\ CursorsInStep /\ PrefixAgrees /\ ~BothHaveBlocks  BY DEF Inv, Finish
<1>b. UNCHANGED <<left, right, li, ri, lp, rp, offset>>  BY DEF Finish
<1> DEFINE x == Content(left)
           y == Content(right)
<1>1. offset \in Nat /\ li \in 1..(Len(left) + 1) /\ ri \in 1..(Len(right) + 1)
      /\ Len(left) \in Nat /\ Len(right) \in Nat
  BY <1>a, BothStand, LenProperties DEF WalkTypeOK, IsStream
<1>2. /\ Len(x) \in Nat
      /\ li <= Len(left) => offset < Len(x)
      /\ li > Len(left) => offset = Len(x)
  BY <1>a, <1>1, BothStand, SidePlace
<1>3. /\ Len(y) \in Nat
      /\ ri <= Len(right) => offset < Len(y)
      /\ ri > Len(right) => offset = Len(y)
  BY <1>a, <1>1, BothStand, SidePlace
<1>4. li > Len(left) \/ ri > Len(right)  BY <1>1, <1>a DEF BothHaveBlocks
<1>5. CommonPrefix(x, y) = offset
  <2>1. \A i \in 1..offset : x[i] = y[i]  BY <1>a DEF PrefixAgrees
  <2>2. offset <= Len(x) /\ offset <= Len(y) /\ ~(offset < Len(x) /\ offset < Len(y))
    BY <1>1, <1>2, <1>3, <1>4
  <2> QED  BY <1>1, <1>2, <1>3, <2>1, <2>2, PrefixLength
<1>6. FirstDifference(x, y) = IF li > Len(left) /\ ri > Len(right) THEN None ELSE offset
  <2>1. (Len(x) = Len(y) /\ offset = Len(x)) <=> (li > Len(left) /\ ri > Len(right))
    BY <1>1, <1>2, <1>3, <1>4
  <2> QED  BY <1>5, <2>1 DEF FirstDifference
<1>7. answer' = Answer(CommonPrefix(x, y), FirstDifference(x, y))
  BY <1>5, <1>6 DEF Finish
<1>8. AnswerIsFirstDifference'
  <2>1. Content(left)' = x /\ Content(right)' = y  BY <1>b DEF Content, EndOfStream
  <2> QED  BY <1>7, <2>1 DEF AnswerIsFirstDifference
<1>9. WalkTypeOK'
  <2>1. answer' \in [common_prefix_bytes : Nat, first_difference_offset : Nat \cup {None}]
    BY <1>1, <1>5, <1>6, <1>7 DEF Answer
  <2> QED  BY <1>a, <1>b, <2>1 DEF WalkTypeOK
<1>10. CursorsInStep' /\ PrefixAgrees'
  BY <1>a, <1>b DEF CursorsInStep, PrefixAgrees, Position, EndOfStream, Content
<1> QED  BY <1>8, <1>9, <1>10 DEF Inv

\* The invariant of the walk.
LEMMA InvHolds == Spec => []Inv
<1>1. Inv /\ UNCHANGED vars => Inv'
  BY DEF vars, Inv, WalkTypeOK, CursorsInStep, PrefixAgrees, AnswerIsFirstDifference,
         Position, EndOfStream, Content
<1>2. Inv /\ [Next]_vars => Inv'  BY <1>1, DifferKeeps, AdvanceKeeps, FinishKeeps DEF Next
<1> QED  BY <1>2, InvInit, PTL DEF Spec

\* The two cursors of the walk stand at the same offset of their packages.
THEOREM WalkInStep == Spec => []CursorsInStep
<1>1. Inv => CursorsInStep  BY DEF Inv
<1> QED  BY <1>1, InvHolds, PTL

\* A comparison reports the common prefix and the first difference of the two
\* packages, whatever the archives and the blocks they are cut into.
THEOREM WalkFindsFirstDifference == Spec => []AnswerIsFirstDifference
<1>1. Inv => AnswerIsFirstDifference  BY DEF Inv
<1> QED  BY <1>1, InvHolds, PTL
==============================================================================
