------------------------------ MODULE StreamWalk ------------------------------
(***************************************************************************)
(* _streams_first_difference of app/service.py, the second pass of a       *)
(* comparison: the walk over the blocks of two archives that were cut      *)
(* differently, one iteration of its loop per step.                        *)
(*                                                                         *)
(* A stream is the sequence of an archive's verified chunk rows in offset  *)
(* order.  The walk itself looks at the data only; the rows' offsets say   *)
(* where in the package it should be.  Blocks and bytes are counted from   *)
(* 1, the positions lp, rp and offset from 0 as in the code.               *)
(***************************************************************************)
EXTENDS ChunkLayout

CONSTANT Streams        \* the archives that are compared

\* Consecutive rows without gap, each with the bytes of its span and not empty.
IsStream(S) ==
  /\ S \in Seq(ChunkRow)
  /\ \A i \in 1..Len(S) :
       /\ S[i].start_offset = IF i = 1 THEN 0 ELSE S[i - 1].end_offset
       /\ S[i].end_offset = S[i].start_offset + Len(S[i].data)
       /\ S[i].data # <<>>

ASSUME StreamsAssumption == \A S \in Streams : IsStream(S)

VARIABLES left, right,  \* the streams, never changed
          li, ri,       \* the current block of each side
          lp, rp,       \* consumed positions inside it
          offset,       \* the bytes found equal
          answer        \* what is returned, None while the loop runs

vars == <<left, right, li, ri, lp, rp, offset, answer>>

Answer(common, first) == [common_prefix_bytes |-> common, first_difference_offset |-> first]

Init ==
  /\ left \in Streams /\ right \in Streams
  /\ li = 1 /\ ri = 1 /\ lp = 0 /\ rp = 0
  /\ offset = 0
  /\ answer = None

-------------------------------------------------------------------------------
Left(i) == left[li].data[lp + i]
Right(i) == right[ri].data[rp + i]

BothHaveBlocks == li <= Len(left) /\ ri <= Len(right)

\* The length of the shorter of the two remainders.
Shared == Min({Len(left[li].data) - lp, Len(right[ri].data) - rp})

SegmentsDiffer == \E i \in 1..Shared : Left(i) # Right(i)

Differ ==
  /\ answer = None /\ BothHaveBlocks /\ SegmentsDiffer
  /\ LET first == CHOOSE i \in 1..Shared : /\ Left(i) # Right(i)
                                           /\ \A j \in 1..(i - 1) : Left(j) = Right(j)
     IN  answer' = Answer(offset + first - 1, offset + first - 1)
  /\ UNCHANGED <<left, right, li, ri, lp, rp, offset>>

Advance_StaysUnlessBothEnd ==
  /\ answer = None /\ BothHaveBlocks /\ ~SegmentsDiffer
  /\ offset' = offset + Shared
  /\ IF lp + Shared = Len(left[li].data) /\ rp + Shared = Len(right[ri].data)
     THEN li' = li + 1 /\ lp' = 0 /\ ri' = ri + 1 /\ rp' = 0
     ELSE lp' = lp + Shared /\ rp' = rp + Shared /\ UNCHANGED <<li, ri>>
  /\ UNCHANGED <<left, right, answer>>

Advance_DropsRemainder ==
  /\ answer = None /\ BothHaveBlocks /\ ~SegmentsDiffer
  /\ offset' = offset + Shared
  /\ li' = li + 1 /\ lp' = 0 /\ ri' = ri + 1 /\ rp' = 0
  /\ UNCHANGED <<left, right, answer>>

\* The shorter remainder is consumed on both sides; a block that ends makes way
\* for the next one.
Advance ==
  /\ answer = None /\ BothHaveBlocks /\ ~SegmentsDiffer
  /\ offset' = offset + Shared
  /\ IF lp + Shared = Len(left[li].data) THEN li' = li + 1 /\ lp' = 0
                                         ELSE li' = li /\ lp' = lp + Shared
  /\ IF rp + Shared = Len(right[ri].data) THEN ri' = ri + 1 /\ rp' = 0
                                          ELSE ri' = ri /\ rp' = rp + Shared
  /\ UNCHANGED <<left, right, answer>>

Finish_EitherEnd ==
  /\ answer = None /\ ~BothHaveBlocks
  /\ answer' = Answer(offset, None)
  /\ UNCHANGED <<left, right, li, ri, lp, rp, offset>>

Finish ==
  /\ answer = None /\ ~BothHaveBlocks
  /\ answer' = Answer(offset, IF li > Len(left) /\ ri > Len(right) THEN None ELSE offset)
  /\ UNCHANGED <<left, right, li, ri, lp, rp, offset>>

Next == Differ \/ Advance \/ Finish

Spec == Init /\ [][Next]_vars

\* The loop is sequential code: it runs on as long as it can.
FairSpec == Spec /\ WF_vars(Next)

-------------------------------------------------------------------------------
EndOfStream(S) == IF S = <<>> THEN 0 ELSE S[Len(S)].end_offset

\* The package offset at which the walk stands in a stream.
Position(S, i, p) == IF i <= Len(S) THEN S[i].start_offset + p ELSE EndOfStream(S)

Content(S) == Whole(Range(S), EndOfStream(S))

\* The walk keeps its types, and a position inside a block is short of its end.
WalkTypeOK ==
  /\ left \in Streams /\ right \in Streams
  /\ li \in 1..(Len(left) + 1) /\ ri \in 1..(Len(right) + 1)
  /\ lp \in Nat /\ (IF li <= Len(left) THEN lp < Len(left[li].data) ELSE lp = 0)
  /\ rp \in Nat /\ (IF ri <= Len(right) THEN rp < Len(right[ri].data) ELSE rp = 0)
  /\ offset \in Nat
  /\ answer \in {None} \cup [common_prefix_bytes : Nat,
                             first_difference_offset : Nat \cup {None}]

\* The two cursors of the walk never drift apart: both stand at `offset` of
\* their packages, wherever the blocks of either archive are cut.
CursorsInStep ==
  Position(left, li, lp) = offset /\ Position(right, ri, rp) = offset

\* The answer of _streams_first_difference is the length of the common prefix
\* and the first difference of the two packages, whatever their layouts: bytes
\* that differ, one package a prefix of the other, packages without bytes.
AnswerIsFirstDifference ==
  answer # None =>
    LET x == Content(left)
        y == Content(right)
    IN  answer = Answer(CommonPrefix(x, y), FirstDifference(x, y))

\* The loop ends: every iteration consumes a byte, also when blocks end together.
WalkEnds == <>(answer # None)
==============================================================================
