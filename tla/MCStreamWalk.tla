------------------------------ MODULE MCStreamWalk ------------------------------
(***************************************************************************)
(* A small instance of StreamWalk for TLC: every package of at most        *)
(* MaxBytes bytes, cut in every way.                                       *)
(***************************************************************************)
EXTENDS StreamWalk

MCSha256(x) == <<"sha256", x>>
MCDigests == {MCSha256(x) : x \in SeqOf(Byte, MaxBytes)}

\* The bytes x as a stream of blocks that start at the offsets in Starts.
Cut(x, Starts) ==
  LET begin == SetToSortSeq(Starts, <)
      end(i) == IF i = Len(begin) THEN Len(x) ELSE begin[i + 1]
  IN  [i \in 1..Len(begin) |-> RowOf(begin[i], SubSeq(x, begin[i] + 1, end(i)))]

MCStreams ==
  UNION {{Cut(x, {0} \cup C) : C \in SUBSET (1..(Len(x) - 1))} :
           x \in SeqOf(Byte, MaxBytes) \ {<<>>}} \cup {<<>>}
==============================================================================
