----------------------------- MODULE MCComparison -----------------------------
(***************************************************************************)
(* A small instance of Comparison for TLC.                                 *)
(***************************************************************************)
EXTENDS ComparisonInvariant, MCIngest

CONSTANT k1

\* One session is uploaded or empty, the other sealed and compacted.
CompareRegistrations == {Meta(<<>>), Meta(<<0>>), Meta(<<1>>), Meta(<<1, 1>>), Meta(<<1, 0>>)}
AllPairs == Sessions \X Sessions
CompareLegacy == [s \in {s2} |-> <<1, 0>>]
CompareRequests ==
  {Chunk(s1, 0, <<0>>), Chunk(s1, 0, <<1>>), Chunk(s1, 0, <<1, 0>>), Chunk(s1, 1, <<1>>)}
    \cup {Compact(s2, 1), Compact(s2, 2)}
==============================================================================
