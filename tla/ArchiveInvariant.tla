---------------------------- MODULE ArchiveInvariant ----------------------------
(***************************************************************************)
(* The inductive invariant of Archive, from which Archive_proofs derives   *)
(* the invariants of Archive.                                              *)
(***************************************************************************)
EXTENDS Archive

\* What the columns and constraints of the table admit: rows of any content, at
\* most one per start (uq_chunk_session_offset), none that ends before its start.
Table(C) ==
  /\ IsFiniteSet(C) /\ C \subseteq ChunkRow
  /\ \A c \in C : c.start_offset < c.end_offset
  /\ \A c, d \in C : c.start_offset = d.start_offset => c = d

\* Every offset of a package has one byte, in one row.
BytesPartition(C, total) ==
  /\ UNION {Extent(c) : c \in C} = 0..(total - 1)
  /\ \A c, d \in C : c # d => Extent(c) \cap Extent(d) = {}

\* Whatever storage did, the rows are a table of a package.
RowsAreATable ==
  /\ package \in Blobs /\ Table(chunks)
  /\ package = <<>> => chunks = {}
  /\ damages \in Nat /\ misstored \in BOOLEAN

\* If storage did nothing, they hold the package; a rewrite that it altered still
\* has a byte for every offset.
RowsHoldThePackage ==
  damages = 0 =>
    /\ BytesPartition(chunks, Total)
    /\ ~misstored => Tiles(chunks, Total) /\ Whole(chunks, Total) = package

\* The download in progress has the span of its headers.
ReaderHasItsSpan ==
  reader # None =>
    \E headers \in RangeHeaders :
      /\ reader = [headers |-> headers, span |-> RequestedSpan(headers)]
      /\ RequestedSpan(headers).code = None

\* The answer to a compaction.
RefusesTheDamaged ==
  reply # None /\ reply.kind = "compaction" /\ damages = 0 /\ ~misstored =>
    reply.code = "compacted"

ArchiveInv ==
  /\ RowsAreATable
  /\ RowsHoldThePackage
  /\ ReaderHasItsSpan
  /\ RefusesTheDamaged
  /\ AnswersTheHeader
==============================================================================
