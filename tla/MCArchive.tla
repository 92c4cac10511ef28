------------------------------- MODULE MCArchive -------------------------------
(***************************************************************************)
(* A small instance of Archive for TLC.                                    *)
(***************************************************************************)
EXTENDS ArchiveInvariant

MCSha256(x) == <<"sha256", x>>
MCDigests == {MCSha256(x) : x \in SeqOf(Byte, MaxBytes)}

MCPackages == {<<>>, <<0, 1, 0>>}

\* Every boundary before, at and beyond the end of the package.
MCBoundaries == 0..4 \cup {Absent, NotDigits, TooLong}
==============================================================================
