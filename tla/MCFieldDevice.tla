----------------------------- MODULE MCFieldDevice -----------------------------
(***************************************************************************)
(* A small instance of FieldDevice for TLC: a package of three bytes, with  *)
(* the right digest or another one.                                        *)
(***************************************************************************)
EXTENDS DeviceInvariant, MCIngest

MCPackage == <<0, 1, 0>>
DeviceRegistrations == {Meta(MCPackage), BadMeta(MCPackage)}
OthersRequests == {Compact(s1, 1)}
DeviceRequests == OthersRequests \cup Pieces(s1, MCPackage) \cup Reads(s1)
==============================================================================
