------------------------------- MODULE Package -------------------------------
(***************************************************************************)
(* What the upload service promises about one record package, with no      *)
(* chunks, transactions or requests: a registered package is a prefix of   *)
(* bytes that only grows at its end, and the step that completes it also   *)
(* decides, once and for all, whether it is sealed or failed.              *)
(*                                                                         *)
(* Ingest implements this specification (see Ingest!PackageSpec).          *)
(***************************************************************************)
EXTENDS Integers, SequencesExt

CONSTANTS Sessions, Byte, MaxBytes, Digests, Sha256(_), None

Contents == SeqOf(Byte, MaxBytes)

VARIABLE package     \* package[s] is None until s is registered

Complete(p) == Len(p.bytes) = p.total_bytes

\* A package that still misses bytes is active; a complete one is judged.
Judged(p) ==
  [p EXCEPT !.status = IF ~Complete(p) THEN "active"
                       ELSE IF Sha256(p.bytes) = p.whole_sha256 THEN "sealed"
                       ELSE "failed"]

\* The package with more bytes at its end.
Extended(p, piece) == Judged([p EXCEPT !.bytes = p.bytes \o piece])

\* Sessions that were archived before the service started are sealed.
Init ==
  package \in [Sessions -> {None} \cup
                 {[total_bytes |-> Len(x), whole_sha256 |-> Sha256(x),
                   bytes |-> x, status |-> "sealed"] : x \in Contents}]

Register(s) ==
  \E total \in 0..MaxBytes, digest \in Digests :
    /\ package[s] = None
    /\ package' = [package EXCEPT ![s] =
                     Judged([total_bytes |-> total, whole_sha256 |-> digest,
                             bytes |-> <<>>, status |-> "active"])]

Extend(s) ==
  \E piece \in Contents \ {<<>>} :
    /\ package[s] # None
    /\ package[s].status = "active"
    /\ Len(package[s].bytes) + Len(piece) <= package[s].total_bytes
    /\ package' = [package EXCEPT ![s] = Extended(package[s], piece)]

Next == \E s \in Sessions : Register(s) \/ Extend(s)

Spec == Init /\ [][Next]_package
==============================================================================
