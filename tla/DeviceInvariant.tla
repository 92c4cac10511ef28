---------------------------- MODULE DeviceInvariant ----------------------------
(***************************************************************************)
(* The inductive invariant of FieldDevice.                                 *)
(*                                                                         *)
(* What the device believes is an answer, and an answer is put together by *)
(* a worker that may be overtaken by every other one, among them workers   *)
(* that still serve requests the device has given up.  So the invariant    *)
(* says of all of them that they carry bytes of the package, and of the    *)
(* one the device waits for what its answer is going to be.                *)
(***************************************************************************)
EXTENDS FieldDevice, PromiseInvariant

DeviceTypeOK ==
  device \in [pc : {"new", "ready", "waiting", "lost", "finished"},
              at : {None} \cup Workers,
              offset : 0..Len(Package),
              status : Status,
              code : {None} \cup Codes]

\* The bytes below the checkpoint are the first ones of the package.
HoldsPackage(row, C) ==
  Whole(C, row.confirmed_offset) = SubSeq(Package, 1, row.confirmed_offset)

\* The session, from its registration on, before which the device knows nothing.
UploadKnown ==
  IF device.pc = "new"
  THEN ~Registered(Uploaded) /\ device.offset = 0 /\ device.status = "active"
  ELSE /\ Registered(Uploaded)
       /\ Row.total_bytes = Len(Package)
       /\ HoldsPackage(Row, chunks[Uploaded])

\* A device that goes on has bytes to send.
HasMore == device.pc = "ready" => device.offset < Len(Package)

-------------------------------------------------------------------------------
IsPiece(r) ==
  /\ r.start_offset \in Nat /\ r.length \in Nat \ {0}
  /\ EndOf(r) <= Len(Package)
  /\ r.payload = SubSeq(Package, r.start_offset + 1, EndOf(r))
  /\ r.length = Len(r.payload)
  /\ r.sha256 = Sha256(r.payload)

\* Whoever uploads to the session, for the device or for a request that it has
\* given up, brings a piece of the package and leaves its bytes.
CarriesPieces(w) ==
  /\ worker[w].pc # "idle" /\ worker[w].req.kind = "put" /\ Target(w) = Uploaded =>
       IsPiece(worker[w].req)
  /\ worker[w].pc = "commit" /\ Target(w) = Uploaded =>
       HoldsPackage(RowAfter(w), ChunksAfter(w))

\* What the device may hear: an earlier row of its session, and no conflict.
TrueAnswer(code, row, now) ==
  /\ code \in {"ok", "replayed", "stale_offset", "whole_digest_mismatch"}
  /\ EarlierRow(row, now)
  /\ row.status = "active" => row.confirmed_offset < row.total_bytes
  /\ code = "whole_digest_mismatch" => row.status = "failed"

\* The worker that the device waits for is at work for it, and answers truly.
ServesDevice(w) ==
  device.pc = "waiting" /\ device.at = w =>
    /\ worker[w].pc # "idle" /\ Target(w) = Uploaded
    /\ worker[w].req.kind \in {"put", "session"}
    /\ worker[w].pc = "done" =>
         \/ worker[w].code = "server_error"
         \/ TrueAnswer(worker[w].code, worker[w].loaded, Row)

DeviceInv ==
  /\ PromiseInv
  /\ DeviceTypeOK
  /\ UploadKnown
  /\ HasMore
  /\ BeliefIsStored
  /\ NeverAccused
  /\ \A w \in Workers : CarriesPieces(w) /\ ServesDevice(w)
==============================================================================
