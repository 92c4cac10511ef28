------------------------------ MODULE FieldDevice ------------------------------
(***************************************************************************)
(* A field device that uploads one package over a bad link, as README.md   *)
(* tells it to and as tests/test_04_persistence.py does it, against the    *)
(* service of Ingest.                                                      *)
(*                                                                         *)
(* The device sends a piece at the checkpoint it knows and waits.  When    *)
(* the answer is lost, comes as a 500, or takes too long, it asks with     *)
(* GET /sessions/{id} where to resume and goes on from there, with pieces  *)
(* of any size.  A request it has given up keeps running in the service,   *)
(* beside the requests that replace it.                                    *)
(***************************************************************************)
EXTENDS Ingest

CONSTANTS Uploaded,      \* the session the device uploads
          Package,       \* its bytes
          PieceSizes,    \* the lengths of the pieces it sends
          Others,        \* what others ask of the service
          MaxFaults      \* bound on failures, losses and timeouts

ASSUME PackageAssumption ==
  /\ Uploaded \in Sessions \ DOMAIN Legacy
  /\ Package \in Blobs /\ Package # <<>>
  /\ \A m \in Registrations : m.total_bytes = Len(Package)
  /\ PieceSizes \subseteq 1..MaxChunkBytes
  /\ MaxFaults \in Nat

VARIABLES device,        \* what the device does and believes
          faults         \* how often something went wrong

deviceVars == <<device, faults>>
allVars == <<vars, deviceVars>>

DeviceInit ==
  /\ Init
  /\ device = [pc |-> "new", at |-> None, offset |-> 0, status |-> "active", code |-> None]
  /\ faults = 0

Fault == faults < MaxFaults /\ faults' = faults + 1

-------------------------------------------------------------------------------
Register ==
  /\ device.pc = "new"
  /\ \E m \in Registrations : CreateSession(Uploaded, m)
  /\ device' = [device EXCEPT !.pc = "ready"]
  /\ UNCHANGED faults

Piece(from, n) ==
  LET bytes == SubSeq(Package, from + 1, Min({from + n, Len(Package)}))
  IN  [kind |-> "put", session |-> Uploaded, start_offset |-> from, length |-> Len(bytes),
       sha256 |-> Sha256(bytes), payload |-> bytes]

\* Where to resume.
Query == [kind |-> "session", session |-> Uploaded]

\* Others read the session, or compact it once it is sealed; they have no bytes
\* of the package.
ASSUME RequestersAssumption ==
  /\ {Piece(from, n) : from \in 0..(Len(Package) - 1), n \in PieceSizes} \subseteq Requests
  /\ Query \in Requests
  /\ Others \subseteq Requests
  /\ \A r \in Others : r.session = Uploaded => r.kind # "put"

Send(w) ==
  /\ device.pc = "ready"
  /\ \E n \in PieceSizes : Receive(w, Piece(device.offset, n))
  /\ device' = [device EXCEPT !.pc = "waiting", !.at = w]
  /\ UNCHANGED faults

Ask(w) ==
  /\ device.pc = "lost"
  /\ Receive(w, Query)
  /\ device' = [device EXCEPT !.pc = "waiting", !.at = w]
  /\ UNCHANGED faults

\* An answer carries the checkpoint and the status, a 409 for a stale offset the
\* checkpoint to resume from, and a failure the end of the upload.
Learned(code, row) ==
  LET status == IF code \in {"whole_digest_mismatch", "session_failed_terminal"}
                THEN "failed" ELSE row.status
  IN  IF code = "server_error" THEN [device EXCEPT !.pc = "lost", !.at = None, !.code = code]
      ELSE [pc |-> IF status = "active" THEN "ready" ELSE "finished", at |-> None,
            offset |-> row.confirmed_offset, status |-> status, code |-> code]

Hear(w) ==
  /\ device.pc = "waiting" /\ device.at = w
  /\ Close(w)
  /\ device' = Learned(worker[w].code, worker[w].loaded)
  /\ UNCHANGED faults

-------------------------------------------------------------------------------
Disconnected == [device EXCEPT !.pc = "lost", !.at = None]

\* The reply leaves the service and never arrives.
AnswerLost(w) ==
  /\ device.pc = "waiting" /\ device.at = w
  /\ Close(w)
  /\ device' = Disconnected
  /\ Fault

\* A piece that never reaches the service.
RequestLost ==
  /\ device.pc = "ready"
  /\ device' = Disconnected
  /\ Fault
  /\ UNCHANGED vars

\* The device gives up; its request goes on in the service.
TimeOut ==
  /\ device.pc = "waiting"
  /\ device' = Disconnected
  /\ Fault
  /\ UNCHANGED vars

\* The service fails as in Ingest.
ServiceFails ==
  /\ Fault
  /\ \/ /\ \E w \in Workers : CommitUnanswered(w) \/ DbError(w)
        /\ UNCHANGED device
     \/ /\ Restart
        /\ device' = IF device.pc = "waiting" THEN Disconnected ELSE device

\* The service works on: for the device, on requests it has given up, and for
\* others (compactions of the sealed package).
Work(w) ==
  /\ Write(w) \/ Read(w) \/ (Close(w) /\ device.at # w)
  /\ UNCHANGED deviceVars

OthersAsk == \E w \in Workers, r \in Others : Receive(w, r) /\ UNCHANGED deviceVars

DeviceNext ==
  \/ Register \/ RequestLost \/ TimeOut \/ ServiceFails \/ OthersAsk
  \/ \E w \in Workers : Send(w) \/ Ask(w) \/ Hear(w) \/ AnswerLost(w) \/ Work(w)

DeviceSpec == DeviceInit /\ [][DeviceNext]_allVars

\* The device keeps trying and the link carries what is sent again and again: a
\* request finds a thread in the end (the threadpool's queue), and an answer
\* arrives unless it is lost.  A thread of the service that can go on does, and
\* PostgreSQL grants a row lock to every waiter in the end (its lock queue is
\* first come, first served).
FairDeviceSpec ==
  /\ DeviceSpec
  /\ WF_allVars(Register)
  /\ SF_allVars(\E w \in Workers : Send(w) \/ Ask(w))
  /\ \A w \in Workers :
       /\ WF_allVars(Hear(w) \/ Work(w))
       /\ SF_allVars(LockSession(w) /\ UNCHANGED deviceVars)

-------------------------------------------------------------------------------
Row == upload_sessions[Uploaded]

\* What the device was told never runs ahead of what the service has stored: no
\* lost answer, late duplicate or restart takes a checkpoint back that an answer
\* promised, and a verdict that an answer carried is the one that is stored.
BeliefIsStored ==
  device.pc # "new" =>
    /\ device.offset <= Row.confirmed_offset
    /\ Whole(chunks[Uploaded], device.offset) = SubSeq(Package, 1, device.offset)
    /\ device.status # "active" => device.status = Row.status

\* A device that sends its package, in whatever pieces and with whatever
\* repetitions, is never told that its bytes conflict with the archive: the only
\* refusals are a checkpoint to resume from and the final verdict.
NeverAccused ==
  device.code \in {None, "ok", "replayed", "stale_offset", "server_error",
                   "whole_digest_mismatch", "session_failed_terminal"}

\* Despite losses, timeouts, errors and restarts the upload ends, with the verdict
\* that the registered digest deserves, and the device knows it.
UploadEnds ==
  <>[](/\ device.pc = "finished"
       /\ device.status = (IF Row.whole_sha256 = Sha256(Package)
                           THEN "sealed" ELSE "failed")
       /\ Row.confirmed_offset = Len(Package))
==============================================================================
