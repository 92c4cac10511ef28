--------------------------- MODULE FieldDevice_proofs ---------------------------
(***************************************************************************)
(* What a field device may rely on, for every package, every choice of     *)
(* pieces and every number of losses, timeouts and restarts: its           *)
(* checkpoint is always covered by the archive, and it is never told that  *)
(* its bytes conflict.                                                     *)
(*                                                                         *)
(* The device is one client of Ingest (DeviceUsesService), so PromiseInv   *)
(* holds; DeviceInv adds that all who upload to its session bring slices   *)
(* of one package.  Then the chunk rows hold a prefix of the package, the  *)
(* bytes of a piece below the checkpoint are always the archived ones, and *)
(* what is left for a refusal is the checkpoint.                           *)
(***************************************************************************)
EXTENDS DeviceInvariant, Ingest_proofs

-------------------------------------------------------------------------------
(***************************************************************************)
(* Slices of the package.                                                  *)
(***************************************************************************)
\* The package is not empty, and its session is not a legacy one.
LEMMA PackageFacts ==
  /\ Package \in Blobs /\ Len(Package) \in Nat \ {0} /\ Len(Package) \in 0..MaxBytes
  /\ Uploaded \in Sessions /\ Uploaded \notin DOMAIN Legacy
<1>1. Package \in Blobs /\ Package # <<>> /\ Uploaded \in Sessions \ DOMAIN Legacy
  BY PackageAssumption
<1>2. Package \in Seq(Byte) /\ Len(Package) \in 0..MaxBytes  BY <1>1, BlobIsSequence
<1>3. Len(Package) # 0  BY <1>1, <1>2, EmptySeq
<1> QED  BY <1>1, <1>2, <1>3, MaxBytesAssumption

\* The byte string C stores up to n is the package's, position by position.
LEMMA PrefixOfPackage ==
  ASSUME NEW C, NEW n \in 0..Len(Package)
  PROVE  Whole(C, n) = SubSeq(Package, 1, n)
           <=> \A i \in 1..n : ByteAt(C, i - 1) = Package[i]
<1> DEFINE x == Whole(C, n)
           y == SubSeq(Package, 1, n)
<1>1. n \in Nat /\ Package \in Blobs /\ n <= Len(Package) /\ 0 + 1 = 1 /\ n - 0 = n
  BY PackageFacts
<1>2. /\ SubSeq(Package, 0 + 1, n) \in Blobs /\ Len(SubSeq(Package, 0 + 1, n)) = n - 0
      /\ \A i \in 1..(n - 0) : SubSeq(Package, 0 + 1, n)[i] = Package[0 + i]
  BY <1>1, SliceIsBlob
<1>3. /\ y \in Blobs /\ Len(y) = n /\ \A i \in 1..n : y[i] = Package[i]
  BY <1>1, <1>2
<1>4. y \in [1..n -> Byte]  BY <1>3, BlobIsSequence
<1>5. x = [i \in 1..(n - 0) |-> ByteAt(C, 0 + i - 1)]  BY DEF Whole, BytesOf
<1>6. x = [i \in 1..n |-> ByteAt(C, i - 1)]  BY <1>1, <1>5
<1>7. y = [i \in 1..n |-> y[i]]  BY <1>4
<1> QED  BY <1>3, <1>6, <1>7

\* A shorter prefix.
LEMMA ShorterPrefix ==
  ASSUME NEW C, NEW n \in 0..Len(Package), Whole(C, n) = SubSeq(Package, 1, n),
         NEW m \in 0..n
  PROVE  Whole(C, m) = SubSeq(Package, 1, m)
<1>1. m \in 0..Len(Package)  BY PackageFacts
<1>2. \A i \in 1..n : ByteAt(C, i - 1) = Package[i]  BY PrefixOfPackage
<1>3. \A i \in 1..m : ByteAt(C, i - 1) = Package[i]  BY <1>2
<1> QED  BY <1>1, <1>3, PrefixOfPackage

\* The archived bytes of a piece below the checkpoint are the piece's bytes.
LEMMA SliceOfPackage ==
  ASSUME NEW C, NEW n \in 0..Len(Package), Tiles(C, n),
         Whole(C, n) = SubSeq(Package, 1, n),
         NEW a \in Nat, NEW b \in Nat, a <= b, b <= n
  PROVE  ArchivedBytes(C, a, b) = SubSeq(Package, a + 1, b)
<1> DEFINE y == SubSeq(Package, a + 1, b)
<1>1. Package \in Blobs /\ n \in Nat /\ b <= Len(Package)  BY PackageFacts
<1>2. y \in Blobs /\ Len(y) = b - a /\ \A i \in 1..(b - a) : y[i] = Package[a + i]
  BY <1>1, SliceIsBlob
<1>3. y \in [1..(b - a) -> Byte]  BY <1>2, BlobIsSequence
<1>4. ArchivedBytes(C, a, b) = BytesOf(C, a, b)  BY <1>1, SliceIsArchived
<1>5. BytesOf(C, a, b) = [i \in 1..(b - a) |-> ByteAt(C, a + i - 1)]  BY DEF BytesOf
<1>6. \A i \in 1..n : ByteAt(C, i - 1) = Package[i]  BY PrefixOfPackage
<1>7. \A i \in 1..(b - a) : ByteAt(C, a + i - 1) = y[i]
  <2> TAKE i \in 1..(b - a)
  <2>1. a + i \in 1..n  BY <1>1
  <2> QED  BY <2>1, <1>2, <1>6
<1> HIDE DEF y
<1>8. y = [i \in 1..(b - a) |-> y[i]]  BY <1>3
<1>9. BytesOf(C, a, b) = [i \in 1..(b - a) |-> y[i]]  BY <1>5, <1>7
<1> QED  BY <1>4, <1>8, <1>9 DEF y

\* What the device sends is a piece.
LEMMA PieceIsPiece ==
  ASSUME NEW from \in 0..(Len(Package) - 1), NEW n \in PieceSizes
  PROVE  /\ IsPiece(Piece(from, n))
         /\ Piece(from, n).kind = "put" /\ Piece(from, n).session = Uploaded
         /\ Piece(from, n) \in Requests
<1> DEFINE k == Min({from + n, Len(Package)})
           y == SubSeq(Package, from + 1, k)
<1>1. /\ Package \in Blobs /\ Len(Package) \in Nat /\ from \in Nat /\ from < Len(Package)
      /\ n \in Nat /\ n > 0
  BY PackageFacts, PackageAssumption, BoundsAssumption
<1>2. k \in {from + n, Len(Package)} /\ k <= Len(Package)  BY <1>1, MinOfTwo
<1>3. k \in Nat /\ from < k  BY <1>1, <1>2
<1> HIDE DEF k
<1>4. y \in Blobs /\ Len(y) = k - from  BY <1>1, <1>2, <1>3, SliceIsBlob
<1> HIDE DEF y
<1>5. Piece(from, n) = [kind |-> "put", session |-> Uploaded, start_offset |-> from,
                        length |-> Len(y), sha256 |-> Sha256(y), payload |-> y]
  BY DEF Piece, k, y
<1>6. EndOf(Piece(from, n)) = k  BY <1>1, <1>3, <1>4, <1>5 DEF EndOf
<1>7. IsPiece(Piece(from, n))
  <2>1. Piece(from, n).start_offset = from /\ Piece(from, n).payload = y
        /\ Piece(from, n).length = Len(y) /\ Piece(from, n).sha256 = Sha256(y)
    BY <1>5
  <2>2. y = SubSeq(Package, from + 1, k)  BY DEF y
  <2> QED  BY <1>1, <1>2, <1>3, <1>4, <1>6, <2>1, <2>2 DEF IsPiece
<1>8. Piece(from, n) \in Requests  BY RequestersAssumption
<1> QED  BY <1>5, <1>7, <1>8

-------------------------------------------------------------------------------
(***************************************************************************)
(* What the service does with a piece.                                     *)
(***************************************************************************)
\* A piece is appended, replayed, or refused with the checkpoint to resume from:
\* a sealed or failed session has all the bytes, so it can only replay.
LEMMA PieceVerdict ==
  ASSUME NEW row \in UploadSession, NEW C, ArchiveAgrees(row, C),
         row.total_bytes = Len(Package), HoldsPackage(row, C),
         NEW r, IsPiece(r)
  PROVE  PutVerdict(row, C, r) \in {"append", "replay", "stale_offset"}
<1>1. /\ row.confirmed_offset \in Nat /\ row.total_bytes \in Nat
      /\ row.confirmed_offset \in 0..Len(Package)
      /\ Tiles(C, row.confirmed_offset) /\ row.confirmed_offset <= row.total_bytes
      /\ row.status = "active" <=> row.confirmed_offset < row.total_bytes
  BY PackageFacts, MaxBytesAssumption DEF UploadSession, ArchiveAgrees
<1>2. /\ r.start_offset \in Nat /\ r.length \in Nat \ {0} /\ EndOf(r) <= Len(Package)
      /\ EndOf(r) = r.start_offset + r.length
      /\ Len(r.payload) = r.length /\ Sha256(r.payload) = r.sha256
  BY DEF IsPiece, EndOf
<1>3. EndOf(r) \in Nat /\ r.start_offset < EndOf(r)  BY <1>2
<1>4. EndOf(r) <= row.confirmed_offset
        => ArchivedBytes(C, r.start_offset, EndOf(r)) = r.payload
  <2> SUFFICES ASSUME EndOf(r) <= row.confirmed_offset
               PROVE  ArchivedBytes(C, r.start_offset, EndOf(r)) = r.payload
    OBVIOUS
  <2>1. ArchivedBytes(C, r.start_offset, EndOf(r))
          = SubSeq(Package, r.start_offset + 1, EndOf(r))
    <3>1. r.start_offset <= EndOf(r)  BY <1>2, <1>3
    <3> QED  BY <1>1, <1>2, <1>3, <3>1, SliceOfPackage DEF HoldsPackage
  <2> QED  BY <2>1 DEF IsPiece
<1>5. ~(EndOf(r) > row.total_bytes)  BY <1>1, <1>2, <1>3, PackageFacts
<1>6. CASE row.status = "active"
  BY <1>2, <1>5, <1>6 DEF PutVerdict, ActiveVerdict
<1>7. CASE row.status # "active"
  <2>1. row.confirmed_offset = row.total_bytes /\ EndOf(r) <= row.confirmed_offset
    BY <1>1, <1>3, <1>5, <1>7
  <2>2. 0 <= r.start_offset  BY <1>2
  <2>3. TerminalVerdict(row, C, r) = "replay"
    BY <1>3, <1>4, <2>1, <2>2 DEF TerminalVerdict
  <2> QED  BY <1>2, <1>5, <1>7, <2>3 DEF PutVerdict
<1> QED  BY <1>6, <1>7

\* Bytes of the package, appended at the checkpoint, leave a longer prefix of it.
LEMMA PieceExtends ==
  ASSUME NEW C, NEW n \in 0..Len(Package), Whole(C, n) = SubSeq(Package, 1, n),
         NEW D, NEW m \in 0..Len(Package), Tiles(D, m), n <= m,
         Whole(D, n) = Whole(C, n),
         ArchivedBytes(D, n, m) = SubSeq(Package, n + 1, m)
  PROVE  Whole(D, m) = SubSeq(Package, 1, m)
<1> DEFINE y == SubSeq(Package, n + 1, m)
<1>1. Package \in Blobs /\ n \in Nat /\ m \in Nat /\ m <= Len(Package)  BY PackageFacts
<1>2. y \in Blobs /\ Len(y) = m - n /\ \A i \in 1..(m - n) : y[i] = Package[n + i]
  BY <1>1, SliceIsBlob
<1>3. ArchivedBytes(D, n, m) = BytesOf(D, n, m)  BY <1>1, SliceIsArchived
<1>4. \A i \in 1..(m - n) : BytesOf(D, n, m)[i] = ByteAt(D, n + i - 1)  BY DEF BytesOf
<1>5. BytesOf(D, n, m) = y  BY <1>3
<1>6. Whole(D, n) = SubSeq(Package, 1, n)  OBVIOUS
<1> HIDE DEF y
<1>7. \A i \in 1..n : ByteAt(D, i - 1) = Package[i]  BY <1>6, PrefixOfPackage
<1>8. \A i \in 1..m : ByteAt(D, i - 1) = Package[i]
  <2> TAKE i \in 1..m
  <2>1. CASE i <= n
    <3>1. i \in 1..n  BY <1>1, <2>1
    <3> QED  BY <3>1, <1>7
  <2>2. CASE i > n
    <3>1. i - n \in 1..(m - n) /\ n + (i - n) = i /\ n + (i - n) - 1 = i - 1
      BY <1>1, <2>2
    <3> QED  BY <3>1, <1>2, <1>4, <1>5
  <2> QED  BY <1>1, <2>1, <2>2
<1> QED  BY <1>8, PrefixOfPackage

-------------------------------------------------------------------------------
(***************************************************************************)
(* The tables of the session, whoever takes a step.                        *)
(***************************************************************************)
\* What the device's session looks like once it is registered.
LEMMA UploadFacts ==
  ASSUME DeviceInv, device.pc # "new"
  PROVE  /\ PromiseInv /\ Inv /\ Registered(Uploaded) /\ Row \in UploadSession
         /\ ArchiveAgrees(Row, chunks[Uploaded])
         /\ Row.total_bytes = Len(Package) /\ HoldsPackage(Row, chunks[Uploaded])
         /\ Row.confirmed_offset \in 0..Len(Package)
<1>1. /\ PromiseInv /\ Inv /\ Registered(Uploaded)
      /\ Row.total_bytes = Len(Package) /\ HoldsPackage(Row, chunks[Uploaded])
  BY DEF DeviceInv, UploadKnown, PromiseInv
<1>2. /\ Row \in UploadSession /\ ArchiveAgrees(Row, chunks[Uploaded])
      /\ Row.confirmed_offset \in Nat
  BY <1>1, PackageFacts, StoredFacts DEF Row
<1>3. Row.confirmed_offset \in 0..Len(Package)
  BY <1>1, <1>2, PackageFacts DEF ArchiveAgrees
<1> QED  BY <1>1, <1>2, <1>3

\* A step of the service keeps the session a prefix of the package that only
\* grows, and a verdict for ever.
LEMMA UploadGoesOn ==
  ASSUME DeviceInv, device.pc # "new", [Next]_vars
  PROVE  /\ Registered(Uploaded)' /\ Row' \in UploadSession
         /\ SamePackage(Row, chunks[Uploaded], Row', chunks'[Uploaded])
         /\ Row'.total_bytes = Len(Package) /\ HoldsPackage(Row', chunks'[Uploaded])
         /\ Row.status # "active" => Row' = Row
<1>1. /\ PromiseInv /\ Inv /\ Registered(Uploaded) /\ Uploaded \in Sessions
      /\ Row.total_bytes = Len(Package) /\ HoldsPackage(Row, chunks[Uploaded])
  BY UploadFacts, PackageFacts
<1>2. Inv'  BY <1>1, PromisesPreserved DEF PromiseInv
<1>3. /\ Row' # None
      /\ SamePackage(Row, chunks[Uploaded], Row', chunks'[Uploaded])
  BY <1>1, StepKeepsBytes DEF Row
<1>4. Row.status # "active" => Row' = Row  BY <1>1, StepIsFinal DEF Row
<1>5. Row' \in UploadSession  BY <1>1, <1>2, <1>3 DEF Inv, TypeOK, Row
<1>6. Row'.total_bytes = Len(Package)  BY <1>1, <1>3 DEF SamePackage
<1>7. HoldsPackage(Row', chunks'[Uploaded])
  <2>1. CASE UNCHANGED <<upload_sessions, chunks>>  BY <1>1, <2>1 DEF Row
  <2>2. CASE \E s \in Sessions, m \in Registrations : CreateSession(s, m)
    <3>1. PICK s \in Sessions, m \in Registrations : CreateSession(s, m)  BY <2>2
    <3>2. s # Uploaded /\ Row' = Row /\ chunks' = chunks
      BY <1>1, <3>1 DEF CreateSession, Registered, Row, Inv, TypeOK
    <3> QED  BY <1>1, <3>2
  <2>3. CASE \E w \in Workers : Acts(w)
    <3>1. PICK w \in Workers : Acts(w)  BY <2>3
    <3>2. CASE worker[w].pc = "commit" /\ CommitWrites(w)
      <4>1. /\ upload_sessions' = [upload_sessions EXCEPT ![Target(w)] = RowAfter(w)]
            /\ chunks' = [chunks EXCEPT ![Target(w)] = ChunksAfter(w)]
        BY <1>1, <3>2, CommitTables
      <4>2. /\ upload_sessions \in [Sessions -> {None} \cup UploadSession]
            /\ chunks \in [Sessions -> SUBSET ChunkRow]
        BY <1>1 DEF Inv, TypeOK
      <4>3. CASE Target(w) = Uploaded
        <5>1. HoldsPackage(RowAfter(w), ChunksAfter(w))
          BY <3>2, <4>3 DEF DeviceInv, CarriesPieces
        <5> QED  BY <1>1, <4>1, <4>2, <4>3, <5>1 DEF Row
      <4>4. CASE Target(w) # Uploaded
        BY <1>1, <4>1, <4>2, <4>4 DEF Row
      <4> QED  BY <4>3, <4>4
    <3> QED  BY <1>1, <2>1, <3>1, <3>2, ActsAlone
  <2> QED  BY <2>1, <2>2, <2>3, StepShape DEF Restart, vars
<1>8. Registered(Uploaded)'  BY <1>3 DEF Registered, Row
<1> QED  BY <1>3, <1>4, <1>5, <1>6, <1>7, <1>8

\* What the device believes stays true when the service takes a step.
LEMMA BeliefKept ==
  ASSUME DeviceInv, device.pc # "new", [Next]_vars,
         device'.offset = device.offset, device'.status = device.status
  PROVE  BeliefIsStored'
<1>1. /\ device.offset \in Nat /\ device.offset <= Row.confirmed_offset
      /\ device.status # "active" => device.status = Row.status
  BY DEF DeviceInv, BeliefIsStored, DeviceTypeOK
<1>2. /\ Row \in UploadSession /\ Row' \in UploadSession
      /\ SamePackage(Row, chunks[Uploaded], Row', chunks'[Uploaded])
      /\ Row'.total_bytes = Len(Package) /\ HoldsPackage(Row', chunks'[Uploaded])
      /\ Row.status # "active" => Row' = Row
  BY UploadGoesOn, UploadFacts
<1>3. Row.confirmed_offset <= Row'.confirmed_offset  BY <1>2 DEF SamePackage
<1>4. Row.confirmed_offset \in Nat /\ Row'.confirmed_offset \in Nat
  BY <1>2, MaxBytesAssumption DEF UploadSession
<1>5. Inv' /\ Registered(Uploaded)'
  BY UploadFacts, UploadGoesOn, PromisesPreserved DEF PromiseInv
<1>6. Row'.confirmed_offset \in 0..Len(Package)
  <2>1. ArchiveAgrees(Row', chunks'[Uploaded])
    BY <1>5, PackageFacts DEF Inv, CheckpointMatchesArchive, Row
  <2> QED  BY <1>2, <1>4, <2>1, PackageFacts DEF ArchiveAgrees
<1>7. device.offset \in 0..Row'.confirmed_offset  BY <1>1, <1>3, <1>4
<1>8. Whole(chunks'[Uploaded], device.offset) = SubSeq(Package, 1, device.offset)
  BY <1>2, <1>6, <1>7, ShorterPrefix DEF HoldsPackage
<1>9. device.status # "active" => device.status = Row'.status  BY <1>1, <1>2
<1> QED  BY <1>7, <1>8, <1>9 DEF BeliefIsStored

-------------------------------------------------------------------------------
(***************************************************************************)
(* The workers that do not step.                                           *)
(***************************************************************************)
\* The pieces a worker carries stay pieces, and what its commit will store is
\* protected by the row lock.
LEMMA OthersCarryPieces ==
  ASSUME DeviceInv, NEW v \in Workers, worker'[v] = worker[v],
         \A s \in Sessions : lock[s] = v => /\ upload_sessions'[s] = upload_sessions[s]
                                            /\ chunks'[s] = chunks[s]
  PROVE  CarriesPieces(v)'
<1>1. CarriesPieces(v) /\ Inv /\ TypeOK /\ WorkerInv(v)
  BY DEF DeviceInv, PromiseInv, Inv
<1>2. Target(v)' = Target(v)  BY DEF Target
<1>3. CASE worker[v].pc = "commit" /\ Target(v) = Uploaded
  <2>1. lock[Uploaded] = v  BY <1>1, <1>3 DEF WorkerInv, Owns
  <2>2. upload_sessions'[Uploaded] = Row /\ chunks'[Uploaded] = chunks[Uploaded]
    BY <2>1, PackageFacts DEF Row
  <2>3. RowAfter(v)' = RowAfter(v) /\ ChunksAfter(v)' = ChunksAfter(v)
    BY <1>2, <1>3, <2>2 DEF RowAfter, ChunksAfter, Row
  <2> QED  BY <1>1, <1>2, <2>3 DEF CarriesPieces
<1>4. CASE ~(worker[v].pc = "commit" /\ Target(v) = Uploaded)
  BY <1>1, <1>2, <1>4 DEF CarriesPieces
<1> QED  BY <1>3, <1>4

\* An answer that waits for the device stays an answer.
LEMMA OthersServe ==
  ASSUME DeviceInv, [Next]_vars, NEW v \in Workers, worker'[v] = worker[v],
         device'.pc = "waiting" /\ device'.at = v => device.pc = "waiting" /\ device.at = v
  PROVE  ServesDevice(v)'
<1> SUFFICES ASSUME device'.pc = "waiting", device'.at = v
             PROVE  ServesDevice(v)'
  BY DEF ServesDevice
<1>1. device.pc = "waiting" /\ device.at = v /\ ServesDevice(v)  BY DEF DeviceInv
<1>2. /\ Row \in UploadSession /\ Row' \in UploadSession
      /\ SamePackage(Row, chunks[Uploaded], Row', chunks'[Uploaded])
      /\ Row.status # "active" => Row' = Row
  BY <1>1, UploadGoesOn, UploadFacts
<1>3. /\ worker[v].pc # "idle" /\ Target(v) = Uploaded
      /\ worker[v].req.kind \in {"put", "session"}
      /\ worker[v].pc = "done" =>
           \/ worker[v].code = "server_error"
           \/ TrueAnswer(worker[v].code, worker[v].loaded, Row)
  BY <1>1 DEF ServesDevice
<1>4. TrueAnswer(worker[v].code, worker[v].loaded, Row)
        => TrueAnswer(worker[v].code, worker[v].loaded, Row')
  BY <1>2, EarlierKept DEF TrueAnswer
<1>5. Target(v)' = Target(v)  BY DEF Target
<1> QED  BY <1>3, <1>4, <1>5 DEF ServesDevice

\* An idle worker carries nothing and serves nobody.
LEMMA IdleServesNobody ==
  ASSUME NEW w \in Workers, worker'[w] = Idle, device'.pc # "waiting" \/ device'.at # w
  PROVE  CarriesPieces(w)' /\ ServesDevice(w)'
  BY DEF CarriesPieces, ServesDevice, Idle

-------------------------------------------------------------------------------
(***************************************************************************)
(* The worker that steps.                                                  *)
(***************************************************************************)
\* The row as it is now is a true answer.
LEMMA NowIsTrue ==
  ASSUME DeviceInv, device.pc # "new",
         NEW code \in {"ok", "replayed", "stale_offset", "whole_digest_mismatch"},
         code = "whole_digest_mismatch" => Row.status = "failed"
  PROVE  TrueAnswer(code, Row, Row)
<1>1. Row \in UploadSession /\ ArchiveAgrees(Row, chunks[Uploaded])  BY UploadFacts
<1>2. EarlierRow(Row, Row)
  BY <1>1, MaxBytesAssumption DEF EarlierRow, UploadSession
<1> QED  BY <1>1, <1>2 DEF TrueAnswer, ArchiveAgrees

\* The worker that the device waits for has a session to answer about.
LEMMA Served ==
  ASSUME DeviceInv, NEW w \in Workers, device.pc = "waiting", device.at = w
  PROVE  /\ device.pc # "new" /\ Target(w) = Uploaded /\ upload_sessions[Target(w)] = Row
         /\ worker[w].req.kind \in {"put", "session"}
         /\ Registered(Uploaded)
  BY UploadFacts DEF DeviceInv, ServesDevice, Row

\* A request that enters.
LEMMA EntersServing ==
  ASSUME DeviceInv, NEW w \in Workers, NEW r \in Requests, Receive(w, r),
         r.kind = "put" /\ r.session = Uploaded => IsPiece(r),
         device'.pc = "waiting" /\ device'.at = w =>
           r.session = Uploaded /\ r.kind \in {"put", "session"}
  PROVE  CarriesPieces(w)' /\ ServesDevice(w)'
<1>1. worker \in [Workers -> WorkerState]
  BY DEF DeviceInv, PromiseInv, Inv, TypeOK
<1>2. worker' = [worker EXCEPT ![w].pc = "select", ![w].req = r]  BY DEF Receive
<1>3. worker'[w].pc = "select" /\ worker'[w].req = r
  BY <1>1, <1>2 DEF WorkerState
<1>4. Target(w)' = r.session  BY <1>3 DEF Target
<1> QED  BY <1>3, <1>4 DEF CarriesPieces, ServesDevice

\* A request that goes on: what is to show of a flush and of an answer.
LEMMA WorksServing ==
  ASSUME DeviceInv, NEW w \in Workers, worker[w].pc # "idle",
         worker'[w].pc # "idle", worker'[w].req = worker[w].req,
         worker'[w].pc = "commit" /\ Target(w) = Uploaded =>
           HoldsPackage(RowAfter(w)', ChunksAfter(w)'),
         device'.pc = "waiting" /\ device'.at = w => device.pc = "waiting" /\ device.at = w,
         device.pc = "waiting" /\ device.at = w /\ worker'[w].pc = "done" =>
           \/ worker'[w].code = "server_error"
           \/ TrueAnswer(worker'[w].code, worker'[w].loaded, Row')
  PROVE  CarriesPieces(w)' /\ ServesDevice(w)'
<1>1. CarriesPieces(w) /\ ServesDevice(w)  BY DEF DeviceInv
<1>2. Target(w)' = Target(w)  BY DEF Target
<1>3. CarriesPieces(w)'  BY <1>1, <1>2 DEF CarriesPieces
<1>4. ServesDevice(w)'  BY <1>1, <1>2 DEF ServesDevice
<1> QED  BY <1>3, <1>4

\* Steps that flush nothing, and answer the device with a failure if at all.
LEMMA QuietServing ==
  ASSUME DeviceInv, NEW w \in Workers,
         \/ LockMissing(w) \/ LockSession(w) \/ CompactRefuse(w) \/ CompactRollback(w)
         \/ CommitPut(w) \/ CommitCompact(w)
         \/ ReadAudit(w) \/ ReadChunks(w) \/ ReadContent(w)
         \/ CommitUnanswered(w) \/ DbError(w),
         device'.pc = "waiting" /\ device'.at = w => device.pc = "waiting" /\ device.at = w
  PROVE  CarriesPieces(w)' /\ ServesDevice(w)'
<1>1. worker \in [Workers -> WorkerState] /\ worker[w] \in WorkerState
  BY DEF DeviceInv, PromiseInv, Inv, TypeOK
<1>2. CASE LockMissing(w)
  <2>1. worker' = [worker EXCEPT ![w].pc = "done", ![w].code = "session_not_found"]
        /\ worker[w].pc = "select" /\ upload_sessions[Target(w)] = None
    BY <1>2 DEF LockMissing
  <2>2. worker'[w].pc = "done" /\ worker'[w].req = worker[w].req
    BY <1>1, <2>1 DEF WorkerState
  <2>3. ~(device.pc = "waiting" /\ device.at = w)
    BY <2>1, Served DEF Registered, Row
  <2> QED  BY <2>1, <2>2, <2>3, WorksServing
<1>3. CASE LockSession(w) \/ CommitPut(w)
  <2>1. /\ worker[w].pc # "idle" /\ worker'[w].req = worker[w].req
        /\ worker'[w].pc \in {"handle", "refresh"}
    BY <1>1, <1>3 DEF LockSession, CommitPut, WorkerState
  <2> QED  BY <2>1, WorksServing
<1>4. CASE CompactRefuse(w) \/ CompactRollback(w) \/ CommitCompact(w)
           \/ ReadAudit(w) \/ ReadChunks(w) \/ ReadContent(w)
  <2>1. worker[w].req.kind \in {"compact", "audit", "chunks", "content"}
    BY <1>4 DEF CompactRefuse, CompactRollback, CommitCompact, ReadAudit, ReadChunks,
                ReadContent, Compacts, Handles
  <2>2. worker[w].pc # "idle"
    BY <1>4 DEF CompactRefuse, CompactRollback, CommitCompact, ReadAudit, ReadChunks,
                ReadContent, Compacts, Handles
  <2>3. worker'[w].pc = "done" /\ worker'[w].req = worker[w].req
    BY <1>1, <1>4 DEF CompactRefuse, CompactRollback, CommitCompact, ReadAudit,
                      ReadChunks, ReadContent, WorkerState
  <2>4. ~(device.pc = "waiting" /\ device.at = w)  BY <2>1, Served
  <2> QED  BY <2>2, <2>3, <2>4, WorksServing
<1>5. CASE CommitUnanswered(w) \/ DbError(w)
  <2>1. /\ worker[w].pc # "idle" /\ worker'[w].req = worker[w].req
        /\ worker'[w].pc = "done" /\ worker'[w].code = "server_error"
    BY <1>1, <1>5 DEF CommitUnanswered, DbError, InProgress, WorkerState
  <2> QED  BY <2>1, WorksServing
<1> QED  BY <1>2, <1>3, <1>4, <1>5

\* A refused piece is a piece beyond the checkpoint.
LEMMA RefusalServing ==
  ASSUME DeviceInv, NEW w \in Workers, PutRefuse(w) \/ PutReplay(w),
         device'.pc = "waiting" /\ device'.at = w => device.pc = "waiting" /\ device.at = w
  PROVE  CarriesPieces(w)' /\ ServesDevice(w)'
<1> DEFINE r == worker[w].req
           code == IF PutRefuse(w) THEN Verdict(w) ELSE "replayed"
<1>1. /\ worker' = [worker EXCEPT ![w].pc = "done", ![w].code = code]
      /\ UNCHANGED <<upload_sessions, chunks>> /\ Handles(w, "put")
      /\ PutRefuse(w) => Verdict(w) \notin {"append", "replay"}
  BY DEF PutRefuse, PutReplay
<1>2. /\ worker \in [Workers -> WorkerState] /\ worker[w] \in WorkerState
      /\ worker[w].pc = "handle" /\ worker[w].loaded = upload_sessions[Target(w)]
      /\ r.kind = "put"
  BY <1>1, PutKnown DEF DeviceInv
<1>3. /\ worker'[w].pc = "done" /\ worker'[w].code = code /\ worker'[w].req = r
      /\ worker'[w].loaded = worker[w].loaded
  BY <1>1, <1>2 DEF WorkerState
<1>4. ASSUME device.pc = "waiting", device.at = w
      PROVE  TrueAnswer(code, worker[w].loaded, Row)
  <2>1. /\ device.pc # "new" /\ Target(w) = Uploaded /\ worker[w].loaded = Row
    BY <1>2, <1>4, Served
  <2>2. IsPiece(r)  BY <1>2, <2>1 DEF DeviceInv, CarriesPieces
  <2>3. PutVerdict(Row, chunks[Uploaded], r) \in {"append", "replay", "stale_offset"}
    BY <2>1, <2>2, UploadFacts, PieceVerdict
  <2>4. Verdict(w) \in {"append", "replay", "stale_offset"}  BY <2>1, <2>3 DEF Verdict
  <2>5. code \in {"replayed", "stale_offset"}  BY <1>1, <2>4
  <2> HIDE DEF code
  <2> QED  BY <2>1, <2>5, NowIsTrue
<1> HIDE DEF code
<1>5. Row' = Row  BY <1>1 DEF Row
<1> QED  BY <1>2, <1>3, <1>4, <1>5, WorksServing

\* An appended piece leaves a longer prefix of the package.
LEMMA AppendServing ==
  ASSUME DeviceInv, Inv', NEW w \in Workers, WorkerPromises(w)', PutAppend(w),
         device.pc # "new" \/ Target(w) # Uploaded,
         device'.pc = "waiting" /\ device'.at = w => device.pc = "waiting" /\ device.at = w
  PROVE  CarriesPieces(w)' /\ ServesDevice(w)'
<1> DEFINE r == worker[w].req
           C == chunks[Target(w)]
           D == C \cup {RowOf(r.start_offset, r.payload)}
           next == Advanced(worker[w].loaded, D, EndOf(r))
<1>1. /\ \E p : worker' = [worker EXCEPT ![w].pc = "commit", ![w].loaded = next,
                                         ![w].pending = p]
      /\ UNCHANGED <<upload_sessions, chunks>> /\ Handles(w, "put")
      /\ PutVerdict(worker[w].loaded, C, r) = "append"
  BY DEF PutAppend, Verdict
<1>2. /\ worker \in [Workers -> WorkerState] /\ worker[w] \in WorkerState
      /\ worker[w].pc = "handle" /\ worker[w].loaded = upload_sessions[Target(w)]
      /\ worker[w].loaded \in UploadSession /\ r.kind = "put"
  BY <1>1, PutKnown DEF DeviceInv
<1>3. next.confirmed_offset = EndOf(r)
  BY <1>2 DEF Advanced, Finalized, UploadSession
<1> HIDE DEF next
<1>4. worker'[w].pc = "commit" /\ worker'[w].loaded = next /\ worker'[w].req = r
  BY <1>1, <1>2 DEF WorkerState
<1>5. Target(w)' = Target(w) /\ RowAfter(w)' = next
  BY <1>2, <1>4 DEF Target, RowAfter
<1>6. ASSUME Target(w) = Uploaded
      PROVE  HoldsPackage(RowAfter(w)', ChunksAfter(w)')
  <2> DEFINE n == Row.confirmed_offset
             E == ChunksAfter(w)'
             m == EndOf(r)
  <2>1. /\ worker[w].loaded = Row /\ HoldsPackage(Row, chunks[Uploaded])
        /\ n \in 0..Len(Package) /\ Row.total_bytes = Len(Package)
    BY <1>2, <1>6, UploadFacts DEF Row
  <2>2. IsPiece(r)  BY <1>2, <1>6 DEF DeviceInv, CarriesPieces
  <2>3. r.start_offset = n /\ m > n
    BY <1>1, <2>1, AppendVerdict
  <2>4. /\ ArchiveAgrees(next, E)
        /\ SamePackage(Row, chunks[Uploaded], next, E)
        /\ Holds(next, E, r)
    <3>1. CommitIsSound(w)' /\ CommitKeepsPromises(w)'
      BY DEF Inv, WorkerInv, WorkerPromises
    <3>2. Row' = Row /\ upload_sessions'[Uploaded] = Row /\ chunks'[Uploaded] = chunks[Uploaded]
      BY <1>1 DEF Row
    <3>3. Target(w)' = Uploaded  BY <1>5, <1>6
    <3> HIDE DEF E, r
    <3> QED  BY <1>2, <1>4, <1>5, <3>1, <3>2, <3>3
             DEF CommitIsSound, CommitKeepsPromises, E, r
  <2>5. Tiles(E, m) /\ Whole(E, n) = Whole(chunks[Uploaded], n)
    BY <1>3, <2>4 DEF ArchiveAgrees, SamePackage
  <2>6. ArchivedBytes(E, n, m) = SubSeq(Package, n + 1, m) /\ m \in 0..Len(Package)
    <3>1. m \in Nat /\ m <= Len(Package)
      <4>1. r.start_offset \in Nat /\ r.length \in Nat /\ EndOf(r) <= Len(Package)
        BY <2>2 DEF IsPiece
      <4> QED  BY <4>1 DEF EndOf
    <3>2. ArchivedBytes(E, n, m) = r.payload  BY <2>3, <2>4 DEF Holds
    <3>3. r.payload = SubSeq(Package, n + 1, m)  BY <2>2, <2>3 DEF IsPiece
    <3> QED  BY <3>1, <3>2, <3>3, PackageFacts
  <2>7. Whole(chunks[Uploaded], n) = SubSeq(Package, 1, n)  BY <2>1 DEF HoldsPackage
  <2>8. n <= m  BY <2>1, <2>3, <2>6
  <2> HIDE DEF n, E, m
  <2>9. Whole(E, m) = SubSeq(Package, 1, m)
    BY <2>1, <2>5, <2>6, <2>7, <2>8, PieceExtends
  <2> QED  BY <1>3, <1>5, <2>9 DEF HoldsPackage, E, m
<1> HIDE DEF r
<1> QED  BY <1>2, <1>4, <1>6, WorksServing DEF r

\* A compaction leaves the same bytes.
LEMMA RewriteServing ==
  ASSUME DeviceInv, Inv', NEW w \in Workers, CompactRewrite(w),
         device.pc # "new" \/ Target(w) # Uploaded,
         device'.pc = "waiting" /\ device'.at = w => device.pc = "waiting" /\ device.at = w
  PROVE  CarriesPieces(w)' /\ ServesDevice(w)'
<1>1. /\ \E p : worker' = [worker EXCEPT ![w].pc = "commit", ![w].pending = p]
      /\ UNCHANGED <<upload_sessions, chunks>>
      /\ worker[w].pc = "handle" /\ worker[w].req.kind = "compact"
  BY DEF CompactRewrite, Compacts, Handles
<1>2. worker \in [Workers -> WorkerState] /\ worker[w] \in WorkerState
  BY DEF DeviceInv, PromiseInv, Inv, TypeOK
<1>3. worker'[w].pc = "commit" /\ worker'[w].req = worker[w].req
  BY <1>1, <1>2 DEF WorkerState
<1>4. Target(w)' = Target(w)  BY <1>3 DEF Target
<1>5. ASSUME Target(w) = Uploaded
      PROVE  HoldsPackage(RowAfter(w)', ChunksAfter(w)')
  <2>1. HoldsPackage(Row, chunks[Uploaded])  BY <1>5, UploadFacts
  <2>2. CommitIsSound(w)'  BY DEF Inv, WorkerInv
  <2>3. upload_sessions'[Uploaded] = Row /\ chunks'[Uploaded] = chunks[Uploaded]
    BY <1>1 DEF Row
  <2>4. RowAfter(w)' = Row  BY <1>1, <1>3, <1>4, <1>5, <2>3 DEF RowAfter
  <2>5. SamePackage(Row, chunks[Uploaded], Row, ChunksAfter(w)')
    BY <1>3, <1>4, <1>5, <2>2, <2>3, <2>4 DEF CommitIsSound
  <2> QED  BY <2>1, <2>4, <2>5 DEF HoldsPackage, SamePackage
<1> QED  BY <1>1, <1>3, <1>5, WorksServing

\* The row that a PUT or a query reads without the lock is the row as it is.
LEMMA RowServing ==
  ASSUME DeviceInv, NEW w \in Workers, Refresh(w) \/ ReadSession(w),
         device'.pc = "waiting" /\ device'.at = w => device.pc = "waiting" /\ device.at = w
  PROVE  CarriesPieces(w)' /\ ServesDevice(w)'
<1> DEFINE row == upload_sessions[Target(w)]
<1>1. worker \in [Workers -> WorkerState] /\ worker[w] \in WorkerState
  BY DEF DeviceInv, PromiseInv, Inv, TypeOK
<1>2. CASE Refresh(w)
  <2> DEFINE code == IF EndOf(worker[w].req) = row.total_bytes /\ row.status = "failed"
                     THEN "whole_digest_mismatch" ELSE "ok"
  <2>1. /\ worker' = [worker EXCEPT ![w].pc = "done", ![w].loaded = row, ![w].code = code]
        /\ worker[w].pc = "refresh" /\ UNCHANGED upload_sessions
    BY <1>2 DEF Refresh
  <2>2. /\ code \in {"ok", "whole_digest_mismatch"}
        /\ code = "whole_digest_mismatch" => row.status = "failed"
    OBVIOUS
  <2> HIDE DEF code, row
  <2>3. /\ worker'[w].pc = "done" /\ worker'[w].loaded = row /\ worker'[w].code = code
        /\ worker'[w].req = worker[w].req
    BY <1>1, <2>1 DEF WorkerState
  <2>4. ASSUME device.pc = "waiting", device.at = w
        PROVE  TrueAnswer(code, row, Row')
    <3>1. device.pc # "new" /\ row = Row /\ Row' = Row
      BY <2>1, <2>4, Served DEF Row, row
    <3> QED  BY <2>2, <3>1, NowIsTrue
  <2> QED  BY <2>1, <2>3, <2>4, WorksServing
<1>3. CASE ReadSession(w)
  <2> DEFINE code == ReadCode(row, worker[w].req)
  <2>1. /\ worker' = [worker EXCEPT ![w].loaded = row, ![w].code = code,
                                    ![w].pc = IF code = None THEN "rows" ELSE "done"]
        /\ worker[w].pc = "select" /\ ~IsWriter(w) /\ UNCHANGED upload_sessions
    BY <1>3 DEF ReadSession
  <2> HIDE DEF code, row
  <2>2. worker'[w].pc = IF code = None THEN "rows" ELSE "done"
    BY <1>1, <2>1 DEF WorkerState
  <2>3. worker'[w].pc \in {"rows", "done"} /\ worker[w].pc # "idle"  BY <2>1, <2>2
  <2>4. /\ worker'[w].loaded = row /\ worker'[w].code = code
        /\ worker'[w].req = worker[w].req
    BY <1>1, <2>1 DEF WorkerState
  <2>5. ASSUME device.pc = "waiting", device.at = w
        PROVE  TrueAnswer(code, row, Row')
    <3>1. /\ device.pc # "new" /\ row = Row /\ Row' = Row /\ row # None
          /\ worker[w].req.kind = "session"
      BY <2>1, <2>5, Served DEF Row, row, IsWriter, Registered
    <3>2. code = "ok"  BY <3>1 DEF code, ReadCode
    <3> QED  BY <3>1, <3>2, NowIsTrue
  <2> QED  BY <2>3, <2>4, <2>5, WorksServing
<1> QED  BY <1>2, <1>3

\* Every step of a handler.
LEMMA ActorServes ==
  ASSUME DeviceInv, NEW w \in Workers,
         Write(w) \/ Read(w) \/ CommitUnanswered(w) \/ DbError(w),
         device'.pc = "waiting" /\ device'.at = w => device.pc = "waiting" /\ device.at = w
  PROVE  CarriesPieces(w)' /\ ServesDevice(w)'
<1>1. Acts(w) /\ [Next]_vars  BY DEF Acts, Step, Next, Serve
<1>2. PromiseInv' /\ Inv' /\ WorkerPromises(w)'
  BY <1>1, PromisesPreserved DEF DeviceInv, PromiseInv, Promises
<1>3. worker[w].pc = "handle" => device.pc # "new" \/ Target(w) # Uploaded
  BY DEF DeviceInv, PromiseInv, Inv, WorkerInv, RequestKnown, UploadKnown
<1>4. PutAppend(w) \/ CompactRewrite(w) => worker[w].pc = "handle"
  BY DEF PutAppend, CompactRewrite, Compacts, Handles
<1>5. CASE PutAppend(w) \/ CompactRewrite(w)
  BY <1>2, <1>3, <1>4, <1>5, AppendServing, RewriteServing
<1>6. CASE PutRefuse(w) \/ PutReplay(w)  BY <1>6, RefusalServing
<1>7. CASE Refresh(w) \/ ReadSession(w)  BY <1>7, RowServing
<1> QED  BY <1>5, <1>6, <1>7, QuietServing DEF Write, Read

\* When one worker steps, all of them still serve.
LEMMA EveryoneServes ==
  ASSUME DeviceInv, NEW w \in Workers, Acts(w), CarriesPieces(w)', ServesDevice(w)',
         \A v \in Workers \ {w} : device'.pc = "waiting" /\ device'.at = v =>
           device.pc = "waiting" /\ device.at = v
  PROVE  \A v \in Workers : CarriesPieces(v)' /\ ServesDevice(v)'
<1>1. Inv /\ [Next]_vars  BY DEF Acts, Next, Serve, DeviceInv, PromiseInv
<1>2. ASSUME NEW v \in Workers \ {w}  PROVE CarriesPieces(v)' /\ ServesDevice(v)'
  <2>1. worker'[v] = worker[v]  BY <1>1, ActsAlone
  <2>2. \A s \in Sessions : lock[s] = v => /\ upload_sessions'[s] = upload_sessions[s]
                                           /\ chunks'[s] = chunks[s]
    BY <1>1, ActsAlone
  <2>3. CarriesPieces(v)'  BY <2>1, <2>2, OthersCarryPieces
  <2>4. ServesDevice(v)'  BY <1>1, <2>1, OthersServe
  <2> QED  BY <2>3, <2>4
<1> QED  BY <1>2

-------------------------------------------------------------------------------
(***************************************************************************)
(* The steps of the device and of its service.                             *)
(***************************************************************************)
\* Before its registration nobody touches the session.
LEMMA StaysUnknown ==
  ASSUME DeviceInv, device.pc = "new", NEW w \in Workers, Acts(w)
  PROVE  ~Registered(Uploaded)'
<1>1. Inv /\ upload_sessions[Uploaded] = None /\ TypeOK
  BY DEF DeviceInv, PromiseInv, Inv, UploadKnown, Registered
<1>2. CASE worker[w].pc = "commit" /\ CommitWrites(w)
  <2>1. /\ upload_sessions' = [upload_sessions EXCEPT ![Target(w)] = RowAfter(w)]
        /\ Registered(Target(w))
    BY <1>1, <1>2, CommitTables
  <2> QED  BY <1>1, <2>1, PackageFacts DEF Registered, TypeOK
<1> QED  BY <1>1, <1>2, ActsAlone DEF Registered

\* A step in which the device learns no checkpoint.
LEMMA DeviceKeeps ==
  ASSUME DeviceInv, [Next]_vars,
         NEW p, NEW a \in {None} \cup Workers, NEW c \in {device.code, "server_error"},
         device' = [device EXCEPT !.pc = p, !.at = a, !.code = c],
         \/ p = device.pc
         \/ p \in {"waiting", "lost"} /\ device.pc # "new",
         p = "new" => ~Registered(Uploaded)',
         \A v \in Workers : CarriesPieces(v)' /\ ServesDevice(v)'
  PROVE  DeviceInv'
<1>1. /\ device \in [pc : {"new", "ready", "waiting", "lost", "finished"},
                     at : {None} \cup Workers, offset : 0..Len(Package),
                     status : Status, code : {None} \cup Codes]
      /\ "server_error" \in Codes
  BY DEF DeviceInv, DeviceTypeOK, Codes
<1>2. /\ device'.pc = p /\ device'.offset = device.offset
      /\ device'.status = device.status /\ device'.code = c
  BY <1>1
<1>3. DeviceTypeOK'  BY <1>1 DEF DeviceTypeOK
<1>4. PromiseInv'  BY PromisesPreserved DEF DeviceInv
<1>5. UploadKnown'
  <2>1. CASE p = "new"
    <3>1. device.pc = "new"  BY <2>1
    <3> QED  BY <1>2, <2>1, <3>1 DEF UploadKnown, DeviceInv
  <2>2. CASE p # "new"
    <3>1. /\ Registered(Uploaded)' /\ Row'.total_bytes = Len(Package)
          /\ HoldsPackage(Row', chunks'[Uploaded])
      BY <2>2, UploadGoesOn
    <3> QED  BY <1>2, <2>2, <3>1 DEF UploadKnown
  <2> QED  BY <2>1, <2>2
<1>6. HasMore'  BY <1>2 DEF HasMore, DeviceInv
<1>7. BeliefIsStored'
  <2>1. CASE p = "new"  BY <1>2, <2>1 DEF BeliefIsStored
  <2>2. CASE p # "new"  BY <1>2, <2>2, BeliefKept
  <2> QED  BY <2>1, <2>2
<1>8. NeverAccused'  BY <1>2 DEF NeverAccused, DeviceInv
<1> QED  BY <1>3, <1>4, <1>5, <1>6, <1>7, <1>8 DEF DeviceInv

\* The registration: an active session without a byte.
LEMMA RegisterKeeps ==
  ASSUME DeviceInv, Register
  PROVE  DeviceInv'
<1>1. PICK m \in Registrations : CreateSession(Uploaded, m)  BY DEF Register
<1>2. /\ device.pc = "new" /\ device' = [device EXCEPT !.pc = "ready"]
      /\ DeviceTypeOK /\ Inv /\ TypeOK /\ ~Registered(Uploaded)
      /\ Uploaded \in Sessions /\ device.offset = 0 /\ device.status = "active"
  BY PackageFacts DEF Register, DeviceInv, PromiseInv, Inv, UploadKnown
<1>3. [Next]_vars  BY <1>1, <1>2 DEF Next, Serve
<1>4. PromiseInv' /\ Inv'  BY <1>3, PromisesPreserved DEF DeviceInv, PromiseInv
<1>5. /\ m.total_bytes = Len(Package)
      /\ upload_sessions' = [upload_sessions EXCEPT ![Uploaded] =
                               RegisteredRow(m.total_bytes, m.whole_sha256)]
      /\ UNCHANGED <<chunks, lock, worker>>
  BY <1>1, PackageAssumption DEF CreateSession
<1>6. Row' = RegisteredRow(m.total_bytes, m.whole_sha256)
  BY <1>2, <1>5 DEF TypeOK, Row
<1>7. /\ Row'.total_bytes = Len(Package) /\ Row'.confirmed_offset = 0
      /\ Row' \in UploadSession
  BY <1>5, <1>6, RegisteredIsSound DEF RegisteredRow
<1>8. Registered(Uploaded)'  BY <1>7, NoneIsDistinct DEF Registered, Row
<1>9. Whole(chunks'[Uploaded], 0) = SubSeq(Package, 1, 0)
  <2>1. 0 \in 0..Len(Package)  BY PackageFacts
  <2> QED  BY <2>1, PrefixOfPackage
<1>10. /\ device'.pc = "ready" /\ device'.offset = 0 /\ device'.status = "active"
       /\ device'.code = device.code /\ DeviceTypeOK'
  BY <1>2 DEF DeviceTypeOK
<1>11. UploadKnown'
  BY <1>7, <1>8, <1>9, <1>10 DEF UploadKnown, HoldsPackage
<1>12. HasMore' /\ BeliefIsStored' /\ NeverAccused'
  <2>1. 0 < Len(Package)  BY PackageFacts
  <2>2. NeverAccused'  BY <1>10 DEF NeverAccused, DeviceInv
  <2>3. BeliefIsStored'  BY <1>7, <1>9, <1>10 DEF BeliefIsStored
  <2> QED  BY <1>10, <2>1, <2>2, <2>3 DEF HasMore
<1>13. ASSUME NEW v \in Workers  PROVE CarriesPieces(v)' /\ ServesDevice(v)'
  <2>1. lock[Uploaded] # v  BY <1>2 DEF Inv, WorkerInv, LockOwned
  <2>2. \A s \in Sessions : lock[s] = v => /\ upload_sessions'[s] = upload_sessions[s]
                                           /\ chunks'[s] = chunks[s]
    BY <1>2, <1>5, <2>1 DEF TypeOK
  <2>3. CarriesPieces(v)'  BY <1>5, <2>2, OthersCarryPieces
  <2>4. ServesDevice(v)'  BY <1>10 DEF ServesDevice
  <2> QED  BY <2>3, <2>4
<1> QED  BY <1>4, <1>10, <1>11, <1>12, <1>13 DEF DeviceInv

\* An answer that arrives: the checkpoint and the verdict it carries are stored.
LEMMA HearKeeps ==
  ASSUME DeviceInv, NEW w \in Workers, Hear(w)
  PROVE  DeviceInv'
<1> DEFINE code == worker[w].code
           row == worker[w].loaded
<1>1. /\ device.pc = "waiting" /\ device.at = w /\ worker[w].pc = "done"
      /\ worker' = [worker EXCEPT ![w] = Idle]
      /\ UNCHANGED <<upload_sessions, chunks, audit_events>>
      /\ device' = Learned(code, row)
  BY DEF Hear, Close
<1>2. Acts(w) /\ [Next]_vars  BY DEF Hear, Acts, Step, Next, Serve
<1>3. /\ worker \in [Workers -> WorkerState] /\ DeviceTypeOK /\ w # None
  BY NoneIsDistinct DEF DeviceInv, PromiseInv, Inv, TypeOK
<1>4. worker'[w] = Idle  BY <1>1, <1>3
<1>5. code = "server_error" \/ TrueAnswer(code, row, Row)
  BY <1>1 DEF DeviceInv, ServesDevice
<1>6. device'.pc # "waiting"
  BY <1>1, <1>3 DEF Learned, DeviceTypeOK
<1>7. \A v \in Workers : CarriesPieces(v)' /\ ServesDevice(v)'
  BY <1>2, <1>4, <1>6, IdleServesNobody, EveryoneServes
<1>8. CASE code = "server_error"
  <2>1. device' = [device EXCEPT !.pc = "lost", !.at = None, !.code = "server_error"]
    BY <1>1, <1>8 DEF Learned
  <2>2. device.pc # "new"  BY <1>1
  <2>3. /\ None \in {None} \cup Workers /\ "server_error" \in {device.code, "server_error"}
        /\ "lost" \in {"waiting", "lost"} /\ "lost" # "new"
    OBVIOUS
  <2> HIDE DEF code, row
  <2> QED  BY <1>2, <1>7, <2>1, <2>2, <2>3, DeviceKeeps
<1>9. CASE code # "server_error"
  <2>1. /\ TrueAnswer(code, row, Row) /\ row \in UploadSession
        /\ row.confirmed_offset \in Nat /\ row.confirmed_offset <= Row.confirmed_offset
        /\ row.total_bytes = Len(Package)
        /\ row.status # "active" => Row = row
        /\ row.status = "active" => row.confirmed_offset < Len(Package)
        /\ code = "whole_digest_mismatch" => row.status = "failed"
        /\ code \in {"ok", "replayed", "stale_offset", "whole_digest_mismatch"}
    BY <1>1, <1>5, <1>9, UploadFacts, MaxBytesAssumption
    DEF TrueAnswer, EarlierRow, UploadSession
  <2>2. /\ HoldsPackage(Row, chunks[Uploaded]) /\ Row.confirmed_offset \in 0..Len(Package)
        /\ Registered(Uploaded) /\ Row.total_bytes = Len(Package)
    BY <1>1, UploadFacts
  <2>3. row.confirmed_offset \in 0..Row.confirmed_offset
        /\ row.confirmed_offset \in 0..Len(Package)
    BY <2>1, <2>2, PackageFacts
  <2>4. Whole(chunks[Uploaded], row.confirmed_offset)
          = SubSeq(Package, 1, row.confirmed_offset)
    BY <2>2, <2>3, ShorterPrefix DEF HoldsPackage
  <2>5. device' = [pc |-> IF row.status = "active" THEN "ready" ELSE "finished", at |-> None,
                   offset |-> row.confirmed_offset, status |-> row.status, code |-> code]
    BY <1>1, <1>9, <2>1 DEF Learned
  <2>6. Row' = Row /\ chunks' = chunks /\ upload_sessions' = upload_sessions
    BY <1>1 DEF Row
  <2>7. row.status \in Status /\ code \in Codes  BY <2>1 DEF UploadSession, Codes
  <2> HIDE DEF row, code
  <2>8. /\ device'.offset = row.confirmed_offset /\ device'.status = row.status
        /\ device'.code = code /\ device'.pc # "new"
        /\ device'.pc = "ready" => row.status = "active"
    BY <2>5
  <2>9. DeviceTypeOK'  BY <2>3, <2>5, <2>7 DEF DeviceTypeOK
  <2>10. UploadKnown'  BY <2>2, <2>6, <2>8 DEF UploadKnown, Registered
  <2>11. HasMore'  BY <2>1, <2>8 DEF HasMore
  <2>12. NeverAccused'  BY <2>1, <2>8 DEF NeverAccused
  <2>13. BeliefIsStored'
    BY <2>1, <2>4, <2>6, <2>8 DEF BeliefIsStored
  <2>14. PromiseInv'  BY <1>2, PromisesPreserved DEF DeviceInv
  <2> QED  BY <1>7, <2>9, <2>10, <2>11, <2>12, <2>13, <2>14 DEF DeviceInv
<1> QED  BY <1>8, <1>9

\* A step of the service that leaves the device alone.
LEMMA AloneKeeps ==
  ASSUME DeviceInv, NEW w \in Workers, Acts(w), CarriesPieces(w)', ServesDevice(w)',
         device' = device
  PROVE  DeviceInv'
<1>1. [Next]_vars  BY DEF Acts, Next, Serve
<1>2. \A v \in Workers : CarriesPieces(v)' /\ ServesDevice(v)'  BY EveryoneServes
<1>3. DeviceTypeOK /\ device.at \in {None} \cup Workers
      /\ device' = [device EXCEPT !.pc = device.pc, !.at = device.at, !.code = device.code]
  BY DEF DeviceInv, DeviceTypeOK
<1>4. device.pc = "new" => ~Registered(Uploaded)'  BY StaysUnknown
<1> QED  BY <1>1, <1>2, <1>3, <1>4, DeviceKeeps

\* A request of the device enters the service.
LEMMA AskKeeps ==
  ASSUME DeviceInv, NEW w \in Workers, Send(w) \/ Ask(w)
  PROVE  DeviceInv'
<1>1. PICK r \in Requests : /\ Receive(w, r) /\ r.session = Uploaded
                            /\ r.kind \in {"put", "session"}
                            /\ r.kind = "put" => IsPiece(r)
  <2>1. CASE Send(w)
    <3>1. PICK n \in PieceSizes : Receive(w, Piece(device.offset, n))  BY <2>1 DEF Send
    <3>2. device.offset \in 0..(Len(Package) - 1)
      BY <2>1, PackageFacts DEF Send, DeviceInv, HasMore, DeviceTypeOK
    <3> QED  BY <3>1, <3>2, PieceIsPiece
  <2>2. CASE Ask(w)
    <3>1. Receive(w, Query)  BY <2>2 DEF Ask
    <3> QED  BY <3>1, RequestersAssumption DEF Query
  <2> QED  BY <2>1, <2>2
<1>2. /\ device' = [device EXCEPT !.pc = "waiting", !.at = w]
      /\ device.pc \in {"ready", "lost"} /\ DeviceTypeOK
  BY DEF Send, Ask, DeviceInv
<1>3. device' = [device EXCEPT !.pc = "waiting", !.at = w, !.code = device.code]
  BY <1>2 DEF DeviceTypeOK
<1>4. device'.at = w  BY <1>2 DEF DeviceTypeOK
<1>5. Acts(w) /\ [Next]_vars  BY <1>1 DEF Acts, Next, Serve
<1>6. CarriesPieces(w)' /\ ServesDevice(w)'  BY <1>1, EntersServing
<1>7. \A v \in Workers : CarriesPieces(v)' /\ ServesDevice(v)'
  BY <1>4, <1>5, <1>6, EveryoneServes
<1>8. /\ device.pc # "new" /\ "waiting" \in {"waiting", "lost"} /\ "waiting" # "new"
      /\ w \in {None} \cup Workers /\ device.code \in {device.code, "server_error"}
  BY <1>2
<1> QED  BY <1>3, <1>5, <1>7, <1>8, DeviceKeeps

\* An answer or a request is lost, or comes too late.
LEMMA LossKeeps ==
  ASSUME DeviceInv, RequestLost \/ TimeOut \/ \E w \in Workers : AnswerLost(w)
  PROVE  DeviceInv'
<1>1. /\ device' = [device EXCEPT !.pc = "lost", !.at = None] /\ DeviceTypeOK
      /\ device.pc \in {"ready", "waiting"}
  BY DEF RequestLost, TimeOut, AnswerLost, Disconnected, DeviceInv
<1>2. device' = [device EXCEPT !.pc = "lost", !.at = None, !.code = device.code]
      /\ device'.pc = "lost" /\ device.pc # "new"
  BY <1>1 DEF DeviceTypeOK
<1>3. [Next]_vars /\ \A v \in Workers : CarriesPieces(v)' /\ ServesDevice(v)'
  <2>1. CASE UNCHANGED vars
    <3>1. [Next]_vars  BY <2>1
    <3> SUFFICES ASSUME NEW v \in Workers  PROVE CarriesPieces(v)' /\ ServesDevice(v)'
      BY <3>1
    <3>2. worker'[v] = worker[v] /\ UNCHANGED <<upload_sessions, chunks>>
      BY <2>1 DEF vars
    <3> QED  BY <1>2, <3>1, <3>2, OthersCarryPieces, OthersServe
  <2>2. CASE \E w \in Workers : AnswerLost(w)
    <3>1. PICK w \in Workers : Close(w)  BY <2>2 DEF AnswerLost
    <3>2. Acts(w) /\ [Next]_vars  BY <3>1 DEF Acts, Step, Next, Serve
    <3>3. worker'[w] = Idle  BY <3>1 DEF Close, DeviceInv, PromiseInv, Inv, TypeOK
    <3> QED  BY <1>2, <3>2, <3>3, IdleServesNobody, EveryoneServes
  <2> QED  BY <2>1, <2>2 DEF RequestLost, TimeOut
<1> QED  BY <1>2, <1>3, DeviceKeeps

\* The process dies with all its requests.
LEMMA RestartKeeps ==
  ASSUME DeviceInv, Restart,
         device' = IF device.pc = "waiting" THEN Disconnected ELSE device
  PROVE  DeviceInv'
<1>1. [Next]_vars /\ DeviceTypeOK /\ device.at \in {None} \cup Workers
  BY DEF Next, DeviceInv, DeviceTypeOK
<1>2. device'.pc # "waiting"  BY <1>1 DEF Disconnected, DeviceTypeOK
<1>3. \A v \in Workers : CarriesPieces(v)' /\ ServesDevice(v)'
  <2> TAKE v \in Workers
  <2>1. worker'[v] = Idle  BY DEF Restart
  <2> QED  BY <1>2, <2>1, IdleServesNobody
<1>4. CASE device.pc = "waiting"
  <2>1. device' = [device EXCEPT !.pc = "lost", !.at = None, !.code = device.code]
    BY <1>1, <1>4 DEF Disconnected, DeviceTypeOK
  <2>2. /\ device.pc # "new" /\ "lost" \in {"waiting", "lost"} /\ "lost" # "new"
        /\ None \in {None} \cup Workers /\ device.code \in {device.code, "server_error"}
    BY <1>4
  <2> QED  BY <1>1, <1>3, <2>1, <2>2, DeviceKeeps
<1>5. CASE device.pc # "waiting"
  <2>1. device' = [device EXCEPT !.pc = device.pc, !.at = device.at, !.code = device.code]
    BY <1>1, <1>5 DEF DeviceTypeOK
  <2>2. device.pc = "new" => ~Registered(Uploaded)'
    BY DEF Restart, DeviceInv, UploadKnown, Registered
  <2> QED  BY <1>1, <1>3, <2>1, <2>2, DeviceKeeps
<1> QED  BY <1>4, <1>5

-------------------------------------------------------------------------------
(***************************************************************************)
(* DeviceInv is an invariant.                                              *)
(***************************************************************************)
\* What the device and its service do is what Ingest lets clients do.
LEMMA DeviceStepIsStep ==
  ASSUME DeviceInv, [DeviceNext]_allVars
  PROVE  [Next]_vars
<1>1. CASE Register \/ OthersAsk
  <2>1. Others \subseteq Requests /\ Uploaded \in Sessions
    BY RequestersAssumption, PackageFacts
  <2> QED  BY <1>1, <2>1 DEF Register, OthersAsk, Next, Serve
<1>2. CASE \E w \in Workers : Send(w) \/ Ask(w)
  <2>1. PICK w \in Workers : Send(w) \/ Ask(w)  BY <1>2
  <2>2. CASE Send(w)
    <3>1. PICK n \in PieceSizes : Receive(w, Piece(device.offset, n))  BY <2>2 DEF Send
    <3>2. device.offset \in 0..(Len(Package) - 1)
      BY <2>2, PackageFacts DEF Send, DeviceInv, HasMore, DeviceTypeOK
    <3> QED  BY <3>1, <3>2, PieceIsPiece DEF Next, Serve
  <2>3. CASE Ask(w)
    BY <2>3, RequestersAssumption DEF Ask, Next, Serve
  <2> QED  BY <2>1, <2>2, <2>3
<1>3. CASE \E w \in Workers : Hear(w) \/ AnswerLost(w) \/ Work(w)
  BY <1>3 DEF Hear, AnswerLost, Work, Next, Serve, Step
<1>4. CASE ServiceFails  BY <1>4 DEF ServiceFails, Next, Serve
<1>5. CASE RequestLost \/ TimeOut \/ UNCHANGED allVars
  BY <1>5 DEF RequestLost, TimeOut, allVars
<1> QED  BY <1>1, <1>2, <1>3, <1>4, <1>5 DEF DeviceNext

\* Every step keeps the invariant.
LEMMA DevicePreserved ==
  ASSUME DeviceInv, [DeviceNext]_allVars
  PROVE  DeviceInv'
<1>1. CASE OthersAsk
  <2>1. PICK w \in Workers, r \in Others : Receive(w, r) /\ UNCHANGED deviceVars
    BY <1>1 DEF OthersAsk
  <2>2. r \in Requests /\ Acts(w) /\ device' = device
        /\ (r.session = Uploaded => r.kind # "put")
    BY <2>1, RequestersAssumption DEF Acts, deviceVars
  <2>3. ~(device.pc = "waiting" /\ device.at = w)
    BY <2>1 DEF Receive, DeviceInv, ServesDevice
  <2>4. CarriesPieces(w)' /\ ServesDevice(w)'
    BY <2>1, <2>2, <2>3, EntersServing
  <2> QED  BY <2>2, <2>4, AloneKeeps
<1>2. CASE \E w \in Workers : Work(w)
  <2>1. PICK w \in Workers : Work(w)  BY <1>2
  <2>2. device' = device /\ Acts(w)
    BY <2>1 DEF Work, deviceVars, Acts, Step
  <2>3. CASE Write(w) \/ Read(w)  BY <2>2, <2>3, ActorServes, AloneKeeps
  <2>4. CASE Close(w) /\ device.at # w
    <3>1. worker'[w] = Idle  BY <2>4 DEF Close, DeviceInv, PromiseInv, Inv, TypeOK
    <3> QED  BY <2>2, <2>4, <3>1, IdleServesNobody, AloneKeeps
  <2> QED  BY <2>1, <2>3, <2>4 DEF Work
<1>3. CASE ServiceFails
  <2>1. CASE \E w \in Workers : (CommitUnanswered(w) \/ DbError(w)) /\ UNCHANGED device
    <3>1. PICK w \in Workers : (CommitUnanswered(w) \/ DbError(w)) /\ UNCHANGED device
      BY <2>1
    <3> QED  BY <3>1, ActorServes, AloneKeeps DEF Acts
  <2> QED  BY <1>3, <2>1, RestartKeeps DEF ServiceFails
<1>4. CASE UNCHANGED allVars
  <2>1. UNCHANGED <<upload_sessions, chunks, worker, device>> /\ UNCHANGED vars
    BY <1>4 DEF allVars, vars, deviceVars
  <2>2. PromiseInv'  BY <2>1, PromisesPreserved DEF DeviceInv
  <2>3. DeviceTypeOK' /\ UploadKnown' /\ HasMore' /\ BeliefIsStored' /\ NeverAccused'
    BY <2>1 DEF DeviceInv, DeviceTypeOK, UploadKnown, HasMore, BeliefIsStored,
                NeverAccused, Registered, Row
  <2>4. \A v \in Workers : CarriesPieces(v)' /\ ServesDevice(v)'
    BY <2>1, OthersCarryPieces, OthersServe DEF DeviceInv
  <2> QED  BY <2>2, <2>3, <2>4 DEF DeviceInv
<1> QED  BY <1>1, <1>2, <1>3, <1>4, RegisterKeeps, HearKeeps, AskKeeps, LossKeeps
         DEF DeviceNext

\* At the start the session does not exist.
LEMMA InitDevice ==
  ASSUME DeviceInit
  PROVE  DeviceInv
<1>1. PromiseInv  BY InitPromises DEF DeviceInit
<1>2. device = [pc |-> "new", at |-> None, offset |-> 0, status |-> "active", code |-> None]
  BY DEF DeviceInit
<1>3. DeviceTypeOK  BY <1>2, PackageFacts DEF DeviceTypeOK, Status
<1>4. UploadKnown
  BY <1>2, PackageFacts DEF DeviceInit, Init, UploadKnown, Registered
<1>5. HasMore /\ BeliefIsStored /\ NeverAccused
  BY <1>2 DEF HasMore, BeliefIsStored, NeverAccused
<1>6. ASSUME NEW w \in Workers  PROVE CarriesPieces(w) /\ ServesDevice(w)
  <2>1. worker[w].pc = "idle"  BY DEF DeviceInit, Init, Idle
  <2> QED  BY <1>2, <2>1 DEF CarriesPieces, ServesDevice
<1> QED  BY <1>1, <1>3, <1>4, <1>5, <1>6 DEF DeviceInv

\* In every reachable state all uploads to the session bring slices of one package,
\* and the answer that is under way to the device is true.
THEOREM DeviceInvariance == DeviceSpec => []DeviceInv
<1>1. DeviceInv /\ [DeviceNext]_allVars => DeviceInv'  BY DevicePreserved
<1> QED  BY <1>1, InitDevice, PTL DEF DeviceSpec

\* A checkpoint or a verdict that a device has heard of is stored, whatever was
\* lost, repeated, overtaken or restarted since (put_chunk, _offset_conflict,
\* get_session).
THEOREM BeliefsAreStored == DeviceSpec => []BeliefIsStored
<1>1. DeviceInv => BeliefIsStored  BY DEF DeviceInv
<1> QED  BY <1>1, DeviceInvariance, PTL

\* The comparison of put_chunk and _terminal_replay with the archived bytes never
\* refuses a device that sends its own package.
THEOREM HonestDeviceIsNeverAccused == DeviceSpec => []NeverAccused
<1>1. DeviceInv => NeverAccused  BY DEF DeviceInv
<1> QED  BY <1>1, DeviceInvariance, PTL

\* A device with its link and its service is one behaviour of Ingest, so what is
\* proved of Spec holds for it: among others it uploads a Package.
THEOREM DeviceUsesService == DeviceSpec => Spec
<1>1. DeviceInv /\ [DeviceNext]_allVars => [Next]_vars  BY DeviceStepIsStep
<1>2. DeviceInit => Init  BY DEF DeviceInit
<1> QED  BY <1>1, <1>2, DeviceInvariance, PTL DEF DeviceSpec, Spec

\* The package of the device grows and is judged as Package says.
THEOREM DevicePackageRefined == DeviceSpec => PackageSpec
  BY DeviceUsesService, PackageRefined
==============================================================================
