SPECIFICATION FairDeviceSpec
CONSTANTS
  s1 = s1
  s2 = s2
  w1 = w1
  w2 = w2
  w3 = w3
  None = None
  Sessions = {s1}
  Workers = {w1, w2}
  Byte = {0, 1}
  MaxBytes = 3
  Digests <- MCDigests
  Sha256 <- MCSha256
  Registrations <- DeviceRegistrations
  Requests <- DeviceRequests
  Others <- OthersRequests
  Legacy <- NoLegacy
  MaxChunkBytes = 3
  MaxBigint = 8
  MaxAudit = 2
  Uploaded = s1
  Package <- MCPackage
  PieceSizes = {1, 2, 3}
  MaxFaults = 2
INVARIANTS
  BeliefIsStored
  NeverAccused
PROPERTIES
  UploadEnds
  EveryRequestAnswered
  PackageSpec
CHECK_DEADLOCK FALSE
