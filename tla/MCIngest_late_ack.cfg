SPECIFICATION Spec
CONSTANTS
  s1 = s1
  s2 = s2
  w1 = w1
  w2 = w2
  w3 = w3
  None = None
  Sessions = {s1}
  Workers = {w1, w2}
  Byte = {0, 1}
  MaxBytes = 2
  Digests <- MCDigests
  Sha256 <- MCSha256
  Registrations <- FailedRegistrations
  Requests <- LateAckRequests
  Legacy <- NoLegacy
  MaxChunkBytes = 2
  MaxBigint = 8
  MaxAudit = 2
INVARIANTS
  AckOfLiveSession
