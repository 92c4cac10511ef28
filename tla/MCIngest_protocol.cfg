SPECIFICATION Spec
CONSTANTS
  s1 = s1
  s2 = s2
  w1 = w1
  w2 = w2
  w3 = w3
  None = None
  Sessions = {s1, s2}
  Workers = {w1}
  Byte = {0, 1}
  MaxBytes = 3
  Digests <- MCDigests
  Sha256 <- MCSha256
  Registrations <- ProtocolRegistrations
  Requests <- ProtocolRequests
  Legacy <- ProtocolLegacy
  MaxChunkBytes = 2
  MaxBigint = 8
  MaxAudit = 3
INVARIANTS
  TypeOK
  AuditTrailOrdered
  AuditTrailExplainsLayout
PROPERTIES
  PackageSpec
