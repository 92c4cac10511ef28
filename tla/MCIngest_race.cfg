SPECIFICATION Spec
CONSTANTS
  s1 = s1
  s2 = s2
  w1 = w1
  w2 = w2
  w3 = w3
  None = None
  Sessions = {s1}
  Workers = {w1, w2}
  Byte = {0, 1}
  MaxBytes = 3
  Digests <- MCDigests
  Sha256 <- MCSha256
  Registrations <- RaceRegistrations
  Requests <- RaceRequests
  Legacy <- NoLegacy
  MaxChunkBytes = 3
  MaxBigint = 8
  MaxAudit = 2
INVARIANTS
  PromiseInv
  CheckpointMatchesArchive
  VerdictIsTrue
  LockedSnapshotFresh
  NoUniqueViolation
  AckIsDurable
  RetryIsHonoured
  ReadersSeeWholeLayouts
  DownloadIsExact
  TrailKnowsTheSeal
PROPERTIES
  ConfirmedBytesImmutable
  TerminalIsFinal
