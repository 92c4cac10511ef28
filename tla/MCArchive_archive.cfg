SPECIFICATION Spec
CONSTANTS
  None = None
  Absent = Absent
  NotDigits = NotDigits
  TooLong = TooLong
  Byte = {0, 1}
  MaxBytes = 3
  Digests <- MCDigests
  Sha256 <- MCSha256
  Packages <- MCPackages
  Boundaries <- MCBoundaries
  Targets = {1, 2, 4}
  MaxDamages = 2
INVARIANTS
  AnswersTheHeader
  ReleasesSealedBytes
  CommitsThePlannedRows
  FinalizeAgrees
  ArchivedBytesAgree
  CompactionAgrees
