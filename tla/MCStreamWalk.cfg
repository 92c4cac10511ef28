SPECIFICATION FairSpec
CONSTANTS
  None = None
  Byte = {0, 1}
  MaxBytes = 3
  Digests <- MCDigests
  Sha256 <- MCSha256
  Streams <- MCStreams
INVARIANTS
  CursorsInStep
  AnswerIsFirstDifference
PROPERTIES
  WalkEnds
CHECK_DEADLOCK FALSE
