SPECIFICATION CompareSpec
CONSTANTS
  s1 = s1
  s2 = s2
  w1 = w1
  w2 = w2
  w3 = w3
  k1 = k1
  None = None
  Sessions = {s1, s2}
  Workers = {w1}
  Comparers = {k1}
  Pairs <- AllPairs
  MaxComparisons = 2
  Byte = {0, 1}
  MaxBytes = 2
  Digests <- MCDigests
  Sha256 <- MCSha256
  Registrations <- CompareRegistrations
  Requests <- CompareRequests
  Legacy <- CompareLegacy
  MaxChunkBytes = 2
  MaxBigint = 8
  MaxAudit = 2
INVARIANTS
  ComparisonsAreTrue
  NoFalseAlarm
