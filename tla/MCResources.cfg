SPECIFICATION FairSpec
CONSTANTS
  w1 = w1
  w2 = w2
  k1 = k1
  k2 = k2
  reader = reader
  s1 = s1
  s2 = s2
  None = None
  Requests = {w1, w2, k1, k2, reader}
  Writers = {w1, w2}
  Rows <- MCRows
  Sessions = {s1, s2}
  Threads = 3
  Connections = 2
INVARIANTS
  TypeOK
  WaitersHoldNothing
  OnlyCheckoutsStandStill
PROPERTIES
  NobodyWaitsForEver
