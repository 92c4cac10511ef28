SPECIFICATION FairSpec
CONSTANTS
  Requests = {r1, r2, r3}
  Attempts = 3
  MaxOutages = 3
  MaxCrashes = 2
  Closed = Closed
INVARIANTS
  TypeOK
  ServesWithSchema
  FailsOnlyInOutage
PROPERTIES
  ComesToServe
