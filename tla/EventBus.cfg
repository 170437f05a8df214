SPECIFICATION FairSpec
CONSTANTS
  MaxMessages = 3
  MaxFaults = 2
  Batch = 2
  StallStrikes = 2
INVARIANTS
  TypeOK
  Current
PROPERTIES
  Settled
  StallStops
