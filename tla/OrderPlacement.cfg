SPECIFICATION FairSpec
CONSTANTS
  MaxPlace = 3
  MaxCalls = 3
  MaxBiz = 3
  RecvWindow = 3
  Margin = 1
  MinTimeout = 3
  Skew = 1
  MaxResets = 2
  MaxFaults = 3
INVARIANTS
  TypeOK
  DuplicateIsRecovered
PROPERTIES
  KeepsPromise
  Ends
CHECK_DEADLOCK FALSE
