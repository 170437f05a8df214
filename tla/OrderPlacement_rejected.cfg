SPECIFICATION Spec
CONSTANTS
  MaxPlace = 2
  MaxCalls = 2
  MaxBiz = 2
  RecvWindow = 3
  Margin = 1
  MinTimeout = 3
  Skew = 1
  MaxResets = 0
  MaxFaults = 1
INVARIANTS
  RejectedIsNotPlaced
CHECK_DEADLOCK FALSE
