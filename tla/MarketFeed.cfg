SPECIFICATION FairSpec
CONSTANTS
  Redundant = 2
  MaxEvents = 3
INVARIANTS
  TypeOK
  CalledOnce
  RowsAscend
PROPERTIES
  ClosureIsCalled
  PrimaryReturns
