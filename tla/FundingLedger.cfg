SPECIFICATION FairSpec
CONSTANTS
  MaxFees = 3
  MaxFaults = 3
  MaxCrashes = 2
INVARIANTS
  TypeOK
  BookedOnce
  OneSource
  FileIsSafe
PROPERTIES
  EveryFeeSettled
