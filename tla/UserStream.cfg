SPECIFICATION FairSpec
CONSTANTS
  Keys = {k1, k2, k3, k4}
  NoKey = NoKey
  MaxFaults = 3
INVARIANTS
  TypeOK
PROPERTIES
  PushesReturn
