SPECIFICATION FairSpec
CONSTANTS
  Entries <- OneEntry
  Qty = 2
  MaxFaults = 1
  MaxCommands = 1
INVARIANTS
  TypeOK
  SettledIsNotOpen
PROPERTIES
  Converges
  OrphansEnd
