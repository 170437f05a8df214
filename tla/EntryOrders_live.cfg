SPECIFICATION FairSpec
CONSTANTS
  NoOrder = NoOrder
  Orders = {o1}
  Qty = 2
  Policy = "wait"
  UserStream = TRUE
  MaxFaults = 1
  MaxCommands = 0
  MaxCloses = 0
PROPERTIES
  EndIsNoticed
  FilledIsRegistered
  PendingIsResolved
