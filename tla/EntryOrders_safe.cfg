SPECIFICATION Spec
CONSTANTS
  NoOrder = NoOrder
  Orders = {o1}
  Qty = 2
  Policy = "cancel"
  UserStream = TRUE
  MaxFaults = 1
  MaxCommands = 1
  MaxCloses = 1
INVARIANTS
  TypeOK
  RegisteredIsExecuted
  LocalNeverAhead
  GivenUpIsDead
  CoverWithinPosition
