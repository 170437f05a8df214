SPECIFICATION FairSpec
CONSTANTS
  Nodes <- TwoNodes
  Supported <- TwoNodes
  Sources <- OneSource
  Nodes0 <- GoodAndUp
  MaxFails = 1
  MaxEvents = 2
INVARIANTS
  TypeOK
PROPERTIES
  Recovers
  NeverStuck
