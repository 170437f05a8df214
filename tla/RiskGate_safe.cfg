SPECIFICATION Spec
CONSTANTS
  Symbols <- OneSymbol
  Results <- OneUpOrDown
  Equity0 = 10
  Margin = 4
  MaxDrawdown = 10
  MaxLosses = 2
  Cooldown = 2
  DailyLoss = 15
  MaxMargin = 80
  MaxTrades = 2
  DeleverAt = 80
  DeleverWait = 1
  ReduceAt = 10
  ReduceWait = 1
  MaxEntries = 1
  MaxFees = 1
INVARIANTS
  TypeOK
PROPERTIES
  CooldownHolds
