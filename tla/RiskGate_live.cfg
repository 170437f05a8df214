SPECIFICATION FairSpec
CONSTANTS
  Symbols <- OneSymbol
  Results <- OneUpOrDown
  Equity0 = 10
  Margin = 7
  MaxDrawdown = 90
  MaxLosses = 9
  Cooldown = 0
  DailyLoss = 90
  MaxMargin = 80
  MaxTrades = 0
  DeleverAt = 60
  DeleverWait = 2
  ReduceAt = 90
  ReduceWait = 0
  MaxEntries = 1
  MaxFees = 0
PROPERTIES
  EquityFollows
  MarginIsCut
