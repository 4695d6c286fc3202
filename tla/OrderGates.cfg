SPECIFICATION Spec
CONSTANTS
  MaxPerSecond = 2
  MaxPer100ms = 1
  TicksPer100ms = 2
  IntervalsPerSecond = 3
  MaxTime = 7
  MaxOrderQuantity = 2
  MaxOrderNotional = 483840
  MaxNetPosition = 2
  AllowMarketOrders = TRUE
  Trades <- SomeTrades
  FillPrices = {0, 120960, 241920}
  Mids = {120960}
  MaxOrders = 4
INVARIANTS
  AlignedWindowsRespected
  AccountingBalances
  PositionWithinLimit
  RefusalsAreDue
CHECK_DEADLOCK FALSE
