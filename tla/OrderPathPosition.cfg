SPECIFICATION Spec
CONSTANTS
  Strategies = {s1}
  Trades <- OneBuy
  Mids = {1}
  QueueCapacity = 2
  MaxOrders = 1
  MaxRefusals = 0
  MaxDisconnects = 0
  MaxOrderQuantity = 5
  MaxOrderNotional = 5
  MaxNetPosition = 0
  AllowMarketOrders = TRUE
  NoOrder = no_order
  NoTrade = no_trade
  NoResponse = no_response
INVARIANTS
  PositionFollowsFills
CHECK_DEADLOCK FALSE
