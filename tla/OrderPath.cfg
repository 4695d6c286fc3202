SPECIFICATION FairSpec
CONSTANTS
  Strategies = {s1}
  Trades <- OneBuy
  Mids = {1}
  QueueCapacity = 1
  MaxOrders = 2
  MaxRefusals = 1
  MaxDisconnects = 1
  MaxOrderQuantity = 5
  MaxOrderNotional = 5
  MaxNetPosition = 2
  AllowMarketOrders = TRUE
  NoOrder = no_order
  NoTrade = no_trade
  NoResponse = no_response
INVARIANTS
  SentOnce
  CallbackFindsTrade
PROPERTIES
  AcceptedAreSent
CHECK_DEADLOCK FALSE
