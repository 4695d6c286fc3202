CONSTANTS
  urgent = urgent
  urgent2 = urgent2
  high = high
  low = low
  NoTrade = NoTrade
  Producer = Producer
  Trades <- FourTrades
  Priority <- EdgePriorities
  CapacityPerLevel = 4
  MaxPushes = 5
SPECIFICATION Spec
INVARIANTS
  NoDataRace
  PopsTheHighest
PROPERTIES
  EachLevelIsAQueue
