\* Two producers on a ring of two slots, used again after the first lap: it
\* fills, and a producer with a stale load meets the tickets of the next lap.
CONSTANTS
  Capacity = 2
  Producers = {p1, p2}
  Trades = {t1, t2}
  NoTrade = NoTrade
  MaxTicket = 3
SPECIFICATION FairSpec
INVARIANTS
  NoDataRace
PROPERTIES
  ImplementsBoundedTradeQueue
  EveryPushReturns
  EveryTicketIsPopped
