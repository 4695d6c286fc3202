CONSTANTS
  Clients = {c1, c2}
  None = None
  HasCallbacks = FALSE
  MaxStarts = 3
SPECIFICATION FairSpec
INVARIANTS
  AllOrNothing
PROPERTIES
  StopReturns
  EveryClientAnswered
CHECK_DEADLOCK FALSE
