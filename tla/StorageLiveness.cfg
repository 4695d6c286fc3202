SPECIFICATION FairSpec
CONSTANTS
  c1 = c1
  c2 = c2
  Clients = {c1, c2}
  Flusher = flusher
  NoOne = no_one
  Torn = torn
  FlusherModes = {TRUE, FALSE}
  QueueCapacity = 2
  BatchSize = 2
  PageSize = 2
  MaxEvents = 2
  MaxFlushes = 2
  MaxFailures = 0
  MaxRestarts = 0
  TornWrites = FALSE
  Timeouts = TRUE
PROPERTIES
  ImplementsStorage
  EveryEventCommitted
  EveryCallReturns
CHECK_DEADLOCK FALSE
