SPECIFICATION Spec
CONSTANTS
  c1 = c1
  c2 = c2
  Clients = {c1, c2}
  Flusher = flusher
  NoOne = no_one
  Torn = torn
  FlusherModes = {TRUE, FALSE}
  QueueCapacity = 2
  BatchSize = 2
  PageSize = 1
  MaxEvents = 3
  MaxFlushes = 1
  MaxFailures = 1
  MaxRestarts = 1
  TornWrites = TRUE
  Timeouts = TRUE
SYMMETRY ClientSymmetry
INVARIANTS
  ReplayInOffsetOrder
  PagesAreComplete
  FlushIsDurable
  CloseDrains
CHECK_DEADLOCK FALSE
