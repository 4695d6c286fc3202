SPECIFICATION FairSpec
CONSTANTS
  Messages <- AllMessages
  MaxMessages = 1
  NoEvent = no_event
  Strategies <- MakerAndMomentum
  MaxWaits = 1
  MaxOrders = 2
  MaxRefusals = 1
  MaxDisconnects = 1
INVARIANTS
  NothingAppendedAfterClose
  StoppedStrategiesAreQuiet
  NeverTerminates
  RefusalsReachTheStrategies
PROPERTIES
  ShutdownCompletes
CHECK_DEADLOCK FALSE
