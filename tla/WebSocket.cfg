CONSTANTS
  IO = IO
  Senders = {t1}
  MaxReconnectAttempts = 1
  MaxOrders = 1
  MaxHeartbeats = 1
  MaxFailures = 2
SPECIFICATION FairSpec
INVARIANTS
  SingleWriter
PROPERTIES
  ConnectsOrStops
  QueueDrains
CHECK_DEADLOCK FALSE
