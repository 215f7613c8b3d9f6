CONSTANTS
  Cancelers = {c1, c2, c3}
  MaxMessages = 3
SPECIFICATION FairSpec
CHECK_DEADLOCK FALSE
INVARIANTS
  WaitersFreed
  OnlyFirstReceived
  WaiterOutlivesReceiver
  NoneMeansOver
PROPERTIES
  WaitersReleased
  CancelNoticed
