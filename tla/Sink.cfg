CONSTANTS
  MaxItems = 4
  Capacity = 2
SPECIFICATION FairSpec
CHECK_DEADLOCK FALSE
INVARIANTS
  PermitMeansReady
  ItemsSentOnce
  TerminatedMeansIssued
  WakeupComing
PROPERTIES
  ReservationEnds
