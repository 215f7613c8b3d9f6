CONSTANT MaxElements = 4
SPECIFICATION Spec
CHECK_DEADLOCK FALSE
INVARIANTS
  CollectedInOrder
  FirstErrorReturned
  WakeupComing
PROPERTIES
  ImplementsThenTry
