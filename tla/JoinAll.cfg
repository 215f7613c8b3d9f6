CONSTANTS
  MaxFutures = 4
  SMALL = 3
  Hints <- MCHints
  NO_ATOMIC_CAS = {"thumbv6m"}
  Targets = {{}, {"thumbv6m"}, {"x86_64"}}
SPECIFICATION Spec
CHECK_DEADLOCK FALSE
INVARIANTS
  SameResult
  WakeupComing
PROPERTIES
  ImplementsThenTry
