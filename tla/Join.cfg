CONSTANT MaxBranches = 3
SPECIFICATION FairSpec
CHECK_DEADLOCK FALSE
INVARIANTS
  PolledOnce
  FirstListedReturned
  WakeupComing
PROPERTIES
  BudgetGoesRound
  ImplementsThenTry
  NobodyStarves
