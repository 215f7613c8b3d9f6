CONSTANTS
  Users = {u1, u2, u3}
  NoUser = NoUser
  MaxPanics = 1
SPECIFICATION FairSpec
INVARIANTS
  LockAccounted
  HolderSeesFlags
  CleanMeansIntact
  PanicFlagMeansPanic
PROPERTIES
  NoCleanGrantAfterPoison
  FirstPanicPoisons
  ImplementsPoisonLock
  BlockedServed
