CONSTANTS
  Users = {u1, u2}
  NoUser = NoUser
  MaxPanics = 0
SPECIFICATION Spec
CHECK_DEADLOCK FALSE
PROPERTIES
  CancelledFuturePoisons
