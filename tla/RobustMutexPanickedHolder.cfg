CONSTANTS
  Users = {u1, u2}
  NoUser = NoUser
  MaxPanics = 1
SPECIFICATION Spec
CHECK_DEADLOCK FALSE
PROPERTIES
  PanickedHolderPoisons
