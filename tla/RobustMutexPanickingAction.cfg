CONSTANTS
  Users = {u1, u2}
  NoUser = NoUser
  MaxPanics = 2
SPECIFICATION Spec
CHECK_DEADLOCK FALSE
PROPERTIES
  PanickingActionPoisons
