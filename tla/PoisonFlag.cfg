CONSTANTS
  Users = {u1, u2}
  NoUser = NoUser
SPECIFICATION Spec
INVARIANTS
  CausesTold
