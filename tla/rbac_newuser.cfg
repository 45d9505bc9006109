SPECIFICATION Spec
CONSTANTS
  Req = {1, 2}
  Worker = {w1}
  Asks <- NewUserAsks
  InitRows <- UserRows
  MaxFaults = 0
  None = None
INVARIANTS GrantsNameRoles
CHECK_DEADLOCK FALSE
