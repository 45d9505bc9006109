SPECIFICATION Spec
CONSTANTS
  Req = {1, 2}
  Worker = {w1}
  Asks <- AllAsks
  InitRows <- AllRows
  MaxFaults = 0
  None = None
INVARIANTS RoleMenuHasRole UserPostHasUser FreshReads
PROPERTIES StoreSpec
CHECK_DEADLOCK FALSE
