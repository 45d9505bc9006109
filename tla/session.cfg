SPECIFICATION Spec
CONSTANTS
  Worker = {w1, w2}
  u1 = u1
  u2 = u2
  Logins <- TwoUsers
  Nobody = Nobody
  Life = 2
  Refresh = 2
  MaxKeys = 3
  MaxRows = 2
  MaxFaults = 2
INVARIANTS TypeOK TokenBacked WithinLife ListComplete
CHECK_DEADLOCK FALSE
