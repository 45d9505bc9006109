SPECIFICATION Spec
CONSTANTS
  MaxReq = 5
  Numbers = {1, 2}
  Cap1106 = 2
  Cap2810 = 3
  PipeCap = 1
  Limits = {1, 3}
  MaxLen = 3
  Lengths <- MCLengths
  MaxDeaths = 1
INVARIANTS TypeOK LoopNeverWaits WorkersNeverWait
CHECK_DEADLOCK FALSE
PROPERTIES Drains
