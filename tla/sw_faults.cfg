SPECIFICATION Spec
CONSTANTS
  Req = {1, 2}
  Worker = {w1, w2}
  Asks <- FaultAsks
  InitRows <- UserRows
  MaxFaults = 1
  None = None
INVARIANTS TypeOK AckedIsCommitted PrefixCommitted
CHECK_DEADLOCK FALSE
PROPERTIES TurnEnds
