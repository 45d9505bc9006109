SPECIFICATION Spec
CONSTANTS
  Srv = 2
  Gateways = {2}
  Num = {1}
  MaxTotal = 2
  Slots = 4
  Pids = 7
  Fails = {}
  Window = FALSE
  MaxConns = 2
  MayExit = FALSE
  MaxOutages = 1
  MaxDeaths = 0
  MaxChanges = 0
  MaxFails = 0
  MaxFaults = 1
PROPERTY RestartedAlways
CHECK_DEADLOCK FALSE
