SPECIFICATION Spec
CONSTANTS
  Srv = 2
  Gateways = {2}
  Num = {1, 2}
  MaxTotal = 3
  Slots = 2
  Pids = 6
  Fails = {"fork", "select", "cursor"}
  Window = TRUE
  MaxConns = 2
  MayExit = TRUE
  MaxOutages = 1
  MaxDeaths = 2
  MaxChanges = 1
  MaxFails = 1
  MaxFaults = 2
INVARIANTS TypeOK DeathIsNoted Tracked OneUntold
CHECK_DEADLOCK FALSE
PROPERTIES Restarted Supervised
