SPECIFICATION Spec
CONSTANTS
  Req = {r1, r2}
  None = None
  MAXCONN = 1
  Nonce = {0, 1}
  Kinds = {"forward", "local"}
  SendFails = FALSE
  Overrun = FALSE
  ReaderDies = FALSE
  ChldHeld = TRUE
  MaxCrash = 0
INVARIANT TimeoutIsOwn
CHECK_DEADLOCK FALSE
