SPECIFICATION Spec
CONSTANTS
  Req = {r1, r2, r3}
  None = None
  MAXCONN = 1
  Nonce = {0, 1}
  Kinds = {"forward"}
  SendFails = FALSE
  Overrun = FALSE
  ReaderDies = FALSE
  ChldHeld = TRUE
  MaxCrash = 1
INVARIANTS TypeOK AnsweredOnce TimeoutIsOwn
PROPERTIES EveryRequestEnds ServiceSpec
CHECK_DEADLOCK FALSE
