SPECIFICATION Spec
CONSTANTS
  Req = {r1, r2, r3}
  None = None
  MAXCONN = 1
  Nonce = {0, 1}
  Kinds = {"forward", "local", "unparsed"}
  SendFails = TRUE
  Overrun = TRUE
  ReaderDies = TRUE
  ChldHeld = FALSE
  MaxCrash = 1
INVARIANTS ReplyToOwner ResultComesFirst
SYMMETRY Symm
CHECK_DEADLOCK FALSE
