SPECIFICATION Spec
CONSTANTS
  Sender = {s1, s2}
  Receiver = {r1}
  First = First
  Chunks = {1, 2, 4}
  Capacity = 3
  MsqNumMax = 2
  Supply = 2
  SenderDies = TRUE
  MaxBreaks = 1
INVARIANTS TypeOK OneSource WholeUnlessCut
PROPERTIES QueueSpec CallsReturn
CHECK_DEADLOCK FALSE
