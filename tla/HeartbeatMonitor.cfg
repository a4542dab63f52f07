SPECIFICATION Spec
CONSTANTS
  Clients = {c1, c2}
  Timeout = 6
  Period = 1
  MaxWait = 1
  Word = 64
  MaxTime = 14
CHECK_DEADLOCK FALSE
INVARIANTS
  DetectedInTime
