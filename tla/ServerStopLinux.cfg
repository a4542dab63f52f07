SPECIFICATION ReadingSpec
CONSTANTS
  Conns = {c1}
  Fds = {f1}
  Broadcasters = {b1, b2}
  IdModulus = 3
  MaxAccepted = 1
  CloseWakes = FALSE
  DisconnectUsed = TRUE
  NoConn = NoConn
  Invalid = Invalid
CHECK_DEADLOCK FALSE
PROPERTIES
  StopReturns
