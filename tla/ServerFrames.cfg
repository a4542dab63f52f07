SPECIFICATION Spec
CONSTANTS
  Conns = {c1, c2}
  Fds = {f1, f2}
  Broadcasters = {b1}
  IdModulus = 3
  MaxAccepted = 2
  CloseWakes = TRUE
  DisconnectUsed = FALSE
  NoConn = NoConn
  Invalid = Invalid
SYMMETRY Symmetry
CHECK_DEADLOCK FALSE
INVARIANTS
  FramesReachTheirClient
