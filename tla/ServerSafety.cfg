SPECIFICATION Spec
CONSTANTS
  Conns = {c1, c2, c3}
  Fds = {f1, f2}
  Broadcasters = {b1}
  IdModulus = 2
  MaxAccepted = 3
  CloseWakes = FALSE
  DisconnectUsed = FALSE
  NoConn = NoConn
  Invalid = Invalid
SYMMETRY Symmetry
CHECK_DEADLOCK FALSE
INVARIANTS
  StopLeavesNothing
  StopClosesAll
  MapHoldsNoDeadClient
  ServedIsRegistered
  NoDescriptorLeak
  IterationStable
  ServedOwnsSocket
PROPERTIES
  ImplementsRegistry
