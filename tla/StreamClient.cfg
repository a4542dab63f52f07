SPECIFICATION FairSpec
CONSTANTS
  Sessions = {s1, s2}
  Platforms = {"winsock", "linux"}
  Invalid = Invalid
CHECK_DEADLOCK FALSE
INVARIANTS
  DisconnectLeavesNothing
  ConnectedIsHeard
  DisconnectCutsOff
  HandshakeAlone
  AbortOnlyAfterLoss
PROPERTIES
  ServerCloseNoticed
  DisconnectReturns
