SPECIFICATION FairSpec
CONSTANT ShutdownUsed = TRUE
CHECK_DEADLOCK FALSE
INVARIANTS
  ServerOutlivesUsers
  MicrophoneOutlivesCallback
  NoCircularWait
  ShutdownStopsAll
PROPERTIES
  ShutdownFinishes
  QuitEnds
