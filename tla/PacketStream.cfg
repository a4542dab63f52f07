SPECIFICATION FairSpec
CONSTANTS
  Broadcasters = {b1, b2}
  Cap = 2
  RequestUnits = 2
  ResponseUnits = 2
  FrameUnits = 1
  TornSizes = {0, 2, 9}
  MaxFrames = 1
  MaxBeats = 2
CHECK_DEADLOCK FALSE
INVARIANTS
  TypeOK
  BroadcastsWhole
  LostOnlyByOverlap
  FailedOnlyByFrame
  BeatsAnswered
PROPERTIES
  ImplementsChannel
  BroadcastReturns
