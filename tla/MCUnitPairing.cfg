SPECIFICATION FairSpec
CONSTANTS
  Resolutions = {1}
  ReinitThreshold = 2
  InflightCap = 2
  ResultCap = 2
  EventCap = 1
  IoCap = 1
  InOrder = TRUE
  MaxFrames = 4
  MaxUpdates = 0
INVARIANTS
  UndisturbedAnswersMatch
  NothingLeftBehind
PROPERTY
  StopEnds
