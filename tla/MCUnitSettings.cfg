SPECIFICATION Spec
CONSTANTS
  Resolutions = {1, 2}
  ReinitThreshold = 2
  InflightCap = 1
  ResultCap = 1
  EventCap = 1
  IoCap = 1
  InOrder = FALSE
  MaxFrames = 4
  MaxUpdates = 1
INVARIANTS
  NoLostScheduleUpdate
  SchedulesFitFrame
PROPERTY
  ResizeAfterRunOnly
CONSTRAINT
  BeforeStop
