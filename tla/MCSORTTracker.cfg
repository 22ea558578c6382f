SPECIFICATION TrackerSpec
CONSTANTS
  MaxTrackSize = 3
  MaxAge = 1
  MinHits = 2
  Threshold = 2
  CycleThreshold = 4
  MaxCalls = 5
  Detections <- MCDetections
  MaxGone <- MCMaxGone
  Costs <- MCCosts
  Assign <- Solve
  ZeroPoint <- MCZeroPoint
  ThresholdNum = 77
  ThresholdDen = 2
  NmsNum = 45
  NmsDen = 100
INVARIANTS
  AssignmentIsOptimal
  OneTrackPerObject
  ReportedIsSteady
