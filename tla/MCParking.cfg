SPECIFICATION Spec
CONSTANTS
  Tracks = {1}
  Positions <- MCPositions
  Events = {"VehicleParking"}
  Rois <- MCRois
  ExcludeRois <- MCExclude
  TwoWay <- MCTwoWay
  OneWay <- MCOneWay
  Interval = 2
  Require = 3
  ReleaseShort = 3
  ReleaseLong = 2
  HistMax = 3
  MinTracking = 2
  MaxStep = 1
  MaxTime = 12
  DayMinutes = 6
  WeekDays = 2
INVARIANT
  StayIsReported
