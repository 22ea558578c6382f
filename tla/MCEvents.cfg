SPECIFICATION Spec
CONSTANTS
  Tracks = {1}
  Positions <- MCPositions
  Events = {"LineIntrusion", "AreaIntrusion", "VehicleParking"}
  Rois <- MCRois
  ExcludeRois <- MCExclude
  TwoWay <- MCTwoWay
  OneWay <- MCOneWay
  Interval = 2
  Require = 1
  ReleaseShort = 3
  ReleaseLong = 4
  HistMax = 3
  MinTracking = 2
  MaxStep = 1
  MaxTime = 9
  DayMinutes = 6
  WeekDays = 2
INVARIANTS
  EventsAreReal
  StayIsReported
PROPERTY
  EventsKeepInterval
