SPECIFICATION FairSpec
CONSTANTS
  NumCams = 2
  MaxRows = 1
  MaxDisturbances = 2
INVARIANTS
  Converged
  NoDanglingCallback
PROPERTIES
  UpdatesReachUnits
  
CHECK_DEADLOCK FALSE
