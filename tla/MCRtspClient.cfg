SPECIFICATION FairSpec
CONSTANTS
  Initial = 1
  Max = 5
INVARIANTS
  QuietAfterStop
PROPERTIES
  StaleStreamReset
  RequestServed
  ClientStopEnds
CHECK_DEADLOCK FALSE
