SPECIFICATION FairSpec
CONSTANTS
  MaxCalls = 2
  Uuids = {1, 2}
INVARIANTS
  OneListener
  TagsAreLive
  RepliesMeetRequests
PROPERTIES
  CallsAnswered
  ServerStopEnds
