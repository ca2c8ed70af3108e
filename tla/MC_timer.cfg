SPECIFICATION FairSpec
CONSTANTS
  Durations = {2}
  Discontinuity = 1
  Known = TRUE
  HeartbeatStale = 1
  HeartbeatInterval = 1
  MaxMono = 2
  MaxSuspend = 2
  MaxRequests = 2
  MaxQueue = 1
  MaxDeaths = 1
INVARIANTS
  ArmedAfterLoss
PROPERTIES
  IsStopwatch
  RunsOut
