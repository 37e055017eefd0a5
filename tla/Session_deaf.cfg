CONSTANTS
  HeartbeatInterval = 2
  HeartbeatTimeout = 6
  PurgeAfter = 10
  CleanupInterval = 2
  FirstDelay = 1
  MaxRetryDelay = 2
  BlipWindow = 1
  HEARTBEAT_FAIL_N = 3
  RequestTime = 1
  MaxFaults = 1
SPECIFICATION FairSpec
PROPERTY DeafServerLeft
