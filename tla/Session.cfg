CONSTANTS
  HeartbeatInterval = 4
  HeartbeatTimeout = 12
  PurgeAfter = 16
  CleanupInterval = 4
  FirstDelay = 1
  MaxRetryDelay = 4
  BlipWindow = 1
  HEARTBEAT_FAIL_N = 3
  RequestTime = 1
  MaxFaults = 3
SPECIFICATION Spec
INVARIANTS TypeOK Recovered StaleEntriesGo
PROPERTY NoLiveClientRemoved
