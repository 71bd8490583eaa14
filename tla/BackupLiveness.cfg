CONSTANTS
  LastSpec = 1
  LastUid = 1
  Periodic = {0,1}
  MaxRunners = 2
  MaxRetries = 1
  MaxLag = 1
  Faults = {"crash"}
SPECIFICATION FairSpec
CHECK_DEADLOCK FALSE
PROPERTIES
  BackupFollowsGate
