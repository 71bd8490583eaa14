CONSTANTS
  LastSpec = 1
  LastUid = 2
  Periodic = {0}
  MaxRunners = 2
  MaxRetries = 0
  MaxLag = 1
  Faults = {"api", "crash", "storage"}
SPECIFICATION Spec
CHECK_DEADLOCK FALSE
INVARIANTS
  ActiveRunnersStored
  StatusHonest
PROPERTIES
  OperatorKeepsSpec
  DisabledBackupDeleted
