CONSTANTS
  f1 = f1
  f2 = f2
  r1 = r1
  r2 = r2
  Imported = FALSE
  LastSpec = 2
  LastUid = 1
  MaxSize = 2
  SizeOf <- MCSizeOf
  ViewOf <- MCViewOf
  Features = {}
  Resynced = {}
  Resolvable = TRUE
  Replicas = {r1}
  Faults = {"api", "crash", "etcd"}
  MaxLag = 2
SPECIFICATION Spec
CHECK_DEADLOCK FALSE
INVARIANTS
  TypeOK
  ConditionHistory
  PhaseFollowsConditions
  CreationHasChild
  EditsNoticedOnce
PROPERTIES
  ChildNeverRegresses
  RunningIsFullStrength
  RefinesLifecycle
