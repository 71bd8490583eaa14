CONSTANTS
  f1 = f1
  f2 = f2
  r1 = r1
  r2 = r2
  Imported = TRUE
  LastSpec = 0
  LastUid = 2
  MaxSize = 1
  SizeOf <- MCSizeOf
  ViewOf <- MCViewOf
  Features = {f1}
  Resynced = {f1}
  Resolvable = TRUE
  Replicas = {r1}
  Faults = {"crash", "delete", "etcd"}
  MaxLag = 1
SPECIFICATION FairSpec
CHECK_DEADLOCK FALSE
INVARIANT
  FeaturesAfterCreation
PROPERTIES
  UserEditsSurvive
  ClusterRuns
