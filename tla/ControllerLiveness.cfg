CONSTANTS
  f1 = f1
  f2 = f2
  r1 = r1
  r2 = r2
  Imported = FALSE
  LastSpec = 1
  LastUid = 1
  MaxSize = 2
  SizeOf <- MCSizeOf
  ViewOf <- MCViewOf
  Features = {}
  Resynced = {}
  Resolvable = TRUE
  Replicas = {r1}
  Faults = {"api", "crash", "delete", "etcd"}
  MaxLag = 1
SPECIFICATION FairSpec
CHECK_DEADLOCK FALSE
PROPERTIES
  ClusterSettles
