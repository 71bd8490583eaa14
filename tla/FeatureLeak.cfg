CONSTANTS
  f1 = f1
  f2 = f2
  r1 = r1
  r2 = r2
  Imported = FALSE
  LastSpec = 0
  LastUid = 1
  MaxSize = 2
  SizeOf <- MCSizeOf
  ViewOf <- MCViewOf
  Features = {f1}
  Resynced = {}
  Resolvable = TRUE
  Replicas = {r1}
  Faults = {}
  MaxLag = 1
SPECIFICATION FairSpec
CHECK_DEADLOCK FALSE
PROPERTY DisabledFeaturesCleaned
