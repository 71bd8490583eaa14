CONSTANTS
  Tasks = {"consistency", "alarm", "healthy", "backupcheck", "keys", "members"}
  Members = {m1, m2}
  MaxNumber = 1
  MaxFailures = 1
  Nodes <- NodeNumbers
  HostOf <- NodeHosts
  MaxTurns = 3
  MaxErrors = 1
  Day = 2
  Interval = 1
  MaxBackups = 1
  PageSize = 2
  FirstRev = 8
  LastRev = 10
  LastTick = 3
  MaxForeign = 1
  Stored <- StoredKeys
  Servers = {1, 2, 3}
  Size = 2
  MaxChanges = 2
SPECIFICATION FairSpec
CHECK_DEADLOCK FALSE
INVARIANTS
  Inv
  StoredKeyShown
PROPERTIES
  DifferencesAreReal
  DifferencesSettle
  MetricsSettle
  MissingBackupsReported
  MembersSettle
