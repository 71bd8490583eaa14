CONSTANTS
  Command = "etcdcluster"
  Processes = {p1, p2}
  Keys = {k1}
  None = None
  MaxChanges = 1
  MaxMishaps = 2
SPECIFICATION FairSpec
INVARIANTS
  OneLeaderWorks
  NothingForgotten
PROPERTIES
  ChangesReconciled
