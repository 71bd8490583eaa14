CONSTANTS
  Clusters = {c1, c2}
  None = None
  Keys = {k1}
  EventBuffer = 1
  MaxChanges = 4
  MaxBreaks = 1
  Faults = {"api", "cancel", "crash"}
SPECIFICATION FairSpec
CHECK_DEADLOCK FALSE
INVARIANTS
  Inv
PROPERTIES
  WatchGoesOn
  GaugeSettles
