CONSTANTS
  Lists <- MCLists
  Types <- MCTypes
  Faults = {"api", "crash", "delete"}
SPECIFICATION FairSpec
CHECK_DEADLOCK FALSE
INVARIANTS
  Inv
PROPERTIES
  DisabledIsClean
  EveryMemberScraped
  NothingLeftBehind
