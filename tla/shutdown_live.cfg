SPECIFICATION FairSpec
CONSTANTS
  Peers = {"target", "map"}
  Cap <- SmallCap
  Budget <- OneEach
  Crashes = 0
INVARIANTS
  NobodyLeftBehind
PROPERTIES
  CloseCompletes
CHECK_DEADLOCK FALSE
