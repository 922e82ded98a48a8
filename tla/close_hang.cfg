SPECIFICATION Spec
CONSTANTS
  Peers = {"drone"}
  Cap <- SmallCap
  Budget <- OneEach
  Crashes = 0
INVARIANTS
  NoHang
CHECK_DEADLOCK FALSE
