SPECIFICATION Spec
CONSTANTS
  Peers = {"drone", "map"}
  Cap <- SmallCap
  Budget <- OneEach
  Crashes = 0
INVARIANTS
  TypeOK
  ServerNotHindered
  OnlyDroneHangs
  AnswerIsOwn
CHECK_DEADLOCK FALSE
