SPECIFICATION FairSpec
CONSTANTS
  Peers = {"obstacles"}
  Cap <- SmallCap
  Budget <- OneEach
  Crashes = 1
PROPERTIES
  WatchdogCleans
CHECK_DEADLOCK FALSE
