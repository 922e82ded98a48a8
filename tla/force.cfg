SPECIFICATION FairSpec
CONSTANTS
  Configs <- MCConfigs
  INTERVAL = 1
  Cap = 2
  Wild <- MCWild
INVARIANTS
  TypeOK
  ShownIsWeaker
PROPERTIES
  StopReachesDrone
  ForceSurvivesEof
CHECK_DEADLOCK FALSE
