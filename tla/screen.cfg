SPECIFICATION Spec
CONSTANTS
  Sizes <- MCSizes
  Positions <- MCPositions
  SIMULATION = 500
  N_TARGETS = 3
  N_OBSTACLES = 2
  MAX_RING = 2
INVARIANTS
  TypeOK
  EachOnItsOwn
  DroneStaysFree
  SpotIsNearest
  ExitsOnlyWhenFull
CHECK_DEADLOCK FALSE
