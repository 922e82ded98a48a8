SPECIFICATION Spec
CONSTANTS
  NaN = NaN
  Inf = Inf
  NegInf = NegInf
  SIZE = 6
  AREA = 2
  MAX_FORCE = 2
  MaxWallForce = 16
  UserForces <- MCUserForces
INVARIANTS
  TypeOK
PROPERTIES
  NaNOrigin
  RestIsStable
  FliesStraight
CHECK_DEADLOCK FALSE
