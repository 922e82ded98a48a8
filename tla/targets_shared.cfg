SPECIFICATION FairSpec
CONSTANTS
  N = 2
  p1 = p1
  p2 = p2
  p3 = p3
  c1 = c1
  c2 = c2
  c3 = c3
  Junk = Junk
  Origin = p3
  Positions = {p1, p2, p3}
  Cells = {c1, c2, c3}
  Layouts <- Narrow
  TargetSets <- AllSets
  Cap <- OneCap
INVARIANTS
  IndInv
  FreshSetOnlyWhenCleared
  MapWriteNeverBlocks
PROPERTIES
  NewSetArrives
  HitsReachDrone
