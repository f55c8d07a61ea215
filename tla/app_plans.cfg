SPECIFICATION PoolFairSpec
CONSTANTS
  Plans = {p1, p2}
  Tiles = {t1, t2}
  Wanted <- MCWanted
  MaxPbf = 2
  MaxFormat = 2
  Workers = {w1}
  Blobs = 1
  Convert = Convert
  Free = Free
INVARIANTS
  EndedLeavesNothing
PROPERTIES
  QuietLoadIsCurrent
  CancelledPlanEnds
  ConvertFinishes
CHECK_DEADLOCK FALSE
