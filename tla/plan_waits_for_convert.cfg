SPECIFICATION PoolFairSpec
CONSTANTS
  Plans = {p1}
  Tiles = {t1, t2}
  Wanted <- MCWanted
  MaxPbf = 2
  MaxFormat = 2
  Workers = {w1, w2}
  Blobs = 2
  Convert = Convert
  Free = Free
PROPERTIES
  PlanIsServed
CHECK_DEADLOCK FALSE
