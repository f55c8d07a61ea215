SPECIFICATION BuildSpec
CONSTANTS
  Extracts <- MCExtracts
  Order <- MCOrder
  Workers = {k1, k2}
  Tiles <- MCTiles
  Cell <- MCCell
  Pad = 2
  Batch = 2
  Boxes <- MCBoxes
INVARIANTS
  NoWayLost
  CoordsSuffice
  PacksAreSound
  SeamsHold
PROPERTIES
  BuildEnds
