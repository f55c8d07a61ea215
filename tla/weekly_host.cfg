\* The weekly host: weekly runs one after the other and the scrub at any
\* moment; up to two crashes, failing commands or corrupt copies.
SPECIFICATION WeeklyHost
CONSTANTS
    Region = {r1, r2}
    MaxGen = 5
    KeepPrior = 1
    MaxFaults = 2
    Worker = {}
    Free = Free
    Keep = 2
    Flat = {}
SYMMETRY RegionSymmetry
INVARIANTS
    LinksResolve
    CatalogResolves
PROPERTIES
    LastGoodSurvives
    ImplementsCatalogue
CHECK_DEADLOCK FALSE
