\* Two workers under the flock, re-publishing two regions; crashes, failing
\* python steps and corrupt copies.
SPECIFICATION SafeFairSpec
CONSTANTS
    Region = {r1, r2}
    MaxGen = 4
    KeepPrior = 1
    MaxFaults = 2
    Worker = {w1, w2}
    Free = Free
INVARIANTS
    RegionOkUnlessFault
PROPERTIES
    CatalogNeverRegresses
    
    StagedGetsListed
    ImplementsCatalogue
CHECK_DEADLOCK FALSE
