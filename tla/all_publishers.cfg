\* Weekly bake, planet workers and scrub at once, with one fault.
SPECIFICATION Spec
CONSTANTS
    Region = {r1, r2}
    MaxGen = 3
    KeepPrior = 1
    MaxFaults = 1
    Worker = {w1, w2}
    Free = Free
    Keep = 2
    Flat = {}
SYMMETRY Symmetry
INVARIANT TypeOK
PROPERTY RegionsSurvive
CHECK_DEADLOCK FALSE
