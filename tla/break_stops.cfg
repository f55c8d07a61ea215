\* Maps of eight nodes and three ways around a route of 3 km, in units of 50 m.
SPECIFICATION Spec
CONSTANTS
    Scenes <- MCScenes
    None = None
    LatUnit = 2
    MinBuilding = 3
    MinGlacier = 20
    Margin = 30
    Step = 4
INVARIANTS
    RecordsSurvive
    AccessIsBarred
    NightAgrees
CHECK_DEADLOCK FALSE
