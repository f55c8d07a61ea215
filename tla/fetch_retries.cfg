\* Successive runs against a flapping provider that publishes three versions.
SPECIFICATION FairSpec
CONSTANTS
    MaxVersion = 3
    MaxFaults = 1
    MaxRequest = 1
    Budget = 6
    BackoffInitial = 2
    BackoffMax = 4
    CleanNeed = 2
    Interval = 2
INVARIANTS
    BudgetRespected
PROPERTIES
    UnchangedIsCurrent
    RunsEnd
