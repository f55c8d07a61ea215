\* Extracts of four nodes, three ways and up to four relations: named and
\* unnamed, whole and cut off at the border.
SPECIFICATION Spec
CONSTANT Extracts <- MCExtracts
INVARIANTS
    PlacesKept
    RowsKept
    OutlinesKept
    OnlyPoints
CHECK_DEADLOCK FALSE
