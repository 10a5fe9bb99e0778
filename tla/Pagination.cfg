SPECIFICATION Spec
CONSTANTS
    MaxId = 4
    Stamp <- MCStamp
    TimeField = TRUE
    DefaultPerPage = 2
    MaxPerPage = 3
    MaxOffsetSkip = 2
    MaxOffset = 3
    DefaultOrder = "DESC"
    PerPages = {0, 1, 4}
    Filters <- MCFilters
    MaxWrites = 1
    MaxFaults = 1
INVARIANTS WalkOrdered WalkComplete OffsetPages BackReturns
PROPERTY WalkEnds
CHECK_DEADLOCK FALSE
