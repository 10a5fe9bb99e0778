INIT Init
NEXT Next
CONSTANTS
    MaxId = 4
    Stamp <- MCStamp
    TimeField = TRUE
    DefaultPerPage = 2
    MaxPerPage = 3
    MaxOffsetSkip = 2
    MaxOffset = 3
    DefaultOrder = "DESC"
    PerPages = {0, 1, 4}
    Filters <- MCFilters
    MaxWrites = 0
    MaxFaults = 0
INVARIANT PreviousPage
CHECK_DEADLOCK FALSE
