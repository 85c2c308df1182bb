SPECIFICATION BoardSpec
CONSTANTS
    MaxOrders = 2
    PageSize = 1
    MaxConns = 2
    MaxCalls = 2
    Filters <- UsedFilters
    MaxWork = 3
INVARIANTS BoardTypeOK PageCurrent
PROPERTIES GhostsRemoved
CHECK_DEADLOCK FALSE
