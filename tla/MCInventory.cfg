SPECIFICATION Spec
CONSTANTS
    dock = dock
    shelf = shelf
    Requests = {r1, r2, r3}
    crate = crate
    tool = tool
    Items = {crate, tool}
    Locations = {dock, shelf}
    Nobody = Nobody
    MaxQuantity = 2
    Minimum = 1
    Jobs <- AllJobs
SYMMETRY Symmetry
INVARIANTS TypeOK StockExplained RowConsistent
PROPERTIES ReservationEnds
CHECK_DEADLOCK FALSE
