SPECIFICATION Spec
CONSTANTS
    Requests = {r1, r2, r3}
    Limit = 2
    Ttl = 2
    Block = 3
SYMMETRY Symmetry
INVARIANTS TypeOK WithinLimit
PROPERTIES BlockHolds
CHECK_DEADLOCK FALSE
