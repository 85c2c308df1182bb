SPECIFICATION Spec
CONSTANTS
    d1 = d1
    d2 = d2
    scanner = scanner
    Requests = {r1, r2}
    Devices = {d1, d2}
    Names = {scanner}
    Jobs <- Calls
    Threshold = 2
    MaxFails = 3
SYMMETRY Symmetry
INVARIANTS TypeOK ChangeAudited
PROPERTIES BarHolds
CHECK_DEADLOCK FALSE
