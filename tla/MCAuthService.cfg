SPECIFICATION Spec
CONSTANTS
    web = web
    key = key
    Requests = {r1, r2, r3}
    Sessions = {web}
    MaxPairs = 2
    Keys = {key}
    Jobs <- AllJobs
    MaxRestarts = 1
SYMMETRY Symmetry
INVARIANTS TypeOK OneRefreshToken SessionEnds DeactivationHolds RevocationHolds
PROPERTIES LogoutHolds
CHECK_DEADLOCK FALSE
