SPECIFICATION FairSpec
CONSTANTS
    a = a
    b = b
    plain = plain
    scan = scan
    Requests = {r1, r2}
    Events = {a, b, plain, scan}
    Nonced = {a, b, scan}
    Scans = {scan}
    Jobs <- Retries
    MaxOther = 2
    MaxExpiry = 2
INVARIANTS TypeOK OncePerWindow BatchAtomic
PROPERTIES EveryRequestAnswered
CHECK_DEADLOCK FALSE
