SPECIFICATION FairSpec
CONSTANTS
    a = a
    b = b
    plain = plain
    scan = scan
    Requests = {r1}
    Events = {a, b, plain, scan}
    Nonced = {a, b, scan}
    Scans = {scan}
    Jobs <- ScanBatch
    MaxOther = 0
    MaxExpiry = 0
PROPERTIES EveryRequestAnswered
CHECK_DEADLOCK FALSE
