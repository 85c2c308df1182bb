SPECIFICATION FairSpec
CONSTANTS
    Tenants = {t1, t2}
    Events = {e1, e2, e3}
    Writers = {w1, w2}
    Modes = {"own", "batch"}
INVARIANTS TypeOK ChainVerifies AckedDurable
PROPERTIES NotifiedDurable ImplementsLog AppendsEnd
CHECK_DEADLOCK FALSE
