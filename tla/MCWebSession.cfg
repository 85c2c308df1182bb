SPECIFICATION FairSpec
CONSTANTS
    Tabs = {t1, t2}
    Slots = {c1}
    MaxPairs = 2
    MaxReloads = 1
INVARIANTS TypeOK RefreshScheduled RetryIsFresh
PROPERTIES DeadSessionEnds
CHECK_DEADLOCK FALSE
