SPECIFICATION Spec
CONSTANTS
    Tabs = {t1}
    Slots = {c1}
    MaxPairs = 1
    MaxReloads = 0
INVARIANTS LogoutRevokes
CHECK_DEADLOCK FALSE
