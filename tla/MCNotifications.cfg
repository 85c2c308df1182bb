SPECIFICATION LiveFairSpec
CONSTANTS
    Consumers = {"centre", "ledger", "inventory"}
    MaxEvents = 1
    MaxTries = 3
    MaxSkew = 1
    MaxFetches = 2
INVARIANTS LiveTypeOK
PROPERTIES Settles OutageRecovered
CHECK_DEADLOCK FALSE
