\* Two tabs under fairness.
CONSTANTS
    a = a
    b = b
    Tabs = {a, b}
    MaxSids = 1
    RaceRetries = 1
    HasLocks = TRUE
    MaxOps = 1
    MaxFaults = 1
SPECIFICATION FairSpec
PROPERTIES
    RefreshesEnd
    RevokedLeaves
CHECK_DEADLOCK FALSE
