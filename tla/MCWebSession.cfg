\* Two tabs, two logins, one fault.
CONSTANTS
    a = a
    b = b
    Tabs = {a, b}
    MaxSids = 2
    RaceRetries = 1
    HasLocks = TRUE
    MaxOps = 2
    MaxFaults = 1
SPECIFICATION Spec
SYMMETRY TabSymmetry
INVARIANTS
    TypeOK
    SignedOutStaysOut
    ReuseNeedsLoss
PROPERTY OnlySavesMixAccounts
CHECK_DEADLOCK FALSE
