\* Two nodes, two rows, a crash and a failed statement; calls end within the lease.
CONSTANTS
    n1 = n1
    n2 = n2
    NoNode = NoNode
    Nodes = {n1, n2}
    MaxTasks = 2
    TTL = 1
    MaxStall = 1
    MaxCrashes = 1
    MaxFaults = 1
SPECIFICATION FairSpec
INVARIANTS
    TypeOK
    ExecutedAtMostOnce
    ActiveKeyMatchesStatus
    RunningIsLeased
    LeaseInv
PROPERTIES
    TerminalIsFinal
    LeaseInForceIsKept
    RowsEnd
CHECK_DEADLOCK FALSE
