\* The same system when a claim may stall for longer than the lease.
CONSTANTS
    n1 = n1
    n2 = n2
    NoNode = NoNode
    Nodes = {n1, n2}
    MaxTasks = 2
    TTL = 2
    MaxStall = 3
    MaxCrashes = 0
    MaxFaults = 0
SPECIFICATION Spec
INVARIANT RunningIsLeased
CHECK_DEADLOCK FALSE
