\* A row whose channel is deleted while it is polled.
CONSTANTS
    t1 = t1
    w1 = w1
    w2 = w2
    NoTask = NoTask
    Tasks = {t1}
    Workers = {w1}
    Legacy = {}
    Quotas = {1}
    SweepOn = TRUE
    MaxPollFailures = 2
    ChannelsVanish = TRUE
    Realtime = FALSE
    MaxFetches = 0
    MaxCrashes = 0
    MaxFaults = 0
SPECIFICATION Spec
INVARIANT FailedIsRefunded
CHECK_DEADLOCK FALSE
