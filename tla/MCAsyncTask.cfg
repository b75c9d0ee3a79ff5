\* Two overlapping passes over a row whose channel stays, under fairness and without
\* the failure cutoff.
CONSTANTS
    t1 = t1
    w1 = w1
    w2 = w2
    NoTask = NoTask
    Tasks = {t1}
    Workers = {w1, w2}
    Legacy = {}
    Quotas = {0, 1}
    SweepOn = TRUE
    MaxPollFailures = 0
    ChannelsVanish = FALSE
    Realtime = FALSE
    MaxFetches = 0
    MaxCrashes = 1
    MaxFaults = 1
SPECIFICATION FairSpec
INVARIANTS
    TypeOK
    FailedIsRefunded
    QuotaMatchesPaid
    NeverOverRefunded
PROPERTIES
    TerminalIsFinal
    RowsEnd
CHECK_DEADLOCK FALSE
