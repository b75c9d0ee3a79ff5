\* Clients fetch a legacy row from a Gemini or Vertex channel that may be deleted.
CONSTANTS
    t1 = t1
    w1 = w1
    w2 = w2
    NoTask = NoTask
    Tasks = {t1}
    Workers = {w1, w2}
    Legacy = {t1}
    Quotas = {1, 2}
    SweepOn = TRUE
    MaxPollFailures = 1
    ChannelsVanish = TRUE
    Realtime = TRUE
    MaxFetches = 1
    MaxCrashes = 0
    MaxFaults = 1
SPECIFICATION Spec
SYMMETRY WorkerSymmetry
INVARIANT TokenFollowsFunding
CHECK_DEADLOCK FALSE
