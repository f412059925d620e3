SPECIFICATION Spec
CONSTANTS
    MaxInstance = 1
    MaxFaults = 1
    k1 = k1  k2 = k2  t1 = t1  t2 = t2 t3 = t3 p1 = p1 p2 = p2
    Key = {k1, k2}
    MessageIdKeys = {k1}
    MaxPending = 1
    MaxAttempts = 2
    NoKey = NoKey
    NoJob = NoJob
    TimeoutErrorIsBuiltin = FALSE
    Task = {t1, t2}
    TeamOf <- MCTeamOf
    Platform = {p1, p2}
    PlatformOf <- MCTwoPlatforms
    RecordsEnabled = TRUE
INVARIANT ShutdownEndsTasks
