SPECIFICATION Spec
CONSTANTS
    t1 = t1  t2 = t2  u1 = u1  u2 = u2
    Task = {t1, t2}
    User = {u1}
    Requests <- MCRequests
    MinMultiplier = 1  MaxMultiplier = 3
    MinReset = 1  MaxReset = 2
    BaseDuration = 2
    MaxDuration = 20
    MaxClock = 1
    MaxHits = 2
    MaxFaults = 0
INVARIANT EveryHitCounts
