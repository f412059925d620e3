SPECIFICATION Spec
CONSTANTS
    t1 = t1  t2 = t2  u1 = u1  u2 = u2
    Task = {t1, t2}
    User = {u1, u2}
    Requests <- MCRequests
    MinMultiplier = 1  MaxMultiplier = 3
    MinReset = 1  MaxReset = 2
    BaseDuration = 2
    MaxDuration = 10
    MaxClock = 3
    MaxHits = 4
    MaxFaults = 1
SYMMETRY Interchangeable
INVARIANTS
    CountWithinHits
    CountIsStreak
    DurationIsPower
