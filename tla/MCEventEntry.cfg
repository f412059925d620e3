SPECIFICATION Spec
CONSTANTS
    m1 = m1  m2 = m2  s1 = s1  s2 = s2
    Member = {m1, m2}
    Slot = {s1, s2}
    Event <- MCEvent
    TTL = 2
    MaxEntries = 1
    Horizon = 3
SYMMETRY Slots
INVARIANTS
    RoleIsRecent
    RunNeedsRight
    DenialIsJustified
    ExemptIsManager
CHECK_DEADLOCK FALSE
