SPECIFICATION Spec
CONSTANTS
    g1 = g1  g2 = g2
    PushGroup = {g1}
    Policies <- MCAuditOnly
    RecordsEnabled = TRUE
    HasMessageId = TRUE
    MaxAttempts = 2
    MaxFaults = 1
INVARIANT AuditNeverPunishes
