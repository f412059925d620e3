SPECIFICATION FairSpec
CONSTANTS
    g1 = g1  g2 = g2
    PushGroup = {g1}
    Policies <- MCPolicies
    RecordsEnabled = FALSE
    HasMessageId = FALSE
    MaxAttempts = 2
    MaxFaults = 2
PROPERTIES
    ImplementsContract
    ExecutionEnds
