SPECIFICATION Spec
CONSTANTS
    g1 = g1  g2 = g2
    PushGroup = {g1, g2}
    Policies <- MCPolicies
    RecordsEnabled = TRUE
    HasMessageId = TRUE
    MaxAttempts = 2
    MaxFaults = 1
PROPERTY DeliveredStaysDelivered
