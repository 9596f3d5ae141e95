SPECIFICATION Spec
CONSTANTS
    LogKeep = 2
    PruneEvery = 2
    Limit = 1
    MaxFaults = 1
    MaxPay = 2
    MaxCmd = 0
    MaxSaid = 2
    OutboxKeep = 1
    Burst = 1
    AgesOut = FALSE
INVARIANT NoneSkipped
CHECK_DEADLOCK FALSE
