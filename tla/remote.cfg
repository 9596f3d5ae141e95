SPECIFICATION Spec
CONSTANTS
    LogKeep = 2
    PruneEvery = 2
    Limit = 1
    MaxFaults = 2
    MaxPay = 2
    MaxCmd = 2
    MaxSaid = 2
    OutboxKeep = 1
    Burst = 1
    AgesOut = TRUE
INVARIANTS ShownInOrder NonceOnce CommandOnce KeptOrTold
CHECK_DEADLOCK FALSE
