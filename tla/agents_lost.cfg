SPECIFICATION Spec
CONSTANTS
    Roots = {0, 100}
    MaxKids = 3
    MaxConcurrent = 1
    MaxTotal = 3
    MaxDepth = 1
    MaxSpawn = 2
    Keep = 0
    MaxRequests = 1
    MaxRuns = 2
    MaxSaid = 0
    MaxStops = 0
INVARIANT QueuedIsFiled
CHECK_DEADLOCK FALSE
