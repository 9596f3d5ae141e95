SPECIFICATION DeskFair
CONSTANTS
    Parts = {"agents", "arming", "editor", "edits", "files", "diff", "pairing", "matching"}
    Roots <- OneWindow
    MaxKids = 2
    MaxConcurrent = 1
    MaxTotal = 2
    MaxDepth = 2
    MaxSpawn = 2
    Keep = 2
    MaxRequests = 1
    MaxRuns = 1
    MaxSaid = 1
    MaxStops = 0
    ArmSteps = 5
    EdKeep = 2
    EdSteps = 5
    EdChips = 2
    EditLen = 4
    EditOldLen = 3
    FileAgents = {1, 2}
    FileCalls = 2
    FileOthers = 1
    DiffLen = 5
    DiffLimit = 12
    DiffLines = 6
    PairRuns = 3
    PairFaults = 2
    MatchQuery = 3
    MatchName = 3
INVARIANTS DeskHolds FileToolsHold
PROPERTIES WorkEnds
CHECK_DEADLOCK FALSE
