SPECIFICATION FairSpec
CONSTANTS
    Parts = {"jobs"}
    NoMsg = NoMsg
    NoPhone = NoPhone
    Kids = {}
    Desk = {m1, m2}
    Phone = {}
    WindowJobs = {j1}
    Keys = {TRUE, FALSE}
    MaxRequests = 1
    MaxStops = 1
    MaxCompacts = 0
    QueueMax = 2
    DaemonPhone = {m1, m2}
    DaemonOwner = 100
    DaemonRequests = 2
    DaemonCompacts = 1
    MaxPrompts = 3
    MaxTurns = 1
    MaxPhone = 2
    Phones = TRUE
    PairWindows = {w1, w2}
    PairDaemon = d
    PairNobody = nobody
    PairHangs = 2
    DoorNow = 3
    DoorSigns = 2
    Skew = 1
    NonceKeep = 2
    DeskSilent = 2
    SeenEvery = 1
    Connects = 2
    MaxDevices = 1
    MaxKeys = 1
    MaxAsk = 1
    Idle = 3
    Retain = 1
    Day = 2
    FramesPerDay = 1
    MaxFrames = 2
    TalkCalls = 2
    TalkParallel = 2
    TalkRequests = 1
    TalkTries = 1
    TalkCuts = 1
    TalkTurns = 2
    TalkCrashes = 1
    Agents = {0, 1}
    Root = 0
    Parent <- OneChild
    MaxJobs = 1
    Keep = 0
    EarlyClose = TRUE
    MaxTasks = 3
    MaxTime = 1
    MaxLines = 4
    MaxFiles = 1
    MaxSessions = 2
    KeyModes = {"Probing", "Push", "Toggle"}
    KeyReports = {TRUE, FALSE}
    KeyBoxes = FALSE
    KeyStrokes = 3
    DictWords = 2
    DictParallel = 2
    DictBudget = 1
    DictDrops = 1
    LiveSays = 2
    LivePresses = 2
    LiveBreaks = 1
    LiveIdle = FALSE
    LiveChan = 2
    KeptCap = 6
    KeptSizes = {0, 1, 2}
    KeptLines = 4
    GatePlugins = 2
    GateCalls = 2
    GateArgs = {"a", "b", "own", "bad"}
    GateDenied = {"bad"}
    GateOwn = {"own"}
    DenyProgs = {"rm", "ls"}
    DenyFlags = {"r", "f"}
    DenyOps = {"root", "tmp"}
    DenyList <- TwoRules
    DenyWrap = 1
    DenyPieces = 2
    StreamItems = 4
    StreamCalls = 2
    StreamRoom = 2
    StreamTries = 1
    StreamCutOffs = 1
    MicRing = 1
    MicSamples = 2
    MicPresses = 2
    GrantMost = 1
    GrantServes = 2
    GrantMoves = 1
    LogKeep = 2
    PruneEvery = 2
    Limit = 1
    MaxFaults = 1
    AgesOut = TRUE
    MaxPay = 1
    MaxCmd = 0
    MaxSaid = 1
    OutboxKeep = 1
    Burst = 1
PROPERTY KilledEnds
CHECK_DEADLOCK FALSE
