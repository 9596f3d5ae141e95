SPECIFICATION SessionSpec
CONSTANTS
    Parts = {"agents", "settings", "screen", "board", "form", "choices", "plugins", "children", "focus", "pictures"}
    Roots <- OneWindow
    MaxKids = 3
    MaxConcurrent = 1
    MaxTotal = 2
    MaxDepth = 1
    MaxSpawn = 2
    Keep = 0
    MaxRequests = 1
    MaxRuns = 2
    MaxSaid = 0
    MaxStops = 1
    SetSessions = {1, 2}
    SetActs = 2
    SetHooks = 1
    ScrSteps = 6
    ScrLog = 5
    BoardSessions = {"s1", "s2"}
    BoardSteps = 4
    BoardKeep = 3
    BoardBreaks = 1
    FormMaxQuestions = 2
    FormMaxOptions = 4
    ChSteps = 5
    PlugWindows = {1, 2}
    PlugSteps = 4
    PlugTrust = TRUE
    KidMost = 3
    KidDepth = 2
    KidChanges = 1
    FoKids = {1}
    FoCap = 3
    FoQueue = 1
    FoKeys = 4
    FoEvents = 3
    FoTexts = 2
    PicSteps = 5
    PicDrawn = 2
    PicTicks = 2
    PicHistory = 1
INVARIANTS TypeOK SlotLimit OneThread FinishIsTold LayersHold ScreenTells PhoneFollows BoxesHold ChildrenHold
PROPERTY ImplementsPool
CHECK_DEADLOCK FALSE
