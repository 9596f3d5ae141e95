SPECIFICATION SessSpec
CONSTANTS
    MaxTime = 1
    MaxLines = 3
    MaxFiles = 1
    MaxSessions = 2
INVARIANT PlanIsSessions
CHECK_DEADLOCK FALSE
