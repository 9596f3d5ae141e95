SPECIFICATION PairSpec
CONSTANTS
    PairWindows = {w1, w2}
    PairDaemon = d
    PairNobody = nobody
    PairHangs = 0
INVARIANT YieldedIsFree
CHECK_DEADLOCK FALSE
