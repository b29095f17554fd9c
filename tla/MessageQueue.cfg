CONSTANTS
    p1 = p1
    p2 = p2
    Pids = {p1, p2}
    MSG_MAX_COUNT = 2
    MaxRuns = 4
    MaxRunsOfP2 = 3
    MaxCrashes = 4
    MaxLives = 2
SPECIFICATION MCSpec
INVARIANTS BlockedOnlyBehindCrashes
PROPERTIES ReplyIsOwn EveryWaitEnds
CHECK_DEADLOCK FALSE
