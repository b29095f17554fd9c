CONSTANTS
    SRP_WINDOW_SIZE = 2
    MsgLen = 3
    MaxNacks = 1
    MaxTimers = 5
SPECIFICATION Spec
INVARIANTS EveryFrameGuarded StopFindsTimer OnlyNackAnswersMix
