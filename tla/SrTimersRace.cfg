CONSTANTS
    SRP_WINDOW_SIZE = 1
    MsgLen = 2
    MaxNacks = 1
    MaxTimers = 4
SPECIFICATION Spec
INVARIANT RacesAreSilent
