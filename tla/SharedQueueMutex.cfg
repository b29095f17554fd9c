CONSTANTS
    BUFFER_SIZE = 3
    MaxItems = 6
SPECIFICATION ShmSpec
INVARIANT MutualExclusion
