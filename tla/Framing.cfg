CONSTANTS
    HeaderSize = 3
    BodySize = 2
    MaxPackets = 3
SPECIFICATION FairSpec
INVARIANTS TypeOK LostOnlyAfterCutOrMix
PROPERTIES FifoSpec EveryPacketReturned
CHECK_DEADLOCK FALSE
