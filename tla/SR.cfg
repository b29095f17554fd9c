CONSTANTS
    SRP_WINDOW_SIZE = 2
    MaxLen = 5
    MaxPremature = 1
SPECIFICATION FairSpec
INVARIANTS TypeOK WindowsAgree NumberTellsNewFromOld OneNackPerGap
PROPERTIES RepliesMeanWhatTheySay TransferSpec Completes
