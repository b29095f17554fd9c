CONSTANTS
    MAX_SEQ_NO = 3
    MaxLen = 6
    MaxPremature = 2
SPECIFICATION FairSpec
INVARIANTS WindowsAgree NoOldFrameTakenForNew TimerGuardsFrames BacklogBounded
PROPERTIES AckMovesWindowToItsMeaning TransferSpec Completes
