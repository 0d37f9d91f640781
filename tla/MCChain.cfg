SPECIFICATION ChainSpec
CONSTANTS
    BlockSize = 2
    MaxAsk = 3
    MaxBytes = 4
INVARIANTS
    ChainTypeOK
    ContentKept
    PulledUp
    StreamInOrder
CHECK_DEADLOCK FALSE
