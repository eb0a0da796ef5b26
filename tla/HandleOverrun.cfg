SPECIFICATION TableSpec
CONSTANTS
    pen = pen
    win = win
    Signature = {pen}
    NoType = NoType
    BlockSize = 2
    TableBlocks = 2
    OmMask = 4
    WordSize = 8
    LowWater = 2
    RefLimit = 2
    MaxObjects = 5
    MaxLocks = 0
INVARIANT OverflowReported
