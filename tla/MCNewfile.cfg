SPECIFICATION FairSpec
CONSTANTS
    Requests = {1, 5, 6}
    QD = 3
    BlockSize = 2
    CbSizes = {0, 1, 3, 9}
    BufferCap = 3
    PeekMax = 2
    Faults = {"setup", "submit", "wait", "io", "short", "cancel", "fsync"}
INVARIANTS PacingExact NoGapNoOverlap ReturnTellsAll
PROPERTIES WriteReturns
