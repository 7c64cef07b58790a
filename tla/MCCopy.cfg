SPECIFICATION FairSpec
CONSTANTS
    MaxFileSize = 5
    QD = 3
    BlockSize = 2
    CbSizes = {0, 1, 9}
    BufferCap = 3
    Faults = {"setup", "submit", "wait", "io", "short_read", "short_write", "eof", "cancel", "ftruncate", "fsync"}
INVARIANTS TypeOK OneOpPerSlot InflightExact NoInternalError DstFaithful ReadsFit
PROPERTIES CopyRefines CopyReturns
