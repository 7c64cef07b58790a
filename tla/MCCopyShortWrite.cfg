SPECIFICATION Spec
CONSTANTS
    MaxFileSize = 4
    QD = 2
    BlockSize = 2
    CbSizes = {}
    BufferCap = 4
    Faults = {"short_write"}
INVARIANTS CopyExact
