SPECIFICATION FairSpec
CONSTANTS
    NFiles = 3
    PerFile = 3
    BlockSize = 2
    QD = 3
    RrMod = 4096
    Faults = {"setup", "submit", "wait", "io", "short", "fsync"}
INVARIANTS SlotsPartitioned NoBlockLost AllWritten
PROPERTIES ManyReturns
