SPECIFICATION CallSpec
CONSTANTS
    QDs = {0, 1, 3}
    Blocks = {1, 2, 16}
    Sizes = {0, 8}
    MBs = {0, 4, 16, 17}
    FileCounts = {2, 16, 18}
    MiB = 2
    CopySafeQD = 1
    CopySafeBlock = 2
    CopyFastQD = 2
    CopyFastBlock = 2
    WriteSafeQD = 1
    WriteSafeBlock = 1
    WriteFastQD = 2
    WriteFastBlock = 3
    UserSizes = {0, 3, 15, 17}
    BufferCap = 6
    UintMod = 16
    Faults = {"setup", "io", "short", "fsync"}
INVARIANT EndsAsAsked
CHECK_DEADLOCK FALSE
