SPECIFICATION FairSpec
CONSTANTS
    NTasks = 2
    Modes = {"r", "r+", "w", "a+"}
    OldSize = 3
    Slice = 2
    ReadSizes = {0, 3}
    WriteSizes = {2}
    MaxCalls = 3
    Env = {"cancel", "short", "io", "close", "no_ring"}
INVARIANTS NoUseAfterClose StreamExact WriteStays
PROPERTIES CallEnds
CHECK_DEADLOCK FALSE
