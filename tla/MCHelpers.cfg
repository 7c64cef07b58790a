SPECIFICATION FairSpec
CONSTANTS
    FileSize = 3
    Counts = {0, 3}
    Chunks = {2, 4}
    LenMod = 4
    MaxConns = 2
    MaxOther = 1
    Env = {"short", "io", "cancel"}
INVARIANTS SendExact AcceptFds LossExplained
PROPERTIES SendEnds
CHECK_DEADLOCK FALSE
