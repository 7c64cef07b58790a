SPECIFICATION Spec
CONSTANTS
    Mems = {m1, m2}
    NBuffers = 2
    InitialSize = 1
    Sizes = {0, 1, 2, 3}
    MaxBlocks = 3
    MaxOps = 2
    Parts = {"ring", "pool"}
    Faults = {"submit", "kernel", "wait", "enomem"}
INVARIANTS KernelMemoryAlive PoolSafe
CHECK_DEADLOCK FALSE
