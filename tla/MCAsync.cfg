SPECIFICATION FairSpec
CONSTANTS
    MaxWaits = 3
    Env = {"cancel", "close_ua", "close_ctx", "steal", "wait_error", "peek_error"}
INVARIANTS ReaderIffWaiters LoopNeverBlocks PendingQueued LossBounded
PROPERTIES AsyncRefines NoStall WaitEnds
CHECK_DEADLOCK FALSE
