SPECIFICATION FairSpec
CONSTANTS
    Entries = 2
    Tags = {7}
    SignBit = 8
    MaxOps = 3
    MaxUnread = 1
    Calls = {"read", "recv", "async_cancel", "send_zc", "batch", "link", "pair", "async", "multishot", "message", "reap", "close"}
    Faults = {"submit", "wait", "io"}
INVARIANTS InFlightPinned NoLeakedPin SyncOwn QuietBetweenCalls EachOnce
PROPERTIES CallReturns
CHECK_DEADLOCK FALSE
