SPECIFICATION Spec
CONSTANTS
    Entries = 1
    Tags = {7}
    SignBit = 8
    MaxOps = 2
    MaxUnread = 1
    Calls = {"async", "link", "reap"}
    Faults = {}
INVARIANTS BuffersKept
CHECK_DEADLOCK FALSE
