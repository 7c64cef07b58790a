SPECIFICATION FairSpec
CONSTANTS
    MaxWaits = 3
    Env = {"cancel"}
PROPERTY CancelledDiscarded
CHECK_DEADLOCK FALSE
