SPECIFICATION PSpec
CONSTANTS
    c1 = c1
    W = W
    Nobody = Nobody
    Clients <- OneClient
    Calls <- PauseCalls
    Reentrant <- None
    MayThrow <- None
    MaxEvents = 4
CHECK_DEADLOCK FALSE
PROPERTY
    NoTaskOncePaused
