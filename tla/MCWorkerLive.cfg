SPECIFICATION FairSpec
CONSTANTS
    c1 = c1
    c2 = c2
    W = W
    Nobody = Nobody
    Clients <- TwoClients
    Calls <- WaitingCalls
    Reentrant <- CallsOnOneSelf
    MayThrow <- Callbacks
    MaxEvents = 3
CHECK_DEADLOCK FALSE
PROPERTIES
    FinalizeIsHonoured
    WaitersReturn
    RequestsReturn
    DestructionEnds
