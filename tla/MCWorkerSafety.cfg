SPECIFICATION Spec
CONSTANTS
    c1 = c1
    c2 = c2
    W = W
    Nobody = Nobody
    Clients <- TwoClients
    Calls <- AllCalls
    Reentrant <- CallsOnOneSelf
    MayThrow <- Callbacks
    MaxEvents = 4
SYMMETRY Symmetry
CHECK_DEADLOCK FALSE
INVARIANTS
    TypeOK
    LockDiscipline
    AtMostOneOverrun
    FlagsTellTheState
    NoLostWakeUp
    DestroyedAtRest
PROPERTIES
    ImplementsInterruptible
