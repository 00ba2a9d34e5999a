SPECIFICATION ContentsSpec
CONSTANTS
    Null = Null
    Node = {n1, n2, n3, n4, n5, n6}
    Tree = {t1, t2, t3}
    Wild <- Nothing
    Modulus = 2
    Seed <- Seeds
    Initializer <- Initializers
    MaxLost = 1
CONSTRAINT SmallAtRest
SYMMETRY Symmetry
PROPERTIES
    BuiltAsWanted
    FailureChangesNothing
    MergesIntoParent
