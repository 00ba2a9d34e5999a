SPECIFICATION LoopSpec
CONSTANTS
    Null = Null
    Node = {n1, n2, n3, n4, n5}
    Tree = {t1, t2}
    Wild <- Nothing
SYMMETRY Symmetry
INVARIANTS
    ExtremaAreExtreme
    IteratorsListTheTree
    MissesNothing
PROPERTIES
    NothingTwice
