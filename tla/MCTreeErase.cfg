SPECIFICATION Spec
CONSTANTS
    Null = Null
    Node = {n1, n2, n3, n4}
    Tree = {t1}
    Wild <- ErasesAnything
SYMMETRY Symmetry
INVARIANTS
    LeftmostIsLeftmost
