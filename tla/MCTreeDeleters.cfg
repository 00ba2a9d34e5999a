SPECIFICATION DSpec
CONSTANTS
    Null = Null
    Node = {n1, n2}
    Tree = {t1, t2}
    Wild <- Nothing
INVARIANTS
    DeletersAreAlive
