SPECIFICATION RSpec
CONSTANTS
    Null = Null
    Node = {n1, n2, n3, n4, n5, n6}
    Tree = {t1, t2}
    Wild <- RemovesAnything
SYMMETRY Symmetry
INVARIANTS
    TypeOK
    LinksAgree
    Rooted
    ExtremaInTree
PROPERTIES
    ImplementsForest
