--------------------------- MODULE TreeRefinement ---------------------------
(***************************************************************************)
(* UnsafeTree, whose nodes point at each other, implements Forest, whose   *)
(* trees are lists.                                                        *)
(***************************************************************************)
EXTENDS UnsafeTree

Lists == [t \in Tree |-> IF root[t] = Null THEN <<>> ELSE Preorder(heap, root[t])]

(* An auxiliary variable that holds the lists of the trees, so that they   *)
(* are computed once in a state.                                           *)
VARIABLE preorder

RInit == Init /\ preorder = Lists
RNext == Next /\ preorder' = Lists'
RSpec == RInit /\ [][RNext]_<<vars, preorder>>

Abstract == INSTANCE Forest WITH exists <- live, list <- preorder

(* Every member function does to the pointers and indices of the nodes     *)
(* what its documentation says it does to the tree: subtrees stay whole,   *)
(* siblings keep their order, insertions come last, merged nodes leave     *)
(* their children in their place.                                          *)
ImplementsForest == Abstract!ForestSpec

=============================================================================
