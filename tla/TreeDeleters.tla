---------------------------- MODULE TreeDeleters ----------------------------
(***************************************************************************)
(* The unique pointers that own the nodes are                              *)
(* unique_ptr<node_t, _deleter_t&> (unsafe_tree.hpp:69): each one keeps a  *)
(* reference to the _deleter member of the tree that allocated the node    *)
(* (make_node, line 549), wherever the pointer is moved to later.          *)
(***************************************************************************)
EXTENDS UnsafeTree

VARIABLE deleter  \* deleter[n]: the tree whose _deleter n's owner refers to

DInit == Init /\ deleter = [n \in Node |-> Null]

(* What tree::adopt does on trees built node by node: it takes its tree by *)
(* value and lets unsafe_tree::adopt_subtree take the nodes out of it.     *)
BuildOrAdopt ==
    \E t \in Tree :
        \/ Construct(t) \/ Destroy(t)
        \/ \E n \in Node : \/ EmplaceRoot(t, n)
                           \/ \E m \in Node : Emplace(t, n, m)
                           \/ \E u \in Tree : Adopt(t, n, u)

(* A node is allocated by the tree whose storage it first appears in; its  *)
(* owner keeps that tree's deleter until the node is destroyed.            *)
DNext ==
    /\ BuildOrAdopt
    /\ deleter' = [n \in Node |-> IF store'[n] = Null THEN Null
                                  ELSE IF store[n] = Null THEN store'[n]
                                  ELSE deleter[n]]

DSpec == DInit /\ [][DNext]_<<vars, deleter>>

(* unsafe_tree.hpp:625: adopt_subtree is to "steal node ownership".  A     *)
(* tree that owns a node must then be able to destroy it on its own: the   *)
(* deleter it would use belongs to a tree that still exists.               *)
DeletersAreAlive == \A n \in Node : store[n] # Null => deleter[n] \in live

=============================================================================
