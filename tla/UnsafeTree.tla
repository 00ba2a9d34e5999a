----------------------------- MODULE UnsafeTree -----------------------------
(***************************************************************************)
(* tools::detail::unsafe_tree (src/cpptools/container/tree/                *)
(* unsafe_tree.hpp): trees that own their nodes through a set of unique    *)
(* pointers and keep raw pointers to their root and to their leftmost and  *)
(* rightmost nodes.  Several trees share one heap, because nodes move from *)
(* tree to tree.  One action per member function; the preconditions are    *)
(* the ones the debug assertions state.                                    *)
(***************************************************************************)
EXTENDS Node

CONSTANTS
    Tree,  \* the tree objects a program may have
    Wild   \* the operations used beyond what they handle well, see Tame...

ASSUME TreeAssumption ==
    /\ Null \notin Tree
    /\ Wild \subseteq {"erase", "chop", "move"}

VARIABLES
    heap,       \* the fields of the nodes
    store,      \* store[n]: the tree whose _nodes has n, Null when n is free
    live,       \* the tree objects that are constructed
    root,       \* _root, _leftmost and _rightmost of each tree
    leftmost,
    rightmost

pointers == <<root, leftmost, rightmost>>
vars == <<heap, store, live, root, leftmost, rightmost>>

Nodes(t) == {n \in Node : store[n] = t}
FreeNodes == {n \in Node : store[n] = Null}

(* The pointers are null or point at nodes, and a node belongs to a tree    *)
(* that exists: no operation outlives the object that owns the storage.    *)
TypeOK ==
    /\ heap \in Heap
    /\ store \in [Node -> live \union {Null}]
    /\ live \subseteq Tree
    /\ root \in [Tree -> Node \union {Null}]
    /\ leftmost \in [Tree -> Node \union {Null}]
    /\ rightmost \in [Tree -> Node \union {Null}]

Init ==
    /\ heap = [n \in Node |-> FreshNode]
    /\ store = [n \in Node |-> Null]
    /\ live = {}
    /\ root = [t \in Tree |-> Null]
    /\ leftmost = [t \in Tree |-> Null]
    /\ rightmost = [t \in Tree |-> Null]

-----------------------------------------------------------------------------
(* How the functions change the pointers and the storage.                  *)

SetPointers(t, r, lm, rm) ==
    /\ root' = [root EXCEPT ![t] = r]
    /\ leftmost' = [leftmost EXCEPT ![t] = lm]
    /\ rightmost' = [rightmost EXCEPT ![t] = rm]

SetExtrema(t, lm, rm) == SetPointers(t, root[t], lm, rm)

(* The nodes of S go to tree t's _nodes (t = Null: they are destroyed).    *)
Give(S, t) == [n \in Node |-> IF n \in S THEN t ELSE store[n]]

Destroyed(S) == heap' = Free(heap, S) /\ store' = Give(S, Null)

InSubtree(n, s) == n = s \/ HasParent(heap, n, s)
DropsLeftmost(t, s)  == InSubtree(leftmost[t], s)
DropsRightmost(t, s) == InSubtree(rightmost[t], s)

(* Mutant: the second of the tests below where the first one belongs.      *)
ChangesLeftmostWhenAbove(t, where) == InSubtree(leftmost[t], where)

EmplacingChangesLeftmost(t, where)  == where = leftmost[t]
EmplacingChangesRightmost(t, where) == InSubtree(rightmost[t], where)

(* erase_subtree and chop_subtree know the new extremum only when the      *)
(* subtree has none of them, or leaves its parent a leaf.                  *)
TameRemoval(t, s) ==
    \/ s = root[t]
    \/ ~DropsLeftmost(t, s) /\ ~DropsRightmost(t, s)
    \/ ChildCount(heap, heap[s].parent) = 1

-----------------------------------------------------------------------------
(* Construction, assignment, destruction.                                  *)

Construct(t) ==
    /\ t \notin live
    /\ live' = live \union {t}
    /\ UNCHANGED <<heap, store, pointers>>

(* t's pointers and nodes become u's, u is left empty.                     *)
Steal(t, u) ==
    /\ heap' = Free(heap, Nodes(t))
    /\ store' = [n \in Node |-> IF store[n] = t THEN Null
                                ELSE IF store[n] = u THEN t ELSE store[n]]
    /\ root' = [root EXCEPT ![t] = root[u], ![u] = Null]
    /\ leftmost' = [leftmost EXCEPT ![t] = leftmost[u], ![u] = Null]
    /\ rightmost' = [rightmost EXCEPT ![t] = rightmost[u], ![u] = Null]

MoveConstruct(t, u) ==
    /\ t \notin live /\ u \in live
    /\ live' = live \union {t}
    /\ Steal(t, u)

(* Move assignment between trees whose allocators are equal.               *)
MoveAssign(t, u) ==
    /\ t \in live /\ u \in live /\ t # u
    /\ Steal(t, u)
    /\ UNCHANGED live

(* The heap after copying the subtree of "from" into new nodes, copy[n]    *)
(* being the copy of n.                                                    *)
Copies(h, from, copy) ==
    LET S == DOMAIN copy
        above(n) == CHOOSE p \in S : n \in Children(h, p)
        place(n) == CHOOSE i \in DOMAIN h[above(n)].children : h[above(n)].children[i] = n
        image(n) == [parent   |-> IF n = from THEN Null ELSE copy[above(n)],
                     index    |-> IF n = from THEN 0 ELSE place(n) - 1,
                     children |-> [i \in DOMAIN h[n].children |-> copy[h[n].children[i]]]]
    IN  [m \in Node |-> IF \E n \in S : copy[n] = m
                        THEN image(CHOOSE n \in S : copy[n] = m) ELSE h[m]]

(* Clear t, then fill it with copies of the subtree of "from".             *)
CopyContents(t, from) ==
    LET cleared == Free(heap, Nodes(t))
        S == Subtree(heap, from)
    IN  \E copy \in [S -> FreeNodes \union Nodes(t)] :
            /\ \A m, n \in S : copy[m] = copy[n] => m = n
            /\ heap' = Copies(cleared, from, copy)
            /\ store' = [n \in Node |-> IF \E m \in S : copy[m] = n THEN t
                                        ELSE IF store[n] = t THEN Null ELSE store[n]]
            /\ SetPointers(t, copy[from], LeftmostChildOrThis(heap', copy[from]),
                                          RightmostChildOrThis(heap', copy[from]))

(* From another tree, or from a node of one.                               *)
CopyConstruct(t, from) ==
    /\ t \notin live /\ store[from] # Null
    /\ live' = live \union {t}
    /\ CopyContents(t, from)

CopyAssign(t, u) ==
    /\ t \in live /\ u \in live /\ t # u /\ root[u] # Null
    /\ CopyContents(t, root[u])
    /\ UNCHANGED live

(* Clear, and what copying from an empty tree comes to.                    *)
Clear(t) ==
    /\ t \in live
    /\ Destroyed(Nodes(t))
    /\ SetPointers(t, Null, Null, Null)
    /\ UNCHANGED live

(* Mutant of Destroy: the nodes leak.                                      *)
DestroyLeaking(t) ==
    /\ t \in live
    /\ live' = live \ {t}
    /\ SetPointers(t, Null, Null, Null)
    /\ UNCHANGED <<heap, store>>

Destroy(t) ==
    /\ t \in live
    /\ live' = live \ {t}
    /\ Destroyed(Nodes(t))
    /\ SetPointers(t, Null, Null, Null)

Swap(t, u) ==
    /\ t \in live /\ u \in live /\ t # u
    /\ store' = [n \in Node |-> IF store[n] = t THEN u
                                ELSE IF store[n] = u THEN t ELSE store[n]]
    /\ root' = [root EXCEPT ![t] = root[u], ![u] = root[t]]
    /\ leftmost' = [leftmost EXCEPT ![t] = leftmost[u], ![u] = leftmost[t]]
    /\ rightmost' = [rightmost EXCEPT ![t] = rightmost[u], ![u] = rightmost[t]]
    /\ UNCHANGED <<heap, live>>

-----------------------------------------------------------------------------
(* The operations on nodes and subtrees.                                   *)

(* emplace_node, under a node of the tree ...                              *)
Emplace(t, where, n) ==
    /\ store[where] = t /\ t # Null /\ n \in FreeNodes
    /\ heap' = InsertChild(heap, where, n)
    /\ store' = Give({n}, t)
    /\ SetExtrema(t, IF EmplacingChangesLeftmost(t, where) THEN n ELSE leftmost[t],
                     IF EmplacingChangesRightmost(t, where) THEN n ELSE rightmost[t])
    /\ UNCHANGED live

(* ... and with a null destination, as a new root above the old one.       *)
EmplaceRoot(t, n) ==
    /\ t \in live /\ n \in FreeNodes
    /\ store' = Give({n}, t)
    /\ \/ /\ root[t] # Null
          /\ heap' = InsertChild(heap, n, root[t])
          /\ SetPointers(t, n, leftmost[t], rightmost[t])
       \/ /\ root[t] = Null
          /\ SetPointers(t, n, n, n)
          /\ UNCHANGED heap
    /\ UNCHANGED live

(* chop_subtree: u is the tree it returns.                                 *)
ChopRoot(t, u) == root[t] # Null /\ MoveConstruct(u, t)

Chop(t, s, u) ==
    /\ store[s] = t /\ t # Null /\ s # root[t] /\ u \in Tree \ live
    /\ "chop" \in Wild \/ TameRemoval(t, s)
    /\ LET parent == heap[s].parent
           removed == RemoveChild(heap, parent, heap[s].index)
       IN  /\ heap' = ClearParentMetadata(removed, s)
           /\ root' = [root EXCEPT ![u] = s]
           /\ leftmost' = IF DropsLeftmost(t, s)
                 THEN [leftmost EXCEPT ![t] = parent, ![u] = leftmost[t]]
                 ELSE [leftmost EXCEPT ![u] = LeftmostChildOrThis(heap, s)]
           /\ rightmost' = IF DropsRightmost(t, s)
                 THEN [rightmost EXCEPT ![t] = parent, ![u] = rightmost[t]]
                 ELSE [rightmost EXCEPT ![u] = RightmostChildOrThis(heap, s)]
    /\ store' = Give(Subtree(heap, s), u)
    /\ live' = live \union {u}

(* adopt_subtree: u's nodes become a subtree of t.                         *)
Adopt(t, where, u) ==
    /\ store[where] = t /\ t # Null /\ u \in live \ {t} /\ root[u] # Null
    /\ LET taken == Subtree(heap, root[u])
           lost  == Nodes(u) \ taken
       IN  /\ heap' = Free(InsertChild(heap, where, root[u]), lost)
           /\ store' = [n \in Node |-> IF n \in taken THEN t
                                       ELSE IF n \in lost THEN Null ELSE store[n]]
    /\ root' = [root EXCEPT ![u] = Null]
    /\ leftmost' = [leftmost EXCEPT ![u] = Null,
            ![t] = IF EmplacingChangesLeftmost(t, where) THEN leftmost[u] ELSE @]
    /\ rightmost' = [rightmost EXCEPT ![u] = Null,
            ![t] = IF EmplacingChangesRightmost(t, where) THEN rightmost[u] ELSE @]
    /\ UNCHANGED live

(* move_subtree.  The assertion on the destination lets where = s pass.    *)
Move(t, where, s) ==
    /\ store[s] = t /\ store[where] = t /\ t # Null
    /\ s # root[t] /\ ~HasParent(heap, where, s)
    /\ "move" \in Wild \/ where # s
    /\ LET parent == heap[s].parent
           dropL == DropsLeftmost(t, s)
           dropR == DropsRightmost(t, s)
           updateL == EmplacingChangesLeftmost(t, where)
           updateR == EmplacingChangesRightmost(t, where)
       IN  /\ heap' = InsertChild(RemoveChild(heap, parent, heap[s].index), where, s)
           /\ SetExtrema(t,
                CASE ~dropL /\ updateL -> LeftmostChildOrThis(heap', where)
                  [] dropL /\ ~updateL -> LeftmostChildOrThis(heap', parent)
                  [] OTHER             -> leftmost[t],
                CASE ~dropR /\ updateR -> RightmostChildOrThis(heap', where)
                  [] dropR /\ ~updateR -> RightmostChildOrThis(heap', parent)
                  [] OTHER             -> rightmost[t])
    /\ UNCHANGED <<store, live>>

(* Mutant of Erase: the descendants stay in _nodes.                        *)
EraseLeavingDescendants(t, s) ==
    /\ store[s] = t /\ t # Null /\ s # root[t]
    /\ "erase" \in Wild \/ TameRemoval(t, s)
    /\ LET parent == heap[s].parent
       IN  /\ heap' = Free(RemoveChild(heap, parent, heap[s].index), {s})
           /\ store' = Give({s}, Null)
           /\ SetExtrema(t, IF DropsLeftmost(t, s) THEN parent ELSE leftmost[t],
                            IF DropsRightmost(t, s) THEN parent ELSE rightmost[t])
    /\ UNCHANGED live

(* erase_subtree; of the root, it is Clear.                                *)
Erase(t, s) ==
    /\ store[s] = t /\ t # Null /\ s # root[t]
    /\ "erase" \in Wild \/ TameRemoval(t, s)
    /\ LET parent == heap[s].parent
           erased == Subtree(heap, s)
       IN  /\ heap' = Free(RemoveChild(heap, parent, heap[s].index), erased)
           /\ store' = Give(erased, Null)
           /\ SetExtrema(t, IF DropsLeftmost(t, s) THEN parent ELSE leftmost[t],
                            IF DropsRightmost(t, s) THEN parent ELSE rightmost[t])
    /\ UNCHANGED live

(* Mutant of Merge: the cached extrema are forgotten.                      *)
MergeForgettingExtrema(t, n) ==
    /\ store[n] = t /\ t # Null /\ heap[n].parent # Null
    /\ heap' = Free(MergeChild(heap, heap[n].parent, heap[n].index), {n})
    /\ store' = Give({n}, Null)
    /\ UNCHANGED <<live, pointers>>

(* merge_with_parent: n's children take its place.                         *)
Merge(t, n) ==
    /\ store[n] = t /\ t # Null /\ heap[n].parent # Null
    /\ LET parent == heap[n].parent
           merged == MergeChild(heap, parent, heap[n].index)
       IN  /\ heap' = Free(merged, {n})
           /\ store' = Give({n}, Null)
           /\ SetExtrema(t,
                IF leftmost[t] = n THEN LeftmostChildOrThis(merged, parent) ELSE leftmost[t],
                IF rightmost[t] = n THEN RightmostChildOrThis(merged, parent) ELSE rightmost[t])
    /\ UNCHANGED live

(* What leaves the nodes that stay in a tree in the order they had ...     *)
OrderKept ==
    \E t \in Tree :
        \/ Construct(t) \/ Clear(t) \/ Destroy(t)
        \/ \E u \in Tree : \/ MoveConstruct(t, u) \/ MoveAssign(t, u)
                           \/ Swap(t, u) \/ ChopRoot(t, u)
        \/ \E n \in Node : \/ CopyConstruct(t, n) \/ EmplaceRoot(t, n)
                           \/ Erase(t, n) \/ Merge(t, n)
        \/ \E n, m \in Node : Emplace(t, n, m)
        \/ \E n \in Node, u \in Tree : Chop(t, n, u) \/ Adopt(t, n, u)

(* ... and what does not.                                                  *)
Next ==
    \/ OrderKept
    \/ \E t, u \in Tree : CopyAssign(t, u)
    \/ \E t \in Tree, n, m \in Node : Move(t, n, m)

Spec == Init /\ [][Next]_vars

-----------------------------------------------------------------------------
(* Parent pointers, sibling indices and children vectors say the same,     *)
(* through every shift of indices in node.hpp (remove_child, merge_child). *)
LinksAgree ==
    \A n \in Node : store[n] # Null =>
        /\ \A i \in DOMAIN heap[n].children :
              LET c == heap[n].children[i]
              IN  store[c] = store[n] /\ heap[c].parent = n /\ heap[c].index = i - 1
        /\ LET p == heap[n].parent
           IN  p # Null => /\ heap[n].index < ChildCount(heap, p)
                           /\ Child(heap, p, heap[n].index) = n

(* A tree owns exactly the nodes below its root: no operation leaves a     *)
(* node in _nodes that nothing reaches, detaches one in use or makes a     *)
(* cycle.                                                                  *)
Rooted ==
    \A t \in live :
        /\ root[t] = Null => Nodes(t) = {}
        /\ root[t] # Null => /\ Nodes(t) = Subtree(heap, root[t])
                             /\ heap[root[t]].parent = Null
                             /\ \A n \in Nodes(t) : InSubtree(n, root[t])

(* The cached extrema never dangle: they are nodes of their own tree.      *)
ExtremaInTree ==
    \A t \in live : IF root[t] = Null THEN leftmost[t] = Null /\ rightmost[t] = Null
                    ELSE leftmost[t] \in Nodes(t) /\ rightmost[t] \in Nodes(t)

(* unsafe_tree.hpp:142, 145: "Pointer to the leftmost node of the tree",   *)
(* and to the rightmost one, though both are updated from what a function  *)
(* knows of the operation, never by a search from the root.                *)
LeftmostIsLeftmost ==
    \A t \in live : root[t] # Null => leftmost[t] = LeftmostChildOrThis(heap, root[t])

RightmostIsRightmost ==
    \A t \in live : root[t] # Null => rightmost[t] = RightmostChildOrThis(heap, root[t])

(* Both, after any sequence of operations on any trees.                    *)
ExtremaAreExtreme == LeftmostIsLeftmost /\ RightmostIsRightmost

=============================================================================
