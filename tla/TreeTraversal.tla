---------------------------- MODULE TreeTraversal ----------------------------
(***************************************************************************)
(* The depth-first iterators over a tree (src/cpptools/container/tree/     *)
(* traversal.hpp).  An iterator is a tree and a node, Null past the end;   *)
(* it keeps nothing else, so that it can be moved from any node of any     *)
(* tree an operation may have left.                                        *)
(***************************************************************************)
EXTENDS UnsafeTree

Order == {"pre", "post"}

(* The first parent of n that is a root or that Stops says to stop at.     *)
TopParent(n, Stops(_)) ==
    LET up == Ancestor(heap, n)
        here(k) == heap[up[k]].parent = Null \/ Stops(up[k])
    IN  up[CHOOSE k \in 1..Cardinality(Node) :
              here(k) /\ \A j \in 1..(k - 1) : ~here(j)]

(* dfs_next and dfs_previous: climb to the first parent with a sibling on  *)
(* the side of the traversal, from where there is no child to go down to.  *)
Climb(n, IsLast(_), Sibling(_)) ==
    LET goOn(m) == ~IsLast(m)
        top == TopParent(n, goOn)
    IN  IF heap[n].parent = Null THEN Null
        ELSE IF ~IsLast(n) THEN Sibling(n)
        ELSE IF heap[top].parent # Null THEN Sibling(top) ELSE Null

IsRightmost(n) == IsRightmostSibling(heap, n)
IsLeftmost(n)  == IsLeftmostSibling(heap, n)
OnTheRight(n)  == RightSibling(heap, n)
OnTheLeft(n)   == LeftSibling(heap, n)

(* Mutant of NextInPreOrder: at the last sibling, back to the parent.      *)
ParentInPreOrder(n) ==
    IF ~IsLeaf(heap, n) THEN Head(heap[n].children)
    ELSE IF heap[n].parent # Null /\ ~IsRightmost(n) THEN OnTheRight(n) ELSE heap[n].parent

NextInPreOrder(n) ==
    IF ~IsLeaf(heap, n) THEN Head(heap[n].children)
    ELSE Climb(n, IsRightmost, OnTheRight)

(* Mutant: stopping at the sibling instead of its first leaf.              *)
NextSiblingInPostOrder(n) ==
    IF heap[n].parent # Null /\ ~IsRightmost(n) THEN OnTheRight(n) ELSE heap[n].parent

PreviousInPreOrder(n) ==
    IF heap[n].parent # Null /\ ~IsLeftmost(n)
    THEN RightmostChildOrThis(heap, OnTheLeft(n)) ELSE heap[n].parent

NextInPostOrder(n) ==
    IF heap[n].parent # Null /\ ~IsRightmost(n)
    THEN LeftmostChildOrThis(heap, OnTheRight(n)) ELSE heap[n].parent

PreviousInPostOrder(n) ==
    IF ~IsLeaf(heap, n) THEN Last(heap[n].children)
    ELSE Climb(n, IsLeftmost, OnTheLeft)

DfsBegin(t, o) == IF o = "pre" THEN root[t] ELSE leftmost[t]
DfsLast(t, o)  == IF o = "pre" THEN rightmost[t] ELSE root[t]

(* operator++ and operator-- of an iterator over t at node n.              *)
Increment(n, o)    == IF o = "pre" THEN NextInPreOrder(n) ELSE NextInPostOrder(n)
Decrement(t, n, o) == IF n = Null THEN DfsLast(t, o)
                      ELSE IF o = "pre" THEN PreviousInPreOrder(n)
                      ELSE PreviousInPostOrder(n)

-----------------------------------------------------------------------------
(* The nodes below n and n itself, in the order o, by its definition.      *)
Listed(n, o) ==
    LET below[at \in Node \X (0..Cardinality(Node))] ==
            LET m == at[1]
                d == at[2]
                kids == FlattenSeq([i \in DOMAIN heap[m].children |->
                                        below[<<heap[m].children[i], d + 1>>]])
            IN  IF d = Cardinality(Node) THEN <<>>
                ELSE IF o = "pre" THEN <<m>> \o kids ELSE kids \o <<m>>
    IN  below[<<n, 0>>]

(* A forward loop, from begin() by ++ to end(), visits every node of the   *)
(* tree once and in the order asked.                                       *)
ForwardTraversal ==
    \A t \in live, o \in Order : root[t] # Null =>
        LET l == Listed(root[t], o)
        IN  /\ DfsBegin(t, o) = l[1]
            /\ \A i \in DOMAIN l :
                  Increment(l[i], o) = IF i = Len(l) THEN Null ELSE l[i + 1]

(* A backward loop, from end() by -- to begin(), visits the same nodes in  *)
(* the opposite order.                                                     *)
BackwardTraversal ==
    \A t \in live, o \in Order : root[t] # Null =>
        LET l == Listed(root[t], o)
        IN  \A i \in 2..(Len(l) + 1) :
               Decrement(t, IF i > Len(l) THEN Null ELSE l[i], o) = l[i - 1]

(* traversal.hpp:42-155, 411-447: the iterators list every tree in both    *)
(* orders and in both directions, whatever was done to it before.          *)
IteratorsListTheTree == ForwardTraversal /\ BackwardTraversal

=============================================================================
