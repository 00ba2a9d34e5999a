--------------------------- MODULE TreeComparison ---------------------------
(***************************************************************************)
(* How two trees are compared (unsafe_tree.hpp, _subtrees_equal and        *)
(* operator==): one walk in pre-order over both, with one stack of pairs   *)
(* of nodes, on every pair of small trees.                                 *)
(***************************************************************************)
EXTENDS Node

CONSTANTS
    Label,    \* the values in the trees
    MaxSize   \* bound: the nodes of one tree

ASSUME ComparisonAssumption == Node = (1..MaxSize) \X {"left", "right"}

VARIABLES
    left,   \* the trees compared, as the lists of the values and depths of
    right   \* their nodes in pre-order

Trees == [left |-> left, right |-> right]

(* The nodes such trees are made of: node <<i, s>> is entry i of tree s.   *)
HeapOf(trees) ==
    LET entry(n) == trees[n[2]][n[1]]
        above(n) == IF n[1] > Len(trees[n[2]]) \/ entry(n).depth = 0 THEN Null
                    ELSE <<Max({j \in 1..n[1] : trees[n[2]][j].depth < entry(n).depth}), n[2]>>
        below(n) == SetToSortSeq({m \in Node : above(m) = n}, LAMBDA a, b : a[1] < b[1])
    IN  [n \in Node |->
            [parent   |-> above(n),
             children |-> below(n),
             index    |-> Cardinality({m \in Node : m[1] < n[1] /\ above(m) = above(n)
                                                     /\ above(n) # Null})]]

ValueOf(trees, n) == trees[n[2]][n[1]].value

-----------------------------------------------------------------------------
Pair(a, b, stack) == [this |-> a, other |-> b, stack |-> stack]

(* Up to the first node on the stack that has a sibling to go on with.     *)
Unstacked(h, c) ==
    LET below[k \in 0..MaxSize] ==
            IF k = 0 THEN c
            ELSE LET d == below[k - 1]
                 IN  IF d.stack # <<>> /\ h[d.this].parent # Null
                           /\ IsRightmostSibling(h, d.this)
                     THEN [Last(d.stack) EXCEPT !.stack = Front(d.stack)] ELSE d
    IN  below[MaxSize]

NextPair(h, c) ==
    IF ~IsLeaf(h, c.this)
    THEN Pair(Child(h, c.this, 0), Child(h, c.other, 0), Append(c.stack, c))
    ELSE LET d == Unstacked(h, c)
         IN  IF d.stack = <<>> THEN d
             ELSE Pair(RightSibling(h, d.this), RightSibling(h, d.other), d.stack)

(* Mutant of Alike: the values of leaves only are compared.                *)
AlikeInLeaves(h, c) ==
    /\ ChildCount(h, c.this) = ChildCount(h, c.other)
    /\ IsLeaf(h, c.this) => ValueOf(Trees, c.this) = ValueOf(Trees, c.other)

Alike(h, c) ==
    /\ ChildCount(h, c.this) = ChildCount(h, c.other)
    /\ ValueOf(Trees, c.this) = ValueOf(Trees, c.other)

(* _subtrees_equal: stops at the first pair that differs, or when the      *)
(* stack is empty after a step.                                            *)
SubtreesEqual(h, a, b) ==
    LET walk[k \in 0..MaxSize] ==
            IF k = 0 THEN Pair(a, b, <<>>)
            ELSE LET c == walk[k - 1]
                 IN  IF Alike(h, c) /\ (k > 1 => c.stack # <<>>) THEN NextPair(h, c) ELSE c
    IN  \A k \in DOMAIN walk : k = 0 \/ walk[k].stack # <<>> => Alike(h, walk[k])

(* operator== of two trees.                                                *)
TreesEqual ==
    /\ Len(left) = Len(right)
    /\ left # <<>> => SubtreesEqual(HeapOf(Trees), <<1, "left">>, <<1, "right">>)

-----------------------------------------------------------------------------
(* One more entry at the end of a tree.                                    *)
Extended(tree) ==
    {Append(tree, [value |-> v, depth |-> d]) : v \in Label,
        d \in IF tree = <<>> THEN {0} ELSE 1..(Last(tree).depth + 1)}

ComparisonInit == left = <<>> /\ right = <<>>

Grow ==
    \/ Len(left) < MaxSize /\ left' \in Extended(left) /\ UNCHANGED right
    \/ Len(right) < MaxSize /\ right' \in Extended(right) /\ UNCHANGED left

(* unsafe_tree.hpp:818-838: trees are equal exactly when they have the     *)
(* same shape and the same values in the same places, although the walk    *)
(* compares numbers of children only and asks one of the trees where the   *)
(* siblings end.                                                           *)
ComparesTrees == TreesEqual <=> left = right

=============================================================================
