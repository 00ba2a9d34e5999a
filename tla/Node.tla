-------------------------------- MODULE Node --------------------------------
(***************************************************************************)
(* tools::detail::node (src/cpptools/container/tree/node.hpp): a tree node *)
(* knows its parent, its index among the parent's children and its         *)
(* children, in order.  A heap h maps every node to these fields; indices  *)
(* count from 0 as in the code.  Values are left out.                      *)
(***************************************************************************)
EXTENDS Naturals, FiniteSets, SequencesExt

CONSTANTS Node,  \* the addresses nodes are allocated at
          Null   \* nullptr

ASSUME NodeAssumption == IsFiniteSet(Node) /\ Null \notin Node

Heap == [Node -> [parent : Node \union {Null}, index : Nat, children : Seq(Node)]]

FreshNode == [parent |-> Null, index |-> 0, children |-> <<>>]

Child(h, n, i) == h[n].children[i + 1]
ChildCount(h, n) == Len(h[n].children)
Children(h, n) == ToSet(h[n].children)
IsLeaf(h, n) == h[n].children = <<>>

(* The k-th parent of n, Null above a root.                                *)
Ancestor(h, n) ==
    LET up[k \in 0..Cardinality(Node)] ==
            IF k = 0 THEN n
            ELSE LET m == up[k - 1] IN IF m = Null THEN Null ELSE h[m].parent
    IN  up

(* has_parent: a is an ancestor of n, n itself not counted.                *)
HasParent(h, n, a) == \E k \in 1..Cardinality(Node) : Ancestor(h, n)[k] = a

(* n and its descendants, found through the children vectors.              *)
Subtree(h, n) ==
    LET down[k \in 0..Cardinality(Node)] ==
            IF k = 0 THEN {n} ELSE UNION {Children(h, m) : m \in down[k - 1]}
    IN  UNION {down[k] : k \in 0..Cardinality(Node)}

(* The leaf reached by always taking the first (last) child.               *)
Descend(h, n, Pick(_)) ==
    LET down[k \in 0..Cardinality(Node)] ==
            IF k = 0 THEN n
            ELSE LET m == down[k - 1]
                 IN  IF IsLeaf(h, m) THEN m ELSE Pick(h[m].children)
    IN  down[Cardinality(Node)]

LeftmostChildOrThis(h, n)  == Descend(h, n, Head)
RightmostChildOrThis(h, n) == Descend(h, n, Last)

IsLeftmostSibling(h, n)  == h[n].index = 0
IsRightmostSibling(h, n) == h[n].index = ChildCount(h, h[n].parent) - 1
LeftSibling(h, n)        == Child(h, h[n].parent, h[n].index - 1)
RightSibling(h, n)       == Child(h, h[n].parent, h[n].index + 1)

(* The nodes below n and n itself in pre-order, with their depths, found   *)
(* by following the children vectors.                                      *)
Preorder(h, n) ==
    LET below[at \in Node \X (0..Cardinality(Node))] ==
            LET m == at[1]
                d == at[2]
            IN  IF d = Cardinality(Node) THEN <<>>
                ELSE <<[node |-> m, depth |-> d]>> \o
                     FlattenSeq([i \in DOMAIN h[m].children |->
                                    below[<<h[m].children[i], d + 1>>]])
    IN  below[<<n, 0>>]

-----------------------------------------------------------------------------
(* Mutants: a child inserted first instead of last, and one taken out      *)
(* without a word to its right siblings.                                   *)
InsertChildFirst(h, p, c) ==
    [h EXCEPT ![p].children = <<c>> \o @, ![c].parent = p, ![c].index = 0]

RemoveChildOnly(h, p, i) == [h EXCEPT ![p].children = RemoveAt(@, i + 1)]

(* Append c to p's children.                                               *)
InsertChild(h, p, c) ==
    [h EXCEPT ![p].children = Append(@, c),
              ![c].parent = p,
              ![c].index = ChildCount(h, p)]

(* Take out p's child number i; its right siblings move down by one.  The  *)
(* child's own parent and index are left as they were.                     *)
RemoveChild(h, p, i) ==
    LET right == {h[p].children[j] : j \in (i + 2)..ChildCount(h, p)}
    IN  [n \in Node |->
            [parent   |-> h[n].parent,
             index    |-> IF n \in right THEN h[n].index - 1 ELSE h[n].index,
             children |-> IF n = p THEN RemoveAt(h[p].children, i + 1)
                          ELSE h[n].children]]

(* Put the children of p's child number i in its place.  Only the nodes    *)
(* from position "first" and before "end" get a new index.                 *)
MergeChild(h, p, i) ==
    LET merged  == Child(h, p, i)
        adopted == h[merged].children
        kids    == SubSeq(h[p].children, 1, i) \o adopted
                     \o SubSeq(h[p].children, i + 2, ChildCount(h, p))
        first   == IF i = 0 THEN Len(adopted) ELSE i
        end     == IF Len(adopted) = 1 THEN i + 1 ELSE Len(kids)
        updated == first..(end - 1)
    IN  [n \in Node |->
            [parent   |-> IF n \in ToSet(adopted) THEN p ELSE h[n].parent,
             index    |-> IF \E k \in updated : kids[k + 1] = n
                          THEN CHOOSE k \in updated : kids[k + 1] = n
                          ELSE h[n].index,
             children |-> IF n = p THEN kids
                          ELSE IF n = merged THEN <<>>
                          ELSE h[n].children]]

ClearParentMetadata(h, n) == [h EXCEPT ![n].parent = Null, ![n].index = 0]

(* The nodes of S are destroyed; what is left at their addresses is no     *)
(* longer looked at.                                                       *)
Free(h, S) == [n \in Node |-> IF n \in S THEN FreshNode ELSE h[n]]

=============================================================================
