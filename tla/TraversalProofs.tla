--------------------------- MODULE TraversalProofs ---------------------------
(***************************************************************************)
(* Proof that the cached extrema of the trees of UnsafeTree are extrema:   *)
(* what unsafe_tree.hpp knows of an operation is enough to keep _leftmost  *)
(* and _rightmost at the ends of the walks from the root by first and by   *)
(* last children, except where TameRemoval says.  Both sides are proved    *)
(* together, a side being "left" or "right".  From there, that the iterators*)
(* of TreeTraversal list every tree.                                       *)
(***************************************************************************)
EXTENDS TreeTraversal, UnsafeTreeProofs

-----------------------------------------------------------------------------
(* Ends of walks in trees.                                                 *)

LEMMA EndOfLeaf ==
    ASSUME NEW h \in Heap, NEW side \in Sides, NEW n \in Node, IsLeaf(h, n)
    PROVE  End(h, side, n) = n
<1> DEFINE T == {n}
<1>1. T \subseteq Node /\ n \in T /\ \A m \in T : IsLeaf(h, m) \/ Pick(side, h[m].children) \in T
  OBVIOUS
<1>2. End(h, side, n) \in T
  <2> HIDE DEF T
  <2> QED BY <1>1, EndStays
<1> QED BY <1>2

(* The bound on the number of steps is never what ends a walk: each step   *)
(* leaves a node of the subtree behind.                                    *)
LEMMA EndIsLeaf ==
    ASSUME NEW h \in Heap, NEW X, NEW r, IsTree(h, X, r), NEW side \in Sides, NEW n \in X
    PROVE  IsLeaf(h, End(h, side, n)) /\ End(h, side, n) \in X
<1>0. X \subseteq Node /\ n \in Node
  BY DEF IsTree
<1>1. PICK d : /\ IsIteration(d, Node, Down(h, side), n, NodeCount)
               /\ End(h, side, n) = d[NodeCount]
  BY <1>0, EndIs
<1> DEFINE Size(m) == Cardinality(Subtree(h, m))
           Good(k) == /\ d[k] \in X
                      /\ IsLeaf(h, d[k]) \/ Size(d[k]) <= NodeCount - k
           K == {k \in Nat : k <= NodeCount => Good(k)}
<1>2. ASSUME NEW m \in X
      PROVE  /\ Size(m) \in Nat \ {0} /\ Size(m) <= NodeCount
             /\ IsFiniteSet(Subtree(h, m)) /\ m \in Subtree(h, m)
  <2>1. Subtree(h, m) \subseteq Node /\ m \in Subtree(h, m)
    BY <1>0, SubtreeIn
  <2>2. IsFiniteSet(Subtree(h, m)) /\ Size(m) <= NodeCount
    BY <2>1, NodeAssumption, FS_Subset DEF NodeCount
  <2>3. Size(m) \in Nat /\ Size(m) # 0
    BY <2>1, <2>2, FS_CardinalityType, FS_EmptySet
  <2> QED BY <2>1, <2>2, <2>3
<1>3. 0 \in K
  <2>1. d[0] = n /\ Size(n) <= NodeCount - 0
    BY <1>1, <1>2, NodeCountType DEF IsIteration
  <2> QED BY <2>1
<1>4. ASSUME NEW k \in Nat, k \in K PROVE k + 1 \in K
  <2> SUFFICES ASSUME k + 1 <= NodeCount PROVE Good(k + 1)
    OBVIOUS
  <2>1. k + 1 \in 1..NodeCount /\ (k + 1) - 1 = k /\ Good(k)
    BY <1>4, NodeCountType
  <2>2. d[k + 1] = Down(h, side)[d[k]]
    BY <1>1, <2>1 DEF IsIteration
  <2>3. CASE IsLeaf(h, d[k])
    BY <1>0, <2>1, <2>2, <2>3 DEF Down
  <2>4. CASE ~IsLeaf(h, d[k])
    <3> DEFINE a == d[k]
               c == Pick(side, h[a].children)
    <3>1. a \in X /\ a \in Node /\ ~IsLeaf(h, a) /\ Size(a) <= NodeCount - k /\ d[k + 1] = c
      BY <1>0, <2>1, <2>2, <2>4 DEF Down
    <3> HIDE DEF a
    <3>2. c \in Children(h, a)
      BY <3>1, PickIs
    <3>3. c \in X /\ h[c].parent = a
      <4>1. c \in X
        BY <3>1, <3>2, TreeClosed
      <4>2. h[c].parent = a
        BY <3>1, <3>2, InChildren DEF IsTree
      <4> QED BY <4>1, <4>2
    <3> HIDE DEF c
    <3>4. Subtree(h, c) \subseteq Subtree(h, a) /\ a \notin Subtree(h, c)
      <4>1. c # r
        BY <1>0, <3>1, <3>3, NodeAssumption DEF IsTree
      <4>2. a \notin Subtree(h, c)
        BY <3>3, <4>1, ParentIsOutside
      <4>3. a \in Subtree(h, a) /\ \A m \in Subtree(h, a) : Children(h, m) \subseteq Subtree(h, a)
        BY <3>1, SubtreeParents
      <4>4. c \in Subtree(h, a)
        BY <3>2, <4>3
      <4>5. Subtree(h, c) \subseteq Subtree(h, a)
        BY <1>0, <3>3, <4>3, <4>4, SubtreeLeast
      <4> QED BY <4>2, <4>5
    <3>5. Size(c) \in Nat /\ Size(a) \in Nat
      BY <1>2, <3>1, <3>3
    <3>6. Size(c) < Size(a)
      <4> DEFINE A == Subtree(h, a)
                 C == Subtree(h, c)
      <4>1. IsFiniteSet(A) /\ C \subseteq A /\ C # A
        BY <1>2, <3>1, <3>4
      <4> HIDE DEF A, C
      <4>2. Cardinality(C) <= Cardinality(A) /\ Cardinality(C) # Cardinality(A)
        BY <4>1, FS_Subset
      <4> QED BY <3>5, <4>2 DEF A, C
    <3> HIDE DEF Size
    <3>7. Size(c) <= NodeCount - (k + 1)
      BY <3>1, <3>5, <3>6, NodeCountType
    <3> QED BY <3>1, <3>3, <3>7
  <2> QED BY <2>3, <2>4
<1>5. Nat \subseteq K
  <2> HIDE DEF K
  <2> QED BY <1>3, <1>4, SetInduction
<1>6. Good(NodeCount)
  <2>1. NodeCount \in K /\ NodeCount <= NodeCount
    BY <1>5, NodeCountType
  <2> QED BY <2>1
<1>7. ~(Size(d[NodeCount]) <= NodeCount - NodeCount)
  <2>1. Size(d[NodeCount]) \in Nat \ {0}
    BY <1>2, <1>6
  <2> HIDE DEF Size
  <2> QED BY <2>1, NodeCountType
<1> QED BY <1>1, <1>6, <1>7

(* Walks that see the same children go the same way.                       *)
LEMMA EndFrame ==
    ASSUME NEW h \in Heap, NEW g \in Heap, NEW side \in Sides, NEW T, T \subseteq Node, NEW n \in T,
           \A m \in T : /\ g[m].children = h[m].children
                        /\ IsLeaf(h, m) \/ Pick(side, h[m].children) \in T
    PROVE  End(g, side, n) = End(h, side, n)
<1>1. PICK d : /\ IsIteration(d, Node, Down(h, side), n, NodeCount)
               /\ End(h, side, n) = d[NodeCount]
  BY EndIs
<1>2. PICK e : /\ IsIteration(e, Node, Down(g, side), n, NodeCount)
               /\ End(g, side, n) = e[NodeCount]
  BY EndIs
<1> DEFINE K == {k \in Nat : k <= NodeCount => d[k] \in T /\ e[k] = d[k]}
<1>3. 0 \in K
  BY <1>1, <1>2 DEF IsIteration
<1>4. ASSUME NEW k \in Nat, k \in K PROVE k + 1 \in K
  <2> SUFFICES ASSUME k + 1 <= NodeCount PROVE d[k + 1] \in T /\ e[k + 1] = d[k + 1]
    OBVIOUS
  <2>1. k + 1 \in 1..NodeCount /\ (k + 1) - 1 = k /\ d[k] \in T /\ e[k] = d[k]
    BY <1>4, NodeCountType
  <2>2. d[k + 1] = Down(h, side)[d[k]] /\ e[k + 1] = Down(g, side)[d[k]]
    BY <1>1, <1>2, <2>1 DEF IsIteration
  <2> QED BY <2>1, <2>2 DEF Down, IsLeaf
<1>5. Nat \subseteq K
  <2> HIDE DEF K
  <2> QED BY <1>3, <1>4, SetInduction
<1> QED BY <1>1, <1>2, <1>5, NodeCountType

(* The same for a subtree that keeps its children.                         *)
LEMMA EndFrameBelow ==
    ASSUME NEW h \in Heap, NEW g \in Heap, NEW side \in Sides, NEW T, T \subseteq Node, NEW n \in T,
           \A m \in T : Children(h, m) \subseteq T /\ g[m].children = h[m].children
    PROVE  End(g, side, n) = End(h, side, n)
<1>1. \A m \in T : /\ g[m].children = h[m].children
                   /\ IsLeaf(h, m) \/ Pick(side, h[m].children) \in T
  BY PickIs
<1> QED BY <1>1, EndFrame

LEMMA EndStep ==
    ASSUME NEW h \in Heap, NEW X, NEW r, IsTree(h, X, r), NEW side \in Sides, NEW n \in X,
           ~IsLeaf(h, n)
    PROVE  /\ Pick(side, h[n].children) \in X
           /\ End(h, side, n) = End(h, side, Pick(side, h[n].children))
<1> DEFINE c == Pick(side, h[n].children)
<1>0. X \subseteq Node /\ n \in Node /\ c \in Node /\ c \in X
  <2>1. X \subseteq Node
    BY DEF IsTree
  <2>2. c \in Children(h, n) /\ c \in Node
    BY <2>1, PickIs
  <2> QED BY <2>1, <2>2, TreeClosed
<1>1. PICK d : /\ IsIteration(d, Node, Down(h, side), n, NodeCount)
               /\ End(h, side, n) = d[NodeCount]
  BY <1>0, EndIs
<1>2. PICK e : /\ IsIteration(e, Node, Down(h, side), c, NodeCount)
               /\ End(h, side, c) = e[NodeCount]
  BY <1>0, EndIs
<1>3. NodeCount \in Nat \ {0}
  <2>1. NodeCount # 0
    BY <1>0, NodeAssumption, FS_EmptySet DEF NodeCount
  <2> QED BY <2>1, NodeCountType
<1>4. Down(h, side)[n] = c
  BY <1>0 DEF Down
<1> HIDE DEF c
<1> DEFINE K == {k \in Nat : k + 1 <= NodeCount => e[k] = d[k + 1]}
<1>5. 0 \in K
  <2>1. 1 \in 1..NodeCount /\ 1 - 1 = 0 /\ 0 + 1 = 1
    BY <1>3
  <2>2. d[1] = c
    BY <1>1, <1>4, <2>1 DEF IsIteration
  <2> QED BY <1>2, <2>1, <2>2 DEF IsIteration
<1>6. ASSUME NEW k \in Nat, k \in K PROVE k + 1 \in K
  <2> SUFFICES ASSUME (k + 1) + 1 <= NodeCount PROVE e[k + 1] = d[(k + 1) + 1]
    OBVIOUS
  <2>1. /\ k + 1 \in 1..NodeCount /\ (k + 1) + 1 \in 1..NodeCount
        /\ (k + 1) - 1 = k /\ ((k + 1) + 1) - 1 = k + 1
        /\ e[k] = d[k + 1]
    BY <1>3, <1>6
  <2>2. e[k + 1] = Down(h, side)[e[k]] /\ d[(k + 1) + 1] = Down(h, side)[d[k + 1]]
    BY <1>1, <1>2, <2>1 DEF IsIteration
  <2> QED BY <2>1, <2>2
<1>7. Nat \subseteq K
  <2> HIDE DEF K
  <2> QED BY <1>5, <1>6, SetInduction
<1> DEFINE N == NodeCount - 1
<1>8. N \in Nat /\ N + 1 = NodeCount /\ NodeCount \in 1..NodeCount /\ NodeCount - 1 = N
  BY <1>3
<1>9. e[N] = d[NodeCount]
  <2>1. N \in K /\ N + 1 <= NodeCount
    BY <1>7, <1>8
  <2> QED BY <1>8, <2>1
<1>10. e[NodeCount] = Down(h, side)[d[NodeCount]]
  BY <1>2, <1>8, <1>9 DEF IsIteration
<1>11. IsLeaf(h, d[NodeCount]) /\ d[NodeCount] \in Node
  BY <1>0, <1>1, EndIsLeaf
<1> QED BY <1>0, <1>1, <1>2, <1>10, <1>11 DEF Down, c

(* How ends are found below: P holds a piece of the walk from n, all of it *)
(* up to w, so both walks have the same end.                               *)
LEMMA PathEnd ==
    ASSUME NEW h \in Heap, NEW X, NEW r, IsTree(h, X, r), NEW side \in Sides, NEW w \in X,
           NEW P, P \subseteq X, NEW n \in P,
           \A a \in P \ {w} : ~IsLeaf(h, a) /\ Pick(side, h[a].children) \in P
    PROVE  End(h, side, n) = End(h, side, w)
<1> DEFINE Q == {a \in X : a \in P \/ End(h, side, a) = End(h, side, w)}
           e == End(h, side, n)
<1>1. X \subseteq Node
  BY DEF IsTree
<1>2. ASSUME NEW a \in Q PROVE IsLeaf(h, a) \/ Pick(side, h[a].children) \in Q
  <2>1. CASE a \in P \ {w}
    BY <2>1
  <2>2. CASE End(h, side, a) = End(h, side, w)
    BY <2>2, EndStep
  <2> QED BY <2>1, <2>2
<1>3. e \in Q
  <2>1. Q \subseteq Node /\ n \in Q
    BY <1>1
  <2> HIDE DEF Q
  <2> QED BY <1>2, <2>1, EndStays
<1>4. IsLeaf(h, e) /\ e \in X
  BY EndIsLeaf
<1>5. End(h, side, e) = e
  BY <1>1, <1>4, EndOfLeaf
<1>6. e = w \/ e \notin P
  BY <1>4
<1> QED BY <1>3, <1>5, <1>6

(* The nodes whose walk ends at x, which a walk does not leave.            *)
Towards(h, side, X, x) == {a \in X : End(h, side, a) = x}

LEMMA TowardsIs ==
    ASSUME NEW h \in Heap, NEW X, NEW r, IsTree(h, X, r), NEW side \in Sides, NEW x,
           NEW a \in Towards(h, side, X, x)
    PROVE  /\ a \in X /\ a \in Node /\ End(h, side, a) = x
           /\ IsLeaf(h, a) => a = x
           /\ ~IsLeaf(h, a) => /\ Pick(side, h[a].children) \in Towards(h, side, X, x)
                               /\ h[Pick(side, h[a].children)].parent = a
           /\ x \in Subtree(h, a)
<1>1. a \in X /\ a \in Node /\ End(h, side, a) = x /\ X \subseteq Node
  BY DEF Towards, IsTree
<1>2. IsLeaf(h, a) => a = x
  BY <1>1, EndOfLeaf
<1>3. ~IsLeaf(h, a) => Pick(side, h[a].children) \in Towards(h, side, X, x)
  BY <1>1, EndStep DEF Towards
<1>4. ~IsLeaf(h, a) => h[Pick(side, h[a].children)].parent = a
  BY <1>1, PickIs, InChildren DEF IsTree
<1>5. x \in Subtree(h, a)
  <2> DEFINE T == Subtree(h, a)
  <2>1. a \in T /\ T \subseteq Node /\ \A m \in T : Children(h, m) \subseteq T
    BY <1>1, SubtreeParents, SubtreeIn
  <2> HIDE DEF T
  <2>2. End(h, side, a) \in T
    BY <2>1, EndStaysBelow
  <2> QED BY <1>1, <2>2 DEF T
<1> QED BY <1>1, <1>2, <1>3, <1>4, <1>5

(* The walk from the root to its end goes through all nodes above the end. *)
LEMMA EndAbove ==
    ASSUME NEW h \in Heap, NEW X, NEW r, IsTree(h, X, r), NEW side \in Sides, NEW s \in X,
           End(h, side, r) \in Subtree(h, s)
    PROVE  End(h, side, r) = End(h, side, s)
<1> DEFINE x == End(h, side, r)
           S == Subtree(h, s)
           P == {a \in Towards(h, side, X, x) : a \notin S \/ a = s}
<1>1. r \in X /\ r \in Node /\ s \in S /\ x \in S
  BY SubtreeIn DEF IsTree
<1>2. r \in P
  BY <1>1, ParentIsOutside DEF Towards
<1>3. ASSUME NEW a \in P \ {s} PROVE ~IsLeaf(h, a) /\ Pick(side, h[a].children) \in P
  <2>1. a \in Towards(h, side, X, x) /\ a \notin S
    BY <1>3
  <2>2. ~IsLeaf(h, a)
    BY <1>1, <2>1, TowardsIs
  <2> DEFINE c == Pick(side, h[a].children)
  <2>3. c \in Towards(h, side, X, x) /\ h[c].parent = a
    BY <2>1, <2>2, TowardsIs
  <2>4. c \notin S \/ c = s
    BY <2>1, <2>3, SubtreeParents
  <2> QED BY <2>2, <2>3, <2>4
<1>4. P \subseteq X
  BY DEF Towards
<1> HIDE DEF P
<1> QED BY <1>2, <1>3, <1>4, PathEnd

-----------------------------------------------------------------------------
(* What the operations of node.hpp do to the ends of walks.                *)

(* The child c under p changes the end x of the walk from the root.        *)
Changes(h, side, p, x) == IF side = "left" THEN p = x ELSE x \in Subtree(h, p)

LEMMA InsertPick ==
    ASSUME NEW h \in Heap, NEW side \in Sides, NEW p \in Node, NEW c \in Node, p # c,
           NEW a \in Node
    PROVE  LET g == InsertChild(h, p, c)
           IN  /\ ~IsLeaf(h, a) /\ (a # p \/ side = "left") =>
                    ~IsLeaf(g, a) /\ Pick(side, g[a].children) = Pick(side, h[a].children)
               /\ a # p /\ IsLeaf(h, a) => IsLeaf(g, a)
               /\ a = p /\ (IsLeaf(h, a) \/ side = "right") =>
                    ~IsLeaf(g, a) /\ Pick(side, g[a].children) = c
<1> DEFINE g == InsertChild(h, p, c)
           q == h[p].children
<1>1. /\ g \in Heap /\ g[p].children = Append(q, c)
      /\ \A n \in Node \ {p} : g[n].children = h[n].children
  BY InsertChildIs
<1>2. q \in Seq(Node) /\ Len(q) \in Nat
  BY HeapFields
<1>3. /\ Append(q, c) # <<>> /\ Len(Append(q, c)) = Len(q) + 1
      /\ Append(q, c)[Len(q) + 1] = c
      /\ \A j \in 1..Len(q) : Append(q, c)[j] = q[j]
  BY <1>2, AppendProperties
<1> HIDE DEF g
<1>4. CASE a # p
  BY <1>1, <1>4 DEF IsLeaf, g
<1>5. CASE a = p
  <2>1. ~IsLeaf(g, a)
    BY <1>1, <1>3, <1>5 DEF IsLeaf
  <2>2. Pick(side, g[a].children)
          = Append(q, c)[IF side = "left" THEN 1 ELSE Len(Append(q, c))]
    <3>1. Pick(side, g[a].children)
            = g[a].children[IF side = "left" THEN 1 ELSE Len(g[a].children)]
      BY <1>1, <2>1, PickIs
    <3> QED BY <1>1, <1>5, <3>1
  <2>3. side = "right" => Pick(side, g[a].children) = c
    BY <1>3, <2>2
  <2>4. IsLeaf(h, a) => Pick(side, g[a].children) = c
    <3> SUFFICES ASSUME IsLeaf(h, a) PROVE Pick(side, g[a].children) = c
      OBVIOUS
    <3>1. Len(q) = 0
      BY <1>2, <1>5 DEF IsLeaf
    <3> QED BY <1>3, <2>2, <3>1
  <2>5. ~IsLeaf(h, a) /\ side = "left" => Pick(side, g[a].children) = Pick(side, h[a].children)
    <3> SUFFICES ASSUME ~IsLeaf(h, a), side = "left"
                 PROVE  Pick(side, g[a].children) = Pick(side, h[a].children)
      OBVIOUS
    <3>1. Pick(side, h[a].children) = q[1] /\ 1 \in 1..Len(q)
      BY <1>5, PickIs
    <3> QED BY <1>3, <2>2, <3>1
  <2> QED BY <1>5, <2>1, <2>3, <2>4, <2>5 DEF g
<1> QED BY <1>4, <1>5

LEMMA InsertEnds ==
    ASSUME NEW h \in Heap, NEW X, NEW r, NEW Y, NEW c, NEW p \in X, NEW side \in Sides,
           IsTree(h, X, r), IsTree(h, Y, c), X \intersect Y = {}
    PROVE  End(InsertChild(h, p, c), side, r)
             = IF Changes(h, side, p, End(h, side, r)) THEN End(h, side, c) ELSE End(h, side, r)
<1> DEFINE g == InsertChild(h, p, c)
           x == End(h, side, r)
           Z == X \union Y
           D == Subtree(h, p)
<1>1. /\ X \subseteq Node /\ Y \subseteq Node /\ c \in Y /\ r \in X /\ p \in Node /\ c \in Node /\ p # c
      /\ r \in Node
  BY DEF IsTree
<1>2. g \in Heap /\ \A n \in Node \ {p} : g[n].children = h[n].children
  BY <1>1, InsertChildIs
<1>3. IsTree(g, Z, r)
  BY InsertKeepsTrees
<1>4. x \in X /\ IsLeaf(h, x) /\ p \in D /\ r \in Towards(h, side, X, x)
  BY <1>1, EndIsLeaf, SubtreeIn DEF Towards
<1>5. \A a \in Node :
        /\ ~IsLeaf(h, a) /\ (a # p \/ side = "left") =>
             ~IsLeaf(g, a) /\ Pick(side, g[a].children) = Pick(side, h[a].children)
        /\ a # p /\ IsLeaf(h, a) => IsLeaf(g, a)
        /\ a = p /\ (IsLeaf(h, a) \/ side = "right") =>
             ~IsLeaf(g, a) /\ Pick(side, g[a].children) = c
  BY <1>1, InsertPick
<1> HIDE DEF g
(* The walk goes through p and then into Y ...                             *)
<1>6. CASE Changes(h, side, p, x)
  <2> DEFINE P == {a \in Towards(h, side, X, x) : a \notin D \/ a = p}
  <2>1. x \in D
    BY <1>4, <1>6 DEF Changes, Sides
  <2>2. r \in P
    BY <1>1, <1>4, ParentIsOutside
  <2>3. ASSUME NEW a \in P \ {p} PROVE ~IsLeaf(g, a) /\ Pick(side, g[a].children) \in P
    <3>1. a \in Towards(h, side, X, x) /\ a \notin D /\ a \in Node
      BY <2>3, TowardsIs
    <3>2. ~IsLeaf(h, a)
      BY <2>1, <3>1, TowardsIs
    <3> DEFINE b == Pick(side, h[a].children)
    <3>3. b \in Towards(h, side, X, x) /\ h[b].parent = a
      BY <3>1, <3>2, TowardsIs
    <3>4. b \notin D \/ b = p
      BY <3>1, <3>3, SubtreeParents
    <3>5. ~IsLeaf(g, a) /\ Pick(side, g[a].children) = b
      BY <1>5, <2>3, <3>1, <3>2
    <3> QED BY <3>3, <3>4, <3>5
  <2>4. P \subseteq Z /\ p \in Z
    BY DEF Towards
  <2> HIDE DEF P, Z
  <2>5. End(g, side, r) = End(g, side, p)
    BY <1>2, <1>3, <2>2, <2>3, <2>4, PathEnd
  <2>6. ~IsLeaf(g, p) /\ Pick(side, g[p].children) = c
    BY <1>1, <1>4, <1>5, <1>6 DEF Changes, Sides
  <2>7. End(g, side, p) = End(g, side, c)
    BY <1>2, <1>3, <2>4, <2>6, EndStep
  <2>8. End(g, side, c) = End(h, side, c)
    <3>1. \A m \in Y : Children(h, m) \subseteq Y /\ g[m].children = h[m].children
      BY <1>1, <1>2, TreeClosed
    <3> QED BY <1>1, <1>2, <3>1, EndFrameBelow
  <2> QED BY <1>6, <2>5, <2>7, <2>8 DEF g
(* ... or is what it was.                                                  *)
<1>7. CASE ~Changes(h, side, p, x)
  <2> DEFINE P == Towards(h, side, X, x)
  <2>1. ASSUME NEW a \in P \ {x} PROVE ~IsLeaf(g, a) /\ Pick(side, g[a].children) \in P
    <3>1. a \in Node /\ ~IsLeaf(h, a) /\ Pick(side, h[a].children) \in P /\ x \in Subtree(h, a)
      BY <2>1, TowardsIs
    <3>2. a # p \/ side = "left"
      BY <1>7, <3>1 DEF Changes, Sides
    <3> QED BY <1>5, <3>1, <3>2
  <2>2. P \subseteq Z /\ x \in Z
    BY <1>4 DEF Towards
  <2>3. r \in P
    BY <1>4
  <2> HIDE DEF P, Z
  <2>4. End(g, side, r) = End(g, side, x)
    BY <1>2, <1>3, <2>1, <2>2, <2>3, PathEnd
  <2>5. x # p
    BY <1>4, <1>7 DEF Changes
  <2>6. End(g, side, x) = x
    BY <1>1, <1>2, <1>4, <1>5, <2>5, EndOfLeaf
  <2> QED BY <1>7, <2>4, <2>6 DEF g
<1> QED BY <1>6, <1>7

(* Taking s out of the tree: what is left of the walk.                     *)
LEMMA RemovePick ==
    ASSUME NEW h \in Heap, NEW X, NEW r, IsTree(h, X, r), NEW s \in X \ {r}, NEW side \in Sides,
           NEW a \in X
    PROVE  LET p == h[s].parent
               g == RemoveChild(h, p, h[s].index)
           IN  /\ a # p => g[a].children = h[a].children
               /\ ~IsLeaf(h, a) /\ Pick(side, h[a].children) # s =>
                    ~IsLeaf(g, a) /\ Pick(side, g[a].children) = Pick(side, h[a].children)
               /\ a = p => ~IsLeaf(h, a) /\ (ChildCount(h, a) = 1 => IsLeaf(g, a))
<1> DEFINE p == h[s].parent
           i == h[s].index
           g == RemoveChild(h, p, i)
           q == h[p].children
           w == g[p].children
<1>1. X \subseteq Node /\ a \in Node /\ p \in X /\ p \in Node /\ s \in Node
  BY DEF IsTree
<1>2. /\ i \in Nat /\ Len(q) \in Nat /\ DOMAIN q = 1..Len(q) /\ i + 1 \in DOMAIN q /\ q[i + 1] = s
      /\ \A j \in DOMAIN q : h[q[j]].index = j - 1
  BY <1>1, HeapFields DEF IsTree
<1>3. /\ g \in Heap
      /\ \A n \in Node \ {p} : g[n].children = h[n].children
      /\ Len(w) = Len(q) - 1
      /\ \A j \in 1..(Len(q) - 1) : w[j] = IF j < i + 1 THEN q[j] ELSE q[j + 1]
  <2>1. \A j \in DOMAIN h[p].children : h[h[p].children[j]].index = j - 1
    BY <1>2
  <2>2. p \in Node /\ i \in Nat /\ i + 1 \in DOMAIN h[p].children
    BY <1>1, <1>2
  <2> HIDE DEF i, p
  <2> QED BY <2>1, <2>2, RemoveChildIs
<1> HIDE DEF g
<1>4. CASE a # p
  BY <1>1, <1>3, <1>4 DEF IsLeaf, g
<1>5. CASE a = p
  <2>1. ~IsLeaf(h, p)
    BY <1>2 DEF IsLeaf
  <2>2. ChildCount(h, p) = 1 => IsLeaf(g, p)
    <3> SUFFICES ASSUME Len(q) = 1 PROVE w = <<>>
      BY DEF ChildCount, IsLeaf
    <3>1. w \in Seq(Node) /\ Len(w) = 0
      BY <1>1, <1>3, HeapFields
    <3> QED BY <3>1, EmptySeq
  <2>3. ASSUME Pick(side, q) # s
        PROVE  ~IsLeaf(g, p) /\ Pick(side, w) = Pick(side, q)
    <3>1. Pick(side, q) = q[IF side = "left" THEN 1 ELSE Len(q)]
      BY <1>1, <2>1, PickIs
    <3>2. IF side = "left" THEN i # 0 ELSE i + 1 # Len(q)
      <4>1. q[1] = s => side # "left"
        BY <2>3, <3>1
      <4>2. q[Len(q)] = s => side = "left"
        BY <2>3, <3>1
      <4>3. i = 0 => q[1] = s
        BY <1>2
      <4>4. i + 1 = Len(q) => q[Len(q)] = s
        BY <1>2
      <4> QED BY <4>1, <4>2, <4>3, <4>4
    <3> DEFINE l == Len(q)
    <3>3. l >= 2 /\ l \in Nat /\ Len(w) = l - 1 /\ i \in Nat /\ i + 1 \in 1..l
      <4>1. l \in Nat /\ i \in Nat /\ i + 1 \in 1..l /\ Len(w) = l - 1
        BY <1>2, <1>3
      <4>2. i # 0 \/ i + 1 # l
        BY <3>2
      <4> HIDE DEF i, l, w
      <4> QED BY <4>1, <4>2
    <3>4. \A j \in 1..(l - 1) : w[j] = IF j < i + 1 THEN q[j] ELSE q[j + 1]
      BY <1>3
    <3> HIDE DEF i, l
    <3>5. ~IsLeaf(g, p) /\ g \in Heap
      <4>1. Len(w) # 0
        BY <3>3
      <4>2. IsLeaf(g, p) => w = <<>>
        BY DEF IsLeaf
      <4>3. g \in Heap
        BY <1>3
      <4>4. w # <<>>
        <5> HIDE DEF w
        <5> QED BY <4>1
      <4> QED BY <4>2, <4>3, <4>4
    <3>6. Pick(side, w) = w[IF side = "left" THEN 1 ELSE l - 1]
      BY <1>1, <3>3, <3>5, PickIs
    <3> HIDE DEF q, w
    <3>7. CASE side = "left"
      <4>1. 1 \in 1..(l - 1) /\ 1 < i + 1
        BY <3>2, <3>3, <3>7
      <4> QED BY <3>1, <3>4, <3>5, <3>6, <3>7, <4>1
    <3>8. CASE side # "left"
      <4>1. l - 1 \in 1..(l - 1) /\ ~(l - 1 < i + 1) /\ (l - 1) + 1 = l
        BY <3>2, <3>3, <3>8 DEF l
      <4>2. w[l - 1] = q[l]
        BY <3>4, <4>1
      <4> QED BY <3>1, <3>5, <3>6, <3>8, <4>2 DEF l
    <3> QED BY <3>7, <3>8
  <2> QED BY <1>5, <2>1, <2>2, <2>3 DEF g
<1> QED BY <1>4, <1>5

(* What a walk to an end outside S does with the subtree S of s: nothing.  *)
LEMMA TowardsAvoids ==
    ASSUME NEW h \in Heap, NEW X, NEW r, IsTree(h, X, r), NEW side \in Sides, NEW s \in X,
           NEW x, x \notin Subtree(h, s), NEW a \in Towards(h, side, X, x)
    PROVE  a \notin Subtree(h, s)
<1> SUFFICES ASSUME a \in Subtree(h, s) PROVE FALSE
  OBVIOUS
<1> DEFINE S == Subtree(h, s)
<1>1. X \subseteq Node /\ S \subseteq X /\ \A m \in S : Children(h, m) \subseteq S
  BY SubtreeParents DEF IsTree
<1>2. Subtree(h, a) \subseteq S
  <2>1. a \in Node /\ a \in S /\ \A m \in S \intersect Node : Children(h, m) \subseteq S
    BY <1>1
  <2> HIDE DEF S
  <2> QED BY <2>1, SubtreeLeast
<1>3. x \in Subtree(h, a)
  BY TowardsIs
<1> QED BY <1>2, <1>3

(* A walk into the subtree of s enters it at s.                            *)
LEMMA TowardsEnters ==
    ASSUME NEW h \in Heap, NEW X, NEW r, IsTree(h, X, r), NEW side \in Sides, NEW s \in X,
           NEW x, NEW a \in Towards(h, side, X, x), a \notin Subtree(h, s), x \in Subtree(h, s)
    PROVE  LET c == Pick(side, h[a].children)
           IN  /\ ~IsLeaf(h, a) /\ c \in Towards(h, side, X, x) /\ h[c].parent = a
               /\ c \notin Subtree(h, s) \/ c = s
<1> DEFINE c == Pick(side, h[a].children)
<1>1. ~IsLeaf(h, a)
  BY TowardsIs
<1>2. c \in Towards(h, side, X, x) /\ h[c].parent = a
  BY <1>1, TowardsIs
<1> HIDE DEF c
<1>3. c \notin Subtree(h, s) \/ c = s
  BY <1>2, SubtreeParents
<1> QED BY <1>1, <1>2, <1>3 DEF c

(* The ends in the rest of the tree, k being the heap without s.           *)
LEMMA RemoveEnds ==
    ASSUME NEW h \in Heap, NEW X, NEW r, IsTree(h, X, r), NEW s \in X \ {r}, NEW side \in Sides,
           NEW k \in Heap, IsTree(k, X \ Subtree(h, s), r),
           \A n \in X \ Subtree(h, s) :
             k[n].children = RemoveChild(h, h[s].parent, h[s].index)[n].children
    PROVE  LET x == End(h, side, r)
           IN  IF x \notin Subtree(h, s) THEN End(k, side, r) = x
               ELSE ChildCount(h, h[s].parent) = 1 => End(k, side, r) = h[s].parent
<1> DEFINE x == End(h, side, r)
           S == Subtree(h, s)
           p == h[s].parent
           g == RemoveChild(h, p, h[s].index)
           Y == X \ S
<1>1. /\ X \subseteq Node /\ r \in Y /\ p \in Y /\ s \in S
      /\ x \in X /\ IsLeaf(h, x) /\ r \in Towards(h, side, X, x)
  <2>1. X \subseteq Node /\ r \in X
    BY DEF IsTree
  <2>2. r \notin S /\ p \in X \ S /\ s \in S
    BY <2>1, ParentIsOutside, SubtreeIn
  <2>3. x \in X /\ IsLeaf(h, x)
    BY <2>1, EndIsLeaf
  <2> QED BY <2>1, <2>2, <2>3 DEF Towards
<1>2. \A a \in X :
        /\ a # p => g[a].children = h[a].children
        /\ ~IsLeaf(h, a) /\ Pick(side, h[a].children) # s =>
             ~IsLeaf(g, a) /\ Pick(side, g[a].children) = Pick(side, h[a].children)
        /\ a = p => ~IsLeaf(h, a) /\ (ChildCount(h, a) = 1 => IsLeaf(g, a))
  BY RemovePick
<1>3. \A a \in Y : k[a].children = g[a].children /\ (IsLeaf(k, a) <=> IsLeaf(g, a))
  BY DEF IsLeaf
<1> HIDE DEF g, p, S, Y
<1>4. ASSUME x \notin S PROVE End(k, side, r) = x
  <2> DEFINE P == Towards(h, side, X, x)
  <2>1. ASSUME NEW a \in P PROVE a \in Y
    BY <1>4, <2>1, TowardsAvoids DEF Towards, S, Y
  <2>2. ASSUME NEW a \in P \ {x} PROVE ~IsLeaf(k, a) /\ Pick(side, k[a].children) \in P
    <3>1. a \in X /\ ~IsLeaf(h, a) /\ Pick(side, h[a].children) \in P
      BY <2>2, TowardsIs
    <3>2. Pick(side, h[a].children) # s
      BY <1>1, <2>1, <3>1 DEF Y
    <3> QED BY <1>2, <1>3, <2>1, <2>2, <3>1, <3>2
  <2>3. P \subseteq Y /\ x \in Y /\ r \in P
    BY <1>1, <1>4, <2>1 DEF Y
  <2> HIDE DEF P
  <2>4. End(k, side, r) = End(k, side, x)
    BY <2>2, <2>3, PathEnd DEF Y, S
  <2>5. IsLeaf(k, x)
    BY <1>1, <1>2, <1>3, <2>3 DEF IsLeaf
  <2> QED BY <1>1, <2>4, <2>5, EndOfLeaf
<1>5. ASSUME x \in S, ChildCount(h, p) = 1 PROVE End(k, side, r) = p
  <2> DEFINE P == {a \in Towards(h, side, X, x) : a \in Y}
  <2>1. ASSUME NEW a \in P \ {p} PROVE ~IsLeaf(k, a) /\ Pick(side, k[a].children) \in P
    <3> DEFINE c == Pick(side, h[a].children)
    <3>1. a \in X /\ a \in Y /\ a \notin Subtree(h, s) /\ a \in Towards(h, side, X, x)
      BY <2>1 DEF Y, S
    <3>2. /\ ~IsLeaf(h, a) /\ c \in Towards(h, side, X, x) /\ h[c].parent = a
          /\ c \notin Subtree(h, s) \/ c = s
      BY <1>5, <3>1, TowardsEnters DEF S
    <3> HIDE DEF c
    <3>3. c # s /\ c \in Y
      BY <2>1, <3>2 DEF p, Y, S, Towards
    <3>4. ~IsLeaf(g, a) /\ Pick(side, g[a].children) = c
      BY <1>2, <3>1, <3>2, <3>3 DEF c
    <3> QED BY <1>3, <3>1, <3>2, <3>3, <3>4
  <2>2. P \subseteq Y /\ p \in Y /\ r \in P
    BY <1>1
  <2> HIDE DEF P
  <2>3. End(k, side, r) = End(k, side, p)
    BY <2>1, <2>2, PathEnd DEF Y, S
  <2>4. IsLeaf(k, p) /\ p \in Node
    BY <1>1, <1>2, <1>3, <1>5 DEF Y
  <2> QED BY <2>3, <2>4, EndOfLeaf
<1> QED BY <1>4, <1>5 DEF S, p

(* Moving s under where.                                                   *)
LEMMA MovePick ==
    ASSUME NEW h \in Heap, NEW X, NEW r, IsTree(h, X, r), NEW s \in X \ {r}, NEW side \in Sides,
           NEW where \in X \ Subtree(h, s), NEW a \in X
    PROVE  LET p == h[s].parent
               k == InsertChild(RemoveChild(h, p, h[s].index), where, s)
           IN  /\ a # p /\ a # where => k[a].children = h[a].children
               /\ /\ ~IsLeaf(h, a) /\ Pick(side, h[a].children) # s
                  /\ a # where \/ side = "left"
                  => ~IsLeaf(k, a) /\ Pick(side, k[a].children) = Pick(side, h[a].children)
               /\ a = p => ~IsLeaf(h, a)
               /\ a = where /\ side = "right" => ~IsLeaf(k, a) /\ Pick(side, k[a].children) = s
<1> DEFINE p == h[s].parent
           g == RemoveChild(h, p, h[s].index)
           k == InsertChild(g, where, s)
<1>1. /\ X \subseteq Node /\ a \in Node /\ s \in Node /\ where \in Node /\ where # s
  BY SubtreeIn DEF IsTree
<1>2. /\ a # p => g[a].children = h[a].children
      /\ ~IsLeaf(h, a) /\ Pick(side, h[a].children) # s =>
           ~IsLeaf(g, a) /\ Pick(side, g[a].children) = Pick(side, h[a].children)
      /\ a = p => ~IsLeaf(h, a)
  BY RemovePick
<1>3. g \in Heap
  BY DetachKeepsTrees
<1> HIDE DEF g, p
<1>4. /\ ~IsLeaf(g, a) /\ (a # where \/ side = "left") =>
           ~IsLeaf(k, a) /\ Pick(side, k[a].children) = Pick(side, g[a].children)
      /\ a = where /\ (IsLeaf(g, a) \/ side = "right") =>
           ~IsLeaf(k, a) /\ Pick(side, k[a].children) = s
  BY <1>1, <1>3, InsertPick
<1>5. a # where => k[a].children = g[a].children
  BY <1>1, <1>3, InsertChildIs
<1> QED BY <1>2, <1>4, <1>5 DEF k, g, p

LEMMA MoveEnds ==
    ASSUME NEW h \in Heap, NEW X, NEW r, IsTree(h, X, r), NEW s \in X \ {r}, NEW side \in Sides,
           NEW where \in X \ Subtree(h, s), NEW k \in Heap,
           k = InsertChild(RemoveChild(h, h[s].parent, h[s].index), where, s), IsTree(k, X, r)
    PROVE  LET x == End(h, side, r)
               drop == x \in Subtree(h, s)
               update == Changes(h, side, where, x)
           IN  End(k, side, r) = CASE ~drop /\ update -> End(k, side, where)
                                   [] drop /\ ~update -> End(k, side, h[s].parent)
                                   [] OTHER -> x
<1> DEFINE x == End(h, side, r)
           S == Subtree(h, s)
           D == Subtree(h, where)
           p == h[s].parent
           U == Towards(h, side, X, x)
           update == Changes(h, side, where, x)
<1>1. /\ X \subseteq Node /\ r \in X \ S /\ p \in X \ S /\ s \in S /\ S \subseteq X /\ where \in D
      /\ x \in X /\ IsLeaf(h, x) /\ r \in U /\ U \subseteq X
  <2>1. X \subseteq Node /\ r \in X
    BY DEF IsTree
  <2>2. r \notin S /\ p \in X \ S /\ s \in S /\ S \subseteq X /\ where \in D
    BY <2>1, ParentIsOutside, SubtreeParents, SubtreeIn
  <2>3. x \in X /\ IsLeaf(h, x)
    BY <2>1, EndIsLeaf
  <2> QED BY <2>1, <2>2, <2>3 DEF Towards
<1>2. \A a \in X :
        /\ a # p /\ a # where => k[a].children = h[a].children
        /\ /\ ~IsLeaf(h, a) /\ Pick(side, h[a].children) # s
           /\ a # where \/ side = "left"
           => ~IsLeaf(k, a) /\ Pick(side, k[a].children) = Pick(side, h[a].children)
        /\ a = p => ~IsLeaf(h, a)
        /\ a = where /\ side = "right" => ~IsLeaf(k, a) /\ Pick(side, k[a].children) = s
  BY MovePick
<1>3. ASSUME NEW a \in U
      PROVE  /\ a \in X
             /\ a # x => /\ ~IsLeaf(h, a) /\ Pick(side, h[a].children) \in U
                         /\ h[Pick(side, h[a].children)].parent = a
             /\ x \in Subtree(h, a)
             /\ x \notin S => a \notin S
  <2>1. /\ a \in X /\ x \in Subtree(h, a)
        /\ a # x => /\ ~IsLeaf(h, a) /\ Pick(side, h[a].children) \in U
                    /\ h[Pick(side, h[a].children)].parent = a
    BY <1>3, TowardsIs
  <2>2. x \notin S => a \notin S
    BY <1>3, TowardsAvoids
  <2> QED BY <2>1, <2>2
<1> HIDE DEF x, S, D, U
(* A walk in which no node is where, unless the new child comes last.      *)
<1>4. ASSUME NEW P \in SUBSET U, NEW w \in X, r \in P, P \intersect S = {},
             x \notin P \ {w},
             \A a \in P \ {w} : a # where \/ side = "left",
             \A a \in P \ {w} : h[Pick(side, h[a].children)].parent = a
                                /\ Pick(side, h[a].children) \in U
                                => Pick(side, h[a].children) \in P
      PROVE  End(k, side, r) = End(k, side, w)
  <2>1. ASSUME NEW a \in P \ {w} PROVE ~IsLeaf(k, a) /\ Pick(side, k[a].children) \in P
    <3> DEFINE c == Pick(side, h[a].children)
    <3>1. a \in U /\ a # x /\ a \in X
      BY <1>1, <1>4, <2>1
    <3>2. ~IsLeaf(h, a) /\ c \in U /\ h[c].parent = a
      BY <1>3, <3>1
    <3>3. c \in P
      BY <1>4, <2>1, <3>2
    <3>4. c # s
      BY <1>1, <1>4, <3>3
    <3> QED BY <1>2, <1>4, <2>1, <3>1, <3>2, <3>3, <3>4
  <2>2. P \subseteq X /\ r \in P
    BY <1>1, <1>4
  <2> QED BY <2>1, <2>2, PathEnd
<1>5. CASE x \notin S /\ ~update
  <2>1. \A a \in U : a # where \/ side = "left"
    BY <1>3, <1>5 DEF Changes, Sides
  <2>2. U \intersect S = {}
    BY <1>3, <1>5
  <2>3. End(k, side, r) = End(k, side, x)
    <3>1. U \in SUBSET U /\ x \in X /\ r \in U
      BY <1>1
    <3> QED BY <1>4, <2>1, <2>2, <3>1
  <2>4. IsLeaf(k, x)
    <3>1. x # p
      BY <1>1, <1>2
    <3>2. x # where
      BY <1>1, <1>5 DEF Changes, D
    <3> QED BY <1>1, <1>2, <3>1, <3>2 DEF IsLeaf
  <2>5. End(k, side, x) = x
    BY <1>1, <2>4, EndOfLeaf
  <2> QED BY <1>5, <2>3, <2>5 DEF x, S
(* The part of the walk outside the subtree of where.                      *)
<1> DEFINE P == {a \in U : (a \notin D \/ a = where) /\ a \notin S}
<1>6. ASSUME update PROVE /\ P \in SUBSET U /\ where \in X /\ r \in P /\ P \intersect S = {}
                          /\ x \notin P \ {where}
                          /\ \A a \in P \ {where} : a # where \/ side = "left"
                          /\ x \in D
  <2>1. x \in D
    BY <1>1, <1>6 DEF Changes, D
  <2>2. r \notin D \/ r = where
    BY <1>1, ParentIsOutside DEF D
  <2> QED BY <1>1, <2>1, <2>2
<1>7. ASSUME NEW c \in U, NEW a \in P \ {where}, h[c].parent = a PROVE c \notin D \/ c = where
  <2>1. a \notin D
    BY <1>7
  <2>2. \A m \in D \ {where} : h[m].parent \in D
    BY SubtreeParents DEF D
  <2> QED BY <1>7, <2>1, <2>2
<1>8. CASE x \notin S /\ update
  <2>1. ASSUME NEW c \in U, NEW a \in P \ {where}, h[c].parent = a PROVE c \in P
    BY <1>3, <1>7, <1>8, <2>1
  <2>2. End(k, side, r) = End(k, side, where)
    <3> HIDE DEF P, update
    <3> QED BY <1>4, <1>6, <1>8, <2>1
  <2> QED BY <1>8, <2>2 DEF x, S
<1>9. CASE x \in S /\ ~update
  <2> DEFINE Q == U \ S
  <2>1. ASSUME NEW c \in U, NEW a \in Q \ {p}, h[c].parent = a PROVE c \in Q
    <3>1. \A m \in S \ {s} : h[m].parent \in S
      BY SubtreeParents DEF S
    <3> QED BY <2>1, <3>1
  <2>2. \A a \in Q : a # where \/ side = "left"
    BY <1>3, <1>9 DEF Changes, Sides
  <2>3. Q \in SUBSET U /\ p \in X /\ r \in Q /\ Q \intersect S = {} /\ x \notin Q \ {p}
    BY <1>1, <1>9
  <2>4. End(k, side, r) = End(k, side, p)
    <3> HIDE DEF Q, p
    <3> QED BY <1>4, <2>1, <2>2, <2>3
  <2> QED BY <1>9, <2>4 DEF x, S
<1>10. CASE x \in S /\ update
  <2>1. side = "right"
    BY <1>1, <1>10 DEF Changes, Sides, S
  <2>2. x \in D
    BY <1>6, <1>10
  <2>3. s \in D
    BY <1>1, <1>10, <2>2, SubtreesNest DEF S, D
  <2>4. p \in D
    <3>1. s # where
      BY <1>1 DEF S
    <3> QED BY <2>3, <3>1, SubtreeParents DEF D
  <2>5. ASSUME NEW c \in U, NEW a \in P \ {where}, h[c].parent = a PROVE c \in P
    <3>1. c \notin S
      <4>1. \A m \in S \ {s} : h[m].parent \in S
        BY SubtreeParents DEF S
      <4>2. a \notin S /\ a \notin D
        BY <2>5
      <4> QED BY <2>4, <2>5, <4>1, <4>2
    <3> QED BY <1>7, <2>5, <3>1
  <2>6. End(k, side, r) = End(k, side, where)
    <3> HIDE DEF P, update
    <3> QED BY <1>4, <1>6, <1>10, <2>5
  <2>7. End(k, side, where) = End(k, side, s)
    <3>1. ~IsLeaf(k, where) /\ Pick(side, k[where].children) = s
      BY <1>2, <2>1
    <3> QED BY <3>1, EndStep
  <2>8. End(k, side, s) = End(h, side, s)
    <3>1. \A m \in S : Children(h, m) \subseteq S /\ k[m].children = h[m].children
      <4>1. \A m \in S : Children(h, m) \subseteq S
        BY SubtreeParents DEF S
      <4>2. \A m \in S : m # p /\ m # where /\ m \in X
        BY <1>1 DEF S
      <4> QED BY <1>2, <4>1, <4>2
    <3> QED BY <1>1, <3>1, EndFrameBelow
  <2>9. End(h, side, s) = x
    BY <1>10, EndAbove DEF x, S
  <2> QED BY <1>10, <2>6, <2>7, <2>8, <2>9 DEF x, S
<1> QED BY <1>5, <1>8, <1>9, <1>10

(* Merging n into its parent.                                              *)
LEMMA MergePick ==
    ASSUME NEW h \in Heap, NEW X, NEW r, IsTree(h, X, r), NEW n \in X \ {r}, NEW side \in Sides
    PROVE  LET p == h[n].parent
               g == MergeChild(h, p, h[n].index)
               c == Pick(side, h[p].children)
           IN  /\ \A a \in X \ {p, n} : g[a].children = h[a].children
               /\ p # n /\ ~IsLeaf(h, p)
               /\ c # n => ~IsLeaf(g, p) /\ Pick(side, g[p].children) = c
               /\ c = n /\ ~IsLeaf(h, n) =>
                    ~IsLeaf(g, p) /\ Pick(side, g[p].children) = Pick(side, h[n].children)
<1> DEFINE p == h[n].parent
           i == h[n].index
           g == MergeChild(h, p, i)
           q == h[p].children
           a == h[n].children
           w == g[p].children
           c == Pick(side, q)
<1>1. /\ X \subseteq Node /\ n \in X /\ n \in Node /\ p \in X /\ p \in Node /\ p # n
      /\ i \in Nat /\ i + 1 \in DOMAIN q /\ q[i + 1] = n
  <2>1. X \subseteq Node /\ n \in X /\ p \in X /\ i + 1 \in DOMAIN q /\ q[i + 1] = n
    BY DEF IsTree
  <2>2. p # n
    BY <2>1, ParentIsOutside, SubtreeIn
  <2> QED BY <2>1, <2>2, HeapFields
<1>2. \A m \in {p, n} : \A j \in DOMAIN h[m].children :
        h[h[m].children[j]].parent = m /\ h[h[m].children[j]].index = j - 1
  BY <1>1 DEF IsTree
<1>3. IsMerge(h, g, p, n, i)
  <2>1. i + 1 \in DOMAIN h[p].children /\ h[p].children[i + 1] = n
    BY <1>1
  <2> HIDE DEF p, i, q, a, w
  <2> QED BY <1>1, <1>2, <2>1, MergeChildIs
<1>4. g \in Heap /\ \A m \in Node \ {p, n} : g[m].children = h[m].children
  <2> HIDE DEF p, i, g
  <2> QED BY <1>3 DEF IsMerge
<1> DEFINE l == Len(q)
           k == Len(a)
<1>5. /\ Len(w) = l + k - 1
      /\ \A j \in 1..i : w[j] = q[j]
      /\ \A j \in 1..k : w[i + j] = a[j]
      /\ \A j \in (i + 2)..l : w[j + k - 1] = q[j]
  <2> HIDE DEF p, i, g
  <2> QED BY <1>3 DEF IsMerge
<1>6. /\ l \in Nat /\ k \in Nat /\ i \in Nat /\ i + 1 \in 1..l
      /\ \A j \in 1..l : q[j] = n => j = i + 1
      /\ w \in Seq(Node) /\ (IsLeaf(g, p) <=> Len(w) = 0) /\ (IsLeaf(h, n) <=> k = 0)
  <2>1. DOMAIN q = 1..l /\ l \in Nat
    BY <1>1, HeapFields
  <2>2. k \in Nat /\ (IsLeaf(h, n) <=> k = 0)
    <3>1. a \in Seq(Node)
      BY <1>1, HeapFields
    <3> QED BY <3>1, EmptySeq DEF IsLeaf
  <2>3. w \in Seq(Node) /\ (IsLeaf(g, p) <=> Len(w) = 0)
    <3>1. w \in Seq(Node)
      BY <1>1, <1>4, HeapFields
    <3> HIDE DEF g
    <3> QED BY <3>1, EmptySeq DEF IsLeaf
  <2>4. \A j \in 1..l : q[j] = n => j = i + 1
    <3> SUFFICES ASSUME NEW j \in 1..l, q[j] = n PROVE j = i + 1
      OBVIOUS
    <3>1. h[q[j]].index = j - 1
      BY <1>2, <2>1
    <3>2. i = j - 1 /\ i \in Nat /\ j \in Int
      BY <1>1, <3>1
    <3> HIDE DEF i, l
    <3> QED BY <3>2
  <2> QED BY <1>1, <2>1, <2>2, <2>3, <2>4
<1>7. ~IsLeaf(h, p)
  BY <1>1 DEF IsLeaf
<1>8. c = q[IF side = "left" THEN 1 ELSE l]
  BY <1>1, <1>7, PickIs
<1>9. ~IsLeaf(g, p) => Pick(side, w) = w[IF side = "left" THEN 1 ELSE Len(w)]
  <2> HIDE DEF g, p
  <2> QED BY <1>1, <1>4, PickIs
<1>10. ~IsLeaf(h, n) => Pick(side, a) = a[IF side = "left" THEN 1 ELSE k]
  BY <1>1, PickIs
<1> HIDE DEF g, p, i, q, a, w, c, l, k
<1>11. ASSUME c # n PROVE ~IsLeaf(g, p) /\ Pick(side, w) = c
  <2>1. CASE side = "left"
    <3>1. 1 \in 1..l
      BY <1>6
    <3>2. i # 0
      BY <1>1, <1>6, <1>8, <1>11, <2>1, <3>1 DEF l, q
    <3>3. 1 \in 1..i /\ Len(w) # 0
      BY <1>5, <1>6, <3>2
    <3> QED BY <1>5, <1>6, <1>8, <1>9, <2>1, <3>3
  <2>2. CASE side # "left"
    <3>1. l \in 1..l
      BY <1>6
    <3>2. i + 1 # l
      BY <1>1, <1>8, <1>11, <2>2
    <3>3. l \in (i + 2)..l /\ Len(w) # 0 /\ Len(w) = l + k - 1
      BY <1>5, <1>6, <3>1, <3>2
    <3>4. w[Len(w)] = q[l]
      BY <1>5, <3>3
    <3> QED BY <1>6, <1>8, <1>9, <2>2, <3>3, <3>4
  <2> QED BY <2>1, <2>2
<1>12. ASSUME c = n, ~IsLeaf(h, n) PROVE ~IsLeaf(g, p) /\ Pick(side, w) = Pick(side, a)
  <2>1. k # 0
    BY <1>6, <1>12
  <2>2. CASE side = "left"
    <3>1. i = 0
      <4>1. 1 \in 1..l /\ i \in Nat /\ (q[1] = n => 1 = i + 1)
        BY <1>6
      <4>2. q[1] = n
        BY <1>8, <1>12, <2>2
      <4> QED BY <4>1, <4>2
    <3>2. 1 \in 1..k /\ i + 1 = 1 /\ Len(w) # 0
      BY <1>5, <1>6, <2>1, <3>1
    <3>3. w[1] = a[1]
      BY <1>5, <3>2
    <3> QED BY <1>6, <1>9, <1>10, <1>12, <2>2, <3>2, <3>3
  <2>3. CASE side # "left"
    <3>1. i + 1 = l
      <4>1. l \in 1..l /\ (q[l] = n => l = i + 1)
        BY <1>6
      <4>2. q[l] = n
        BY <1>8, <1>12, <2>3
      <4> QED BY <4>1, <4>2
    <3>2. k \in 1..k /\ Len(w) = i + k /\ Len(w) # 0
      BY <1>5, <1>6, <2>1, <3>1
    <3>3. w[Len(w)] = a[k]
      BY <1>5, <3>2
    <3> QED BY <1>6, <1>9, <1>10, <1>12, <2>3, <3>2, <3>3
  <2> QED BY <2>2, <2>3
<1>13. \A m \in X \ {p, n} : g[m].children = h[m].children
  BY <1>1, <1>4
<1> QED BY <1>1, <1>7, <1>11, <1>12, <1>13 DEF g, p, i, q, a, w, c

LEMMA MergeEnds ==
    ASSUME NEW h \in Heap, NEW X, NEW r, IsTree(h, X, r), NEW n \in X \ {r}, NEW side \in Sides,
           NEW g, g = MergeChild(h, h[n].parent, h[n].index)
    PROVE  LET x == End(h, side, r)
           IN  End(Free(g, {n}), side, r) = IF x = n THEN End(g, side, h[n].parent) ELSE x
<1> DEFINE x == End(h, side, r)
           p == h[n].parent
           k == Free(g, {n})
           Y == X \ {n}
           U == Towards(h, side, X, x)
<1>1. /\ X \subseteq Node /\ n \in X /\ r \in Y /\ p \in X
      /\ x \in X /\ IsLeaf(h, x) /\ r \in U /\ U \subseteq X
  <2>1. X \subseteq Node /\ r \in X /\ p \in X
    BY DEF IsTree
  <2>2. x \in X /\ IsLeaf(h, x)
    BY <2>1, EndIsLeaf
  <2> QED BY <2>1, <2>2 DEF Towards
<1>2. /\ \A a \in X \ {p, n} : g[a].children = h[a].children
      /\ p # n /\ ~IsLeaf(h, p)
      /\ Pick(side, h[p].children) # n =>
           ~IsLeaf(g, p) /\ Pick(side, g[p].children) = Pick(side, h[p].children)
      /\ Pick(side, h[p].children) = n /\ ~IsLeaf(h, n) =>
           ~IsLeaf(g, p) /\ Pick(side, g[p].children) = Pick(side, h[n].children)
  BY MergePick
<1>3. /\ g \in Heap /\ IsTree(k, Y, r)
      /\ \A m \in Y : Children(g, m) \subseteq Y
  BY MergeKeepsTrees
<1>4. k \in Heap /\ \A a \in Y : k[a] = g[a]
  BY <1>1, <1>3, FreeIs
<1>5. ASSUME NEW a \in U, a # x
      PROVE  /\ ~IsLeaf(h, a) /\ Pick(side, h[a].children) \in U
             /\ h[Pick(side, h[a].children)].parent = a
  BY <1>5, TowardsIs
<1> HIDE DEF k, p, x, U
<1> DEFINE P == U \ {n}
<1>6. P \subseteq Y /\ r \in P /\ p \in Y
  BY <1>1, <1>2
<1>7. CASE x # n
  <2>1. ASSUME NEW a \in P \ {x} PROVE ~IsLeaf(k, a) /\ Pick(side, k[a].children) \in P
    <3> DEFINE c == Pick(side, h[a].children)
    <3>1. a \in Y /\ ~IsLeaf(h, a) /\ c \in U /\ h[c].parent = a /\ k[a] = g[a]
      BY <1>4, <1>5, <1>6, <2>1
    <3>2. CASE a # p
      <4>1. c # n
        BY <3>1, <3>2 DEF p
      <4>2. k[a].children = h[a].children
        BY <1>2, <3>1, <3>2
      <4> QED BY <3>1, <4>1, <4>2 DEF IsLeaf
    <3>3. CASE a = p /\ c # n
      BY <1>2, <3>1, <3>3 DEF IsLeaf
    <3>4. CASE a = p /\ c = n
      <4> DEFINE b == Pick(side, h[n].children)
      <4>1. ~IsLeaf(h, n) /\ b \in U /\ h[b].parent = n
        BY <1>5, <1>7, <3>1, <3>4
      <4>2. b # n
        BY <1>2, <4>1 DEF p
      <4>3. ~IsLeaf(g, a) /\ Pick(side, g[a].children) = b
        BY <1>2, <3>4, <4>1
      <4> QED BY <3>1, <4>1, <4>2, <4>3 DEF IsLeaf
    <3> QED BY <3>2, <3>3, <3>4
  <2>2. x \in Y
    BY <1>1, <1>7
  <2>3. End(k, side, r) = End(k, side, x)
    <3> HIDE DEF P, Y
    <3> QED BY <1>3, <1>4, <1>6, <2>1, <2>2, PathEnd
  <2>4. IsLeaf(k, x)
    BY <1>1, <1>2, <1>4, <1>7 DEF IsLeaf
  <2> QED BY <1>1, <1>4, <1>7, <2>3, <2>4, EndOfLeaf DEF k, x
<1>8. CASE x = n
  <2>1. ASSUME NEW a \in P \ {p} PROVE ~IsLeaf(k, a) /\ Pick(side, k[a].children) \in P
    <3> DEFINE c == Pick(side, h[a].children)
    <3>1. a \in Y /\ ~IsLeaf(h, a) /\ c \in U /\ h[c].parent = a /\ k[a] = g[a]
      BY <1>4, <1>5, <1>6, <1>8, <2>1
    <3>2. c # n
      BY <2>1, <3>1 DEF p
    <3>3. k[a].children = h[a].children
      BY <1>2, <2>1, <3>1
    <3> QED BY <3>1, <3>2, <3>3 DEF IsLeaf
  <2>2. End(k, side, r) = End(k, side, p)
    <3> HIDE DEF P, Y
    <3> QED BY <1>3, <1>4, <1>6, <2>1, PathEnd
  <2>3. End(k, side, p) = End(g, side, p)
    <3>1. Y \subseteq Node /\ \A m \in Y : Children(g, m) \subseteq Y /\ k[m].children = g[m].children
      BY <1>1, <1>3, <1>4
    <3> HIDE DEF Y
    <3> QED BY <1>3, <1>4, <1>6, <3>1, EndFrameBelow
  <2> QED BY <1>8, <2>2, <2>3 DEF k, x, p
<1> QED BY <1>7, <1>8

-----------------------------------------------------------------------------
(* The cached extrema.                                                     *)

AtEnds(h, r, lm, rm) ==
    r # Null => lm = LeftmostChildOrThis(h, r) /\ rm = RightmostChildOrThis(h, r)

LEMMA AtEndsIs ==
    ASSUME NEW h, NEW r, NEW lm, NEW rm
    PROVE  AtEnds(h, r, lm, rm) <=> (r # Null => lm = End(h, "left", r) /\ rm = End(h, "right", r))
BY DEF AtEnds, End

(* Where nothing changes, the extrema are what they were.                  *)
LEMMA ExtremaFrame ==
    ASSUME IInv, ExtremaAreExtreme, NEW t \in Tree, NEW g \in Heap,
           \A n \in Nodes(t) : g[n] = heap[n]
    PROVE  AtEnds(g, root[t], leftmost[t], rightmost[t])
<1> SUFFICES ASSUME root[t] # Null PROVE AtEnds(g, root[t], leftmost[t], rightmost[t])
  BY DEF AtEnds
<1> DEFINE X == Nodes(t)
           r == root[t]
<1>1. heap \in Heap /\ X \subseteq Node /\ t \in live /\ IsTree(heap, X, r)
  BY LiveIs
<1>2. leftmost[t] = LeftmostChildOrThis(heap, r) /\ rightmost[t] = RightmostChildOrThis(heap, r)
  BY <1>1 DEF ExtremaAreExtreme, LeftmostIsLeftmost, RightmostIsRightmost
<1> HIDE DEF X, r
<1>3. r \in X /\ \A m \in X : Children(heap, m) \subseteq X /\ g[m].children = heap[m].children
  <2>1. \A m \in X : g[m] = heap[m]
    BY DEF X
  <2> QED BY <1>1, <2>1, TreeClosed DEF IsTree
<1>4. \A side \in Sides : End(g, side, r) = End(heap, side, r)
  BY <1>1, <1>3, EndFrameBelow
<1>5. leftmost[t] = End(g, "left", r) /\ rightmost[t] = End(g, "right", r)
  BY <1>2, <1>4 DEF End, Sides
<1> QED BY <1>5, AtEndsIs DEF r

LEMMA ExtremaIs ==
    ASSUME IInv, ExtremaAreExtreme, NEW t \in Tree, root[t] # Null
    PROVE  leftmost[t] = End(heap, "left", root[t]) /\ rightmost[t] = End(heap, "right", root[t])
<1>1. heap \in Heap /\ \A n \in Nodes(t) : heap[n] = heap[n]
  BY DEF IInv, TypeOK
<1> QED BY <1>1, ExtremaFrame, AtEndsIs

(* A step is right if it is for the tree objects of T, the only ones whose *)
(* nodes and pointers it changes.                                          *)
LEMMA StepKeepsExtrema ==
    ASSUME IInv, ExtremaAreExtreme, NEW T \in SUBSET Tree, heap' \in Heap, live' \subseteq Tree,
           \A t \in T : AtEnds(heap', root'[t], leftmost'[t], rightmost'[t]),
           \A t \in Tree \ T :
             root'[t] = root[t] /\ leftmost'[t] = leftmost[t] /\ rightmost'[t] = rightmost[t],
           \A n \in Node : store[n] \in Tree \ T => heap'[n] = heap[n]
    PROVE  ExtremaAreExtreme'
<1>1. ASSUME NEW t \in Tree PROVE AtEnds(heap', root'[t], leftmost'[t], rightmost'[t])
  <2>1. CASE t \in T
    BY <2>1
  <2>2. CASE t \notin T
    <3>1. \A n \in Nodes(t) : heap'[n] = heap[n]
      BY <2>2 DEF Nodes
    <3>2. AtEnds(heap', root[t], leftmost[t], rightmost[t])
      BY <3>1, ExtremaFrame
    <3> QED BY <2>2, <3>2
  <2> QED BY <2>1, <2>2
<1>2. LeftmostIsLeftmost' /\ RightmostIsRightmost'
  BY <1>1 DEF AtEnds, LeftmostIsLeftmost, RightmostIsRightmost
<1> QED BY <1>2 DEF ExtremaAreExtreme

(* The code's tests whether an extremum changes.                           *)
LEMMA TestsAre ==
    ASSUME IInv, ExtremaAreExtreme, NEW t \in Tree, NEW n \in Node, store[n] = t
    PROVE  LET x(side) == End(heap, side, root[t])
           IN  /\ DropsLeftmost(t, n) <=> x("left") \in Subtree(heap, n)
               /\ DropsRightmost(t, n) <=> x("right") \in Subtree(heap, n)
               /\ EmplacingChangesLeftmost(t, n) <=> Changes(heap, "left", n, x("left"))
               /\ EmplacingChangesRightmost(t, n) <=> Changes(heap, "right", n, x("right"))
<1> DEFINE X == Nodes(t)
           r == root[t]
<1>1. heap \in Heap /\ t # Null
  BY LiveIs
<1>2. /\ n \in X /\ r # Null /\ IsTree(heap, X, r) /\ leftmost[t] \in X /\ rightmost[t] \in X
  BY <1>1, OwnerIs
<1>3. leftmost[t] = End(heap, "left", r) /\ rightmost[t] = End(heap, "right", r)
  BY <1>2, ExtremaIs
<1> HIDE DEF X, r
<1>4. \A m \in X : InSubtree(m, n) <=> m \in Subtree(heap, n)
  BY <1>1, <1>2, TreeUnder DEF InSubtree, IsUnder
<1>5. /\ InSubtree(leftmost[t], n) <=> leftmost[t] \in Subtree(heap, n)
      /\ InSubtree(rightmost[t], n) <=> rightmost[t] \in Subtree(heap, n)
  BY <1>2, <1>4
<1> QED BY <1>3, <1>5 DEF DropsLeftmost, DropsRightmost, EmplacingChangesLeftmost,
                          EmplacingChangesRightmost, Changes, r

LEMMA StealKeepsExtrema ==
    ASSUME IInv, IInv', ExtremaAreExtreme, NEW t \in Tree, NEW u \in Tree, t # u, Steal(t, u)
    PROVE  ExtremaAreExtreme'
<1>1. /\ heap \in Heap /\ heap' \in Heap /\ live' \subseteq Tree
      /\ root \in [Tree -> Node \union {Null}]
      /\ leftmost \in [Tree -> Node \union {Null}]
      /\ rightmost \in [Tree -> Node \union {Null}]
  BY DEF IInv, TypeOK
<1>2. \A n \in Node \ Nodes(t) : heap'[n] = heap[n]
  BY <1>1, FreeIs DEF Steal
<1>3. /\ root' = [root EXCEPT ![t] = root[u], ![u] = Null]
      /\ leftmost' = [leftmost EXCEPT ![t] = leftmost[u], ![u] = Null]
      /\ rightmost' = [rightmost EXCEPT ![t] = rightmost[u], ![u] = Null]
  BY DEF Steal
<1>4. AtEnds(heap', root'[t], leftmost'[t], rightmost'[t])
  <2>1. \A n \in Nodes(u) : heap'[n] = heap[n]
    BY <1>2 DEF Nodes
  <2>2. AtEnds(heap', root[u], leftmost[u], rightmost[u])
    BY <1>1, <2>1, ExtremaFrame
  <2> QED BY <1>1, <1>3, <2>2
<1>5. AtEnds(heap', root'[u], leftmost'[u], rightmost'[u])
  BY <1>1, <1>3 DEF AtEnds
<1> DEFINE T == {t, u}
<1>6. T \in SUBSET Tree /\ \A v \in T : AtEnds(heap', root'[v], leftmost'[v], rightmost'[v])
  BY <1>4, <1>5
<1>7. \A v \in Tree \ T :
        root'[v] = root[v] /\ leftmost'[v] = leftmost[v] /\ rightmost'[v] = rightmost[v]
  BY <1>1, <1>3
<1>8. \A n \in Node : store[n] \in Tree \ T => heap'[n] = heap[n]
  BY <1>2 DEF Nodes
<1> HIDE DEF T
<1> QED BY <1>1, <1>6, <1>7, <1>8, StepKeepsExtrema

LEMMA EmptyKeepsExtrema ==
    ASSUME IInv, IInv', ExtremaAreExtreme, NEW t \in Tree, Destroyed(Nodes(t)),
           SetPointers(t, Null, Null, Null)
    PROVE  ExtremaAreExtreme'
<1>1. /\ heap \in Heap /\ heap' \in Heap /\ live' \subseteq Tree
      /\ root \in [Tree -> Node \union {Null}]
      /\ leftmost \in [Tree -> Node \union {Null}]
      /\ rightmost \in [Tree -> Node \union {Null}]
  BY DEF IInv, TypeOK
<1>2. \A n \in Node \ Nodes(t) : heap'[n] = heap[n]
  BY <1>1, FreeIs DEF Destroyed
<1>3. /\ root' = [root EXCEPT ![t] = Null]
      /\ leftmost' = [leftmost EXCEPT ![t] = Null]
      /\ rightmost' = [rightmost EXCEPT ![t] = Null]
  BY DEF SetPointers
<1> DEFINE T == {t}
<1>4. T \in SUBSET Tree /\ \A v \in T : AtEnds(heap', root'[v], leftmost'[v], rightmost'[v])
  BY <1>1, <1>3 DEF AtEnds
<1>5. \A v \in Tree \ T :
        root'[v] = root[v] /\ leftmost'[v] = leftmost[v] /\ rightmost'[v] = rightmost[v]
  BY <1>1, <1>3
<1>6. \A n \in Node : store[n] \in Tree \ T => heap'[n] = heap[n]
  BY <1>2 DEF Nodes
<1> HIDE DEF T
<1> QED BY <1>1, <1>4, <1>5, <1>6, StepKeepsExtrema

LEMMA SwapKeepsExtrema ==
    ASSUME IInv, IInv', ExtremaAreExtreme, NEW t \in Tree, NEW u \in Tree, Swap(t, u)
    PROVE  ExtremaAreExtreme'
<1>1. /\ heap' = heap /\ heap' \in Heap /\ live' \subseteq Tree /\ t # u
      /\ root \in [Tree -> Node \union {Null}]
      /\ leftmost \in [Tree -> Node \union {Null}]
      /\ rightmost \in [Tree -> Node \union {Null}]
  BY DEF IInv, TypeOK, Swap
<1>2. /\ root' = [root EXCEPT ![t] = root[u], ![u] = root[t]]
      /\ leftmost' = [leftmost EXCEPT ![t] = leftmost[u], ![u] = leftmost[t]]
      /\ rightmost' = [rightmost EXCEPT ![t] = rightmost[u], ![u] = rightmost[t]]
  BY DEF Swap
<1>3. /\ AtEnds(heap', root[t], leftmost[t], rightmost[t])
      /\ AtEnds(heap', root[u], leftmost[u], rightmost[u])
  BY <1>1, ExtremaFrame
<1> DEFINE T == {t, u}
<1>4. T \in SUBSET Tree /\ \A v \in T : AtEnds(heap', root'[v], leftmost'[v], rightmost'[v])
  BY <1>1, <1>2, <1>3
<1>5. \A v \in Tree \ T :
        root'[v] = root[v] /\ leftmost'[v] = leftmost[v] /\ rightmost'[v] = rightmost[v]
  BY <1>1, <1>2
<1>6. \A n \in Node : store[n] \in Tree \ T => heap'[n] = heap[n]
  BY <1>1
<1> HIDE DEF T
<1> QED BY <1>1, <1>4, <1>5, <1>6, StepKeepsExtrema

(* A copy's extrema are searched for.                                      *)
LEMMA CopyKeepsExtrema ==
    ASSUME IInv, IInv', ExtremaAreExtreme, NEW t \in Tree, NEW from \in Node, store[from] # Null,
           CopyContents(t, from)
    PROVE  ExtremaAreExtreme'
<1>1. /\ heap \in Heap /\ heap' \in Heap /\ live' \subseteq Tree
      /\ root \in [Tree -> Node \union {Null}]
      /\ leftmost \in [Tree -> Node \union {Null}]
      /\ rightmost \in [Tree -> Node \union {Null}]
  BY DEF IInv, TypeOK
<1> DEFINE S == Subtree(heap, from)
           cleared == Free(heap, Nodes(t))
<1>2. PICK copy \in [S -> FreeNodes \union Nodes(t)] :
        /\ heap' = Copies(cleared, from, copy)
        /\ SetPointers(t, copy[from], LeftmostChildOrThis(heap', copy[from]),
                                      RightmostChildOrThis(heap', copy[from]))
  BY DEF CopyContents
<1>3. /\ root' = [root EXCEPT ![t] = copy[from]]
      /\ leftmost' = [leftmost EXCEPT ![t] = LeftmostChildOrThis(heap', copy[from])]
      /\ rightmost' = [rightmost EXCEPT ![t] = RightmostChildOrThis(heap', copy[from])]
  BY <1>2 DEF SetPointers
<1>4. cleared \in Heap /\ \A n \in Node \ Nodes(t) : cleared[n] = heap[n]
  BY <1>1, FreeIs
<1>5. \A n \in Node : store[n] \in Tree \ {t} => heap'[n] = heap[n]
  <2> SUFFICES ASSUME NEW n \in Node, store[n] \in Tree \ {t} PROVE heap'[n] = heap[n]
    OBVIOUS
  <2>1. n \notin FreeNodes \union Nodes(t)
    BY TreeAssumption DEF FreeNodes, Nodes
  <2>2. \A m \in S : copy[m] # n
    BY <1>2, <2>1
  <2>3. heap'[n] = cleared[n]
    <3> HIDE DEF S, cleared
    <3>1. DOMAIN copy = S
      BY <1>2
    <3> QED BY <1>2, <2>2, <3>1 DEF Copies
  <2> QED BY <1>4, <2>1, <2>3
<1> DEFINE T == {t}
<1>6. T \in SUBSET Tree /\ \A v \in T : AtEnds(heap', root'[v], leftmost'[v], rightmost'[v])
  <2>1. /\ root'[t] = copy[from] /\ leftmost'[t] = LeftmostChildOrThis(heap', copy[from])
        /\ rightmost'[t] = RightmostChildOrThis(heap', copy[from])
    BY <1>1, <1>3
  <2> QED BY <2>1 DEF AtEnds
<1>7. \A v \in Tree \ T :
        root'[v] = root[v] /\ leftmost'[v] = leftmost[v] /\ rightmost'[v] = rightmost[v]
  BY <1>1, <1>3
<1> HIDE DEF T, S, cleared
<1> QED BY <1>1, <1>5, <1>6, <1>7, StepKeepsExtrema DEF T

LEMMA EmplaceKeepsExtrema ==
    ASSUME IInv, IInv', ExtremaAreExtreme,
           NEW t \in Tree, NEW where \in Node, NEW n \in Node, Emplace(t, where, n)
    PROVE  ExtremaAreExtreme'
<1> DEFINE X == Nodes(t)
           Y == {n}
           r == root[t]
<1>1. /\ heap \in Heap /\ heap' \in Heap /\ live' \subseteq Tree /\ store[where] = t /\ t # Null
      /\ n \in FreeNodes
      /\ root \in [Tree -> Node \union {Null}]
      /\ leftmost \in [Tree -> Node \union {Null}]
      /\ rightmost \in [Tree -> Node \union {Null}]
  BY DEF IInv, TypeOK, Emplace
<1>2. where \in X /\ r # Null /\ IsTree(heap, X, r)
  BY <1>1, OwnerIs
<1>3. X \intersect Y = {} /\ n # where /\ IsTree(heap, Y, n)
  <2>1. heap[n] = FreshNode
    BY <1>1 DEF IInv, FreeAreFresh
  <2>2. n \notin X
    BY <1>1 DEF FreeNodes, Nodes
  <2> QED BY <1>1, <1>2, <2>1, <2>2, FreshIsTree
<1>4. /\ heap' = InsertChild(heap, where, n)
      /\ root' = [root EXCEPT ![t] = root[t]]
      /\ leftmost' = [leftmost EXCEPT ![t] =
           IF EmplacingChangesLeftmost(t, where) THEN n ELSE leftmost[t]]
      /\ rightmost' = [rightmost EXCEPT ![t] =
           IF EmplacingChangesRightmost(t, where) THEN n ELSE rightmost[t]]
  BY DEF Emplace, SetExtrema, SetPointers
<1> HIDE DEF X, Y, r
<1>5. \A side \in Sides :
        End(heap', side, r) = IF Changes(heap, side, where, End(heap, side, r))
                              THEN n ELSE End(heap, side, r)
  <2> SUFFICES ASSUME NEW side \in Sides
               PROVE  End(heap', side, r) = IF Changes(heap, side, where, End(heap, side, r))
                                            THEN n ELSE End(heap, side, r)
    OBVIOUS
  <2>1. End(heap, side, n) = n
    <3>1. End(heap, side, n) \in Y
      BY <1>1, <1>3, EndIsLeaf DEF IsTree
    <3> QED BY <3>1 DEF Y
  <2> QED BY <1>1, <1>2, <1>3, <1>4, <2>1, InsertEnds
<1> DEFINE T == {t}
<1>6. T \in SUBSET Tree /\ \A v \in T : AtEnds(heap', root'[v], leftmost'[v], rightmost'[v])
  <2>1. leftmost[t] = End(heap, "left", r) /\ rightmost[t] = End(heap, "right", r)
    BY <1>2, ExtremaIs DEF r
  <2>2. /\ EmplacingChangesLeftmost(t, where) <=>
             Changes(heap, "left", where, End(heap, "left", r))
        /\ EmplacingChangesRightmost(t, where) <=>
             Changes(heap, "right", where, End(heap, "right", r))
    BY <1>1, TestsAre DEF r
  <2>3. leftmost'[t] = End(heap', "left", r) /\ rightmost'[t] = End(heap', "right", r)
    BY <1>1, <1>4, <1>5, <2>1, <2>2 DEF Sides
  <2>4. root'[t] = r
    BY <1>1, <1>4 DEF r
  <2> QED BY <2>3, <2>4, AtEndsIs
<1>7. \A v \in Tree \ T :
        root'[v] = root[v] /\ leftmost'[v] = leftmost[v] /\ rightmost'[v] = rightmost[v]
  BY <1>1, <1>4
<1>8. \A m \in Node : store[m] \in Tree \ T => heap'[m] = heap[m]
  <2>1. \A m \in Node \ {where, n} : InsertChild(heap, where, n)[m] = heap[m]
    BY <1>1, <1>3, InsertChildIs
  <2>2. \A m \in Node \ {where, n} : heap'[m] = heap[m]
    BY <1>4, <2>1
  <2> QED BY <1>1, <2>2, TreeAssumption DEF FreeNodes
<1> HIDE DEF T
<1> QED BY <1>1, <1>6, <1>7, <1>8, StepKeepsExtrema

LEMMA EmplaceRootKeepsExtrema ==
    ASSUME IInv, IInv', ExtremaAreExtreme, NEW t \in Tree, NEW n \in Node, EmplaceRoot(t, n)
    PROVE  ExtremaAreExtreme'
<1> DEFINE X == Nodes(t)
           Y == {n}
           r == root[t]
<1>1. /\ heap \in Heap /\ heap' \in Heap /\ live' \subseteq Tree /\ n \in FreeNodes /\ n # Null
      /\ root \in [Tree -> Node \union {Null}]
      /\ leftmost \in [Tree -> Node \union {Null}]
      /\ rightmost \in [Tree -> Node \union {Null}]
  BY NodeAssumption DEF IInv, TypeOK, EmplaceRoot
<1>2. n \notin X /\ IsTree(heap, Y, n) /\ IsLeaf(heap, n)
  <2>1. heap[n] = FreshNode
    BY <1>1 DEF IInv, FreeAreFresh
  <2>2. n \notin X
    BY <1>1, TreeAssumption DEF FreeNodes, Nodes
  <2> QED BY <1>1, <2>1, <2>2, FreshIsTree DEF IsLeaf, FreshNode
<1>3. \A side \in Sides : End(heap, side, n) = n
  BY <1>1, <1>2, EndOfLeaf
<1> DEFINE T == {t}
<1>4. T \in SUBSET Tree
  OBVIOUS
<1>5. CASE r = Null
  <2>1. /\ heap' = heap /\ root' = [root EXCEPT ![t] = n]
        /\ leftmost' = [leftmost EXCEPT ![t] = n] /\ rightmost' = [rightmost EXCEPT ![t] = n]
    BY <1>5 DEF EmplaceRoot, SetPointers
  <2>2. root'[t] = n /\ leftmost'[t] = n /\ rightmost'[t] = n
    BY <1>1, <2>1
  <2>3. \A v \in T : AtEnds(heap', root'[v], leftmost'[v], rightmost'[v])
    BY <1>3, <2>1, <2>2, AtEndsIs DEF Sides
  <2>4. \A v \in Tree \ T :
          root'[v] = root[v] /\ leftmost'[v] = leftmost[v] /\ rightmost'[v] = rightmost[v]
    BY <1>1, <2>1
  <2> HIDE DEF T
  <2> QED BY <1>1, <1>4, <2>1, <2>3, <2>4, StepKeepsExtrema
<1>6. CASE r # Null
  <2>1. /\ heap' = InsertChild(heap, n, r) /\ root' = [root EXCEPT ![t] = n]
        /\ leftmost' = [leftmost EXCEPT ![t] = leftmost[t]]
        /\ rightmost' = [rightmost EXCEPT ![t] = rightmost[t]]
    BY <1>6 DEF EmplaceRoot, SetPointers
  <2>2. IsTree(heap, X, r) /\ r \in X /\ r \in Node
    BY <1>6, LiveIs DEF IsTree
  <2>3. leftmost[t] = End(heap, "left", r) /\ rightmost[t] = End(heap, "right", r)
    BY <1>6, ExtremaIs
  <2>4. Y \intersect X = {} /\ n \in Y
    BY <1>2
  <2>5. \A side \in Sides : Changes(heap, side, n, n)
    BY <1>1, SubtreeIn DEF Changes
  <2>6. \A side \in Sides : End(heap', side, n) = End(heap, side, r)
    <3> HIDE DEF X, Y, r
    <3> QED BY <1>1, <1>2, <1>3, <2>1, <2>2, <2>4, <2>5, InsertEnds
  <2>7. /\ root'[t] = n /\ leftmost'[t] = End(heap', "left", n)
        /\ rightmost'[t] = End(heap', "right", n)
    BY <1>1, <2>1, <2>3, <2>6 DEF Sides
  <2>8. \A v \in T : AtEnds(heap', root'[v], leftmost'[v], rightmost'[v])
    BY <2>7, AtEndsIs
  <2>9. \A v \in Tree \ T :
          root'[v] = root[v] /\ leftmost'[v] = leftmost[v] /\ rightmost'[v] = rightmost[v]
    BY <1>1, <2>1
  <2>10. \A m \in Node : store[m] \in Tree \ T => heap'[m] = heap[m]
    <3>1. \A m \in Node \ {n, r} : heap'[m] = heap[m]
      <4>1. n # r
        BY <1>2, <2>2
      <4> HIDE DEF r
      <4>2. \A m \in Node \ {n, r} : InsertChild(heap, n, r)[m] = heap[m]
        BY <1>1, <2>2, <4>1, InsertChildIs
      <4> QED BY <2>1, <4>2
    <3>2. store[r] = t /\ store[n] \notin Tree
      BY <1>1, <2>2, TreeAssumption DEF FreeNodes, Nodes
    <3> QED BY <3>1, <3>2
  <2> HIDE DEF T
  <2> QED BY <1>1, <1>4, <2>8, <2>9, <2>10, StepKeepsExtrema
<1> QED BY <1>5, <1>6

LEMMA AdoptKeepsExtrema ==
    ASSUME IInv, IInv', ExtremaAreExtreme,
           NEW t \in Tree, NEW where \in Node, NEW u \in Tree, Adopt(t, where, u)
    PROVE  ExtremaAreExtreme'
<1> DEFINE X == Nodes(t)
           Y == Nodes(u)
           r == root[t]
           c == root[u]
           g == InsertChild(heap, where, c)
<1>1. /\ heap \in Heap /\ heap' \in Heap /\ live' \subseteq Tree /\ store[where] = t /\ t # Null
      /\ u # t /\ c # Null
      /\ root \in [Tree -> Node \union {Null}]
      /\ leftmost \in [Tree -> Node \union {Null}]
      /\ rightmost \in [Tree -> Node \union {Null}]
  BY DEF IInv, TypeOK, Adopt
<1>2. where \in X /\ r # Null /\ IsTree(heap, X, r)
  BY <1>1, OwnerIs
<1>3. IsTree(heap, Y, c) /\ Y = Subtree(heap, c) /\ c \in Y /\ c \in Node /\ store[c] = u
  BY <1>1, LiveIs DEF IsTree, Nodes
<1>4. X \intersect Y = {} /\ c # where
  BY <1>1, <1>2, <1>3 DEF Nodes
<1>5. g \in Heap /\ \A m \in Node \ {where, c} : g[m] = heap[m]
  BY <1>1, <1>3, <1>4, InsertChildIs
<1>6. heap' = g
  <2>1. heap' = Free(g, {})
    BY <1>3 DEF Adopt
  <2> HIDE DEF g
  <2>2. \A m \in Node : heap'[m] = g[m]
    BY <1>5, <2>1, FreeIs
  <2> QED BY <1>1, <1>5, <2>2 DEF Heap
<1>7. /\ root' = [root EXCEPT ![u] = Null]
      /\ leftmost' = [leftmost EXCEPT ![u] = Null,
           ![t] = IF EmplacingChangesLeftmost(t, where) THEN leftmost[u] ELSE @]
      /\ rightmost' = [rightmost EXCEPT ![u] = Null,
           ![t] = IF EmplacingChangesRightmost(t, where) THEN rightmost[u] ELSE @]
  BY DEF Adopt
<1> HIDE DEF X, Y, r, c
<1>8. \A side \in Sides :
        End(heap', side, r) = IF Changes(heap, side, where, End(heap, side, r))
                              THEN End(heap, side, c) ELSE End(heap, side, r)
  BY <1>1, <1>2, <1>3, <1>4, <1>6, InsertEnds
<1> HIDE DEF g
<1> DEFINE T == {t, u}
<1>9. T \in SUBSET Tree /\ \A v \in T : AtEnds(heap', root'[v], leftmost'[v], rightmost'[v])
  <2>1. /\ leftmost[t] = End(heap, "left", r) /\ rightmost[t] = End(heap, "right", r)
        /\ leftmost[u] = End(heap, "left", c) /\ rightmost[u] = End(heap, "right", c)
    BY <1>1, <1>2, ExtremaIs DEF r, c
  <2>2. /\ EmplacingChangesLeftmost(t, where) <=>
             Changes(heap, "left", where, End(heap, "left", r))
        /\ EmplacingChangesRightmost(t, where) <=>
             Changes(heap, "right", where, End(heap, "right", r))
    BY <1>1, TestsAre DEF r
  <2>3. root'[t] = r /\ root'[u] = Null
    BY <1>1, <1>7 DEF r
  <2>4. /\ leftmost'[t] = IF EmplacingChangesLeftmost(t, where) THEN leftmost[u] ELSE leftmost[t]
        /\ rightmost'[t] = IF EmplacingChangesRightmost(t, where) THEN rightmost[u] ELSE rightmost[t]
    BY <1>1, <1>7
  <2>5. leftmost'[t] = End(heap', "left", r) /\ rightmost'[t] = End(heap', "right", r)
    BY <1>8, <2>1, <2>2, <2>4 DEF Sides
  <2>6. AtEnds(heap', root'[t], leftmost'[t], rightmost'[t])
    BY <2>3, <2>5, AtEndsIs
  <2>7. AtEnds(heap', root'[u], leftmost'[u], rightmost'[u])
    BY <2>3 DEF AtEnds
  <2> QED BY <2>6, <2>7
<1>10. \A v \in Tree \ T :
        root'[v] = root[v] /\ leftmost'[v] = leftmost[v] /\ rightmost'[v] = rightmost[v]
  BY <1>1, <1>7
<1>11. \A m \in Node : store[m] \in Tree \ T => heap'[m] = heap[m]
  BY <1>1, <1>3, <1>5, <1>6
<1> HIDE DEF T
<1> QED BY <1>1, <1>9, <1>10, <1>11, StepKeepsExtrema

(* A removal as it is used without surprises: with what it knows of the    *)
(* new extrema, RemoveEnds applies.                                        *)
LEMMA TameEnds ==
    ASSUME IInv, ExtremaAreExtreme, NEW t \in Tree, NEW s \in Node, store[s] = t, s # root[t],
           TameRemoval(t, s), NEW k \in Heap,
           IsTree(k, Nodes(t) \ Subtree(heap, s), root[t]),
           \A n \in Nodes(t) \ Subtree(heap, s) :
             k[n].children = RemoveChild(heap, heap[s].parent, heap[s].index)[n].children
    PROVE  /\ End(k, "left", root[t]) =
                IF DropsLeftmost(t, s) THEN heap[s].parent ELSE leftmost[t]
           /\ End(k, "right", root[t]) =
                IF DropsRightmost(t, s) THEN heap[s].parent ELSE rightmost[t]
<1> DEFINE X == Nodes(t)
           r == root[t]
           S == Subtree(heap, s)
           p == heap[s].parent
           x(side) == End(heap, side, r)
<1>1. heap \in Heap /\ t # Null /\ r # Null /\ s \in X \ {r} /\ IsTree(heap, X, r)
  <2>1. heap \in Heap /\ t # Null
    BY LiveIs
  <2> QED BY <2>1, OwnerIs
<1>2. leftmost[t] = x("left") /\ rightmost[t] = x("right")
  BY <1>1, ExtremaIs
<1>3. /\ DropsLeftmost(t, s) <=> x("left") \in S
      /\ DropsRightmost(t, s) <=> x("right") \in S
  BY TestsAre
<1>4. DropsLeftmost(t, s) \/ DropsRightmost(t, s) => ChildCount(heap, p) = 1
  BY DEF TameRemoval
<1>5. /\ IsTree(k, X \ S, r)
      /\ \A n \in X \ S : k[n].children = RemoveChild(heap, p, heap[s].index)[n].children
  OBVIOUS
<1> HIDE DEF X, r
<1>6. ASSUME NEW side \in Sides
      PROVE  IF x(side) \notin S THEN End(k, side, r) = x(side)
             ELSE ChildCount(heap, p) = 1 => End(k, side, r) = p
  BY <1>1, <1>5, RemoveEnds
<1>7. "left" \in Sides /\ "right" \in Sides
  BY DEF Sides
<1> HIDE DEF S, p, x
<1> QED BY <1>2, <1>3, <1>4, <1>6, <1>7 DEF r, p

LEMMA EraseKeepsExtrema ==
    ASSUME IInv, IInv', ExtremaAreExtreme, Wild = {},
           NEW t \in Tree, NEW s \in Node, Erase(t, s)
    PROVE  ExtremaAreExtreme'
<1> DEFINE X == Nodes(t)
           r == root[t]
           S == Subtree(heap, s)
           p == heap[s].parent
           g == RemoveChild(heap, p, heap[s].index)
<1>1. /\ heap' \in Heap /\ live' \subseteq Tree /\ store[s] = t /\ s # r /\ TameRemoval(t, s)
      /\ root \in [Tree -> Node \union {Null}]
      /\ leftmost \in [Tree -> Node \union {Null}]
      /\ rightmost \in [Tree -> Node \union {Null}]
  BY DEF IInv, TypeOK, Erase
<1>2. /\ r # Null /\ X \subseteq Node /\ S \subseteq X /\ g \in Heap
      /\ \A n \in Node \ X : g[n] = heap[n]
      /\ IsTree(g, X \ S, r)
  <2>1. store[s] = t /\ s # root[t]
    BY <1>1
  <2> HIDE DEF X, S, r
  <2> QED BY <2>1, RemovalIs DEF X, S, r
<1>3. /\ heap' = Free(g, S)
      /\ root' = [root EXCEPT ![t] = root[t]]
      /\ leftmost' = [leftmost EXCEPT ![t] = IF DropsLeftmost(t, s) THEN p ELSE leftmost[t]]
      /\ rightmost' = [rightmost EXCEPT ![t] = IF DropsRightmost(t, s) THEN p ELSE rightmost[t]]
  BY DEF Erase, SetExtrema, SetPointers
<1> HIDE DEF g
<1>4. \A n \in Node \ S : heap'[n] = g[n]
  <2> HIDE DEF S
  <2> QED BY <1>2, <1>3, FreeIs
<1>5. IsTree(heap', X \ S, r)
  <2> DEFINE Z == X \ S
  <2>1. IsTree(g, Z, r) /\ \A n \in Z : heap'[n] = g[n]
    BY <1>2, <1>4
  <2> HIDE DEF Z
  <2>2. IsTree(heap', Z, r)
    BY <1>1, <1>2, <2>1, TreeFrame
  <2> QED BY <2>2 DEF Z
<1>6. /\ End(heap', "left", r) = IF DropsLeftmost(t, s) THEN p ELSE leftmost[t]
      /\ End(heap', "right", r) = IF DropsRightmost(t, s) THEN p ELSE rightmost[t]
  <2>1. \A n \in X \ S : heap'[n].children = g[n].children
    BY <1>2, <1>4
  <2> QED BY <1>1, <1>5, <2>1, TameEnds DEF g
<1> HIDE DEF X, S, p
<1> DEFINE T == {t}
<1>7. T \in SUBSET Tree /\ \A v \in T : AtEnds(heap', root'[v], leftmost'[v], rightmost'[v])
  <2>1. /\ root'[t] = r /\ leftmost'[t] = End(heap', "left", r)
        /\ rightmost'[t] = End(heap', "right", r)
    BY <1>1, <1>3, <1>6
  <2> QED BY <2>1, AtEndsIs
<1>8. \A v \in Tree \ T :
        root'[v] = root[v] /\ leftmost'[v] = leftmost[v] /\ rightmost'[v] = rightmost[v]
  BY <1>1, <1>3
<1>9. \A n \in Node : store[n] \in Tree \ T => heap'[n] = heap[n]
  <2>1. \A n \in Node \ X : heap'[n] = heap[n]
    BY <1>2, <1>4
  <2> QED BY <2>1 DEF X, Nodes
<1> HIDE DEF T
<1> QED BY <1>1, <1>7, <1>8, <1>9, StepKeepsExtrema

LEMMA MergeKeepsExtrema ==
    ASSUME IInv, IInv', ExtremaAreExtreme, NEW t \in Tree, NEW n \in Node, Merge(t, n)
    PROVE  ExtremaAreExtreme'
<1> DEFINE X == Nodes(t)
           r == root[t]
           p == heap[n].parent
           g == MergeChild(heap, p, heap[n].index)
<1>1. /\ heap \in Heap /\ heap' \in Heap /\ live' \subseteq Tree /\ store[n] = t /\ t # Null
      /\ p # Null
      /\ root \in [Tree -> Node \union {Null}]
      /\ leftmost \in [Tree -> Node \union {Null}]
      /\ rightmost \in [Tree -> Node \union {Null}]
  BY DEF IInv, TypeOK, Merge
<1>2. r # Null /\ X \subseteq Node /\ n \in X /\ IsTree(heap, X, r)
  <2>1. r # Null /\ n \in X /\ IsTree(heap, X, r)
    BY <1>1, OwnerIs
  <2> QED BY <2>1 DEF Nodes
<1>3. n \in X \ {r}
  BY <1>1, <1>2 DEF IsTree
<1>4. /\ heap' = Free(g, {n})
      /\ root' = [root EXCEPT ![t] = root[t]]
      /\ leftmost' = [leftmost EXCEPT ![t] =
           IF leftmost[t] = n THEN LeftmostChildOrThis(g, p) ELSE leftmost[t]]
      /\ rightmost' = [rightmost EXCEPT ![t] =
           IF rightmost[t] = n THEN RightmostChildOrThis(g, p) ELSE rightmost[t]]
  BY DEF Merge, SetExtrema, SetPointers
<1> HIDE DEF X, r
<1>5. g \in Heap /\ \A m \in Node \ X : g[m] = heap[m]
  <2>1. g \in Heap
    BY <1>1, <1>2, <1>3, MergeKeepsTrees
  <2>2. SameOutside(g, heap, X)
    BY <1>1, <1>2, <1>3, MergeKeepsTrees
  <2> QED BY <2>1, <2>2 DEF SameOutside
<1>6. \A side \in Sides :
        End(heap', side, r) = IF End(heap, side, r) = n THEN End(g, side, p)
                              ELSE End(heap, side, r)
  BY <1>1, <1>2, <1>3, <1>4, MergeEnds, SMTT(60)
<1> HIDE DEF g, p
<1>7. \A m \in Node \ {n} : heap'[m] = g[m]
  BY <1>4, <1>5, FreeIs
<1> DEFINE T == {t}
<1>8. T \in SUBSET Tree /\ \A v \in T : AtEnds(heap', root'[v], leftmost'[v], rightmost'[v])
  <2>1. leftmost[t] = End(heap, "left", r) /\ rightmost[t] = End(heap, "right", r)
    BY <1>2, ExtremaIs DEF r
  <2>2. /\ LeftmostChildOrThis(g, p) = End(g, "left", p)
        /\ RightmostChildOrThis(g, p) = End(g, "right", p)
    BY DEF End
  <2>3. "left" \in Sides /\ "right" \in Sides
    BY DEF Sides
  <2>4. leftmost'[t] = End(heap', "left", r) /\ rightmost'[t] = End(heap', "right", r)
    BY <1>1, <1>4, <1>6, <2>1, <2>2, <2>3
  <2>5. root'[t] = r
    BY <1>1, <1>4 DEF r
  <2> QED BY <2>4, <2>5, AtEndsIs
<1>9. \A v \in Tree \ T :
        root'[v] = root[v] /\ leftmost'[v] = leftmost[v] /\ rightmost'[v] = rightmost[v]
  BY <1>1, <1>4
<1>10. \A m \in Node : store[m] \in Tree \ T => heap'[m] = heap[m]
  <2>1. \A m \in Node \ X : heap'[m] = heap[m]
    BY <1>2, <1>5, <1>7
  <2> QED BY <2>1 DEF X, Nodes
<1> HIDE DEF T
<1> QED BY <1>1, <1>8, <1>9, <1>10, StepKeepsExtrema

(* The chopped subtree keeps its ends; what is left loses the ones that    *)
(* were in it.                                                             *)
LEMMA ChopKeepsExtrema ==
    ASSUME IInv, IInv', ExtremaAreExtreme, Wild = {},
           NEW t \in Tree, NEW s \in Node, NEW u \in Tree, Chop(t, s, u)
    PROVE  ExtremaAreExtreme'
<1> DEFINE X == Nodes(t)
           r == root[t]
           S == Subtree(heap, s)
           p == heap[s].parent
           g == RemoveChild(heap, p, heap[s].index)
<1>1. /\ heap \in Heap /\ heap' \in Heap /\ live' \subseteq Tree
      /\ store[s] = t /\ s # r /\ u \notin live /\ TameRemoval(t, s)
      /\ root \in [Tree -> Node \union {Null}]
      /\ leftmost \in [Tree -> Node \union {Null}]
      /\ rightmost \in [Tree -> Node \union {Null}]
  BY DEF IInv, TypeOK, Chop
<1>2. /\ t \in live /\ r # Null /\ X \subseteq Node /\ s \in S /\ S \subseteq X
      /\ IsTree(heap, X, r) /\ g \in Heap
      /\ \A n \in Node \ X : g[n] = heap[n]
      /\ IsTree(g, X \ S, r)
  <2>1. store[s] = t /\ s # root[t]
    BY <1>1
  <2> HIDE DEF X, S, r
  <2>2. /\ t \in live /\ r # Null /\ X \subseteq Node /\ s \in S /\ S \subseteq X
        /\ IsTree(heap, X, r)
    BY <2>1, RemovalIs DEF X, S, r
  <2>3. g \in Heap
    BY <2>1, RemovalIs DEF X
  <2>4. \A n \in Node \ X : g[n] = heap[n]
    <3>1. s \in X \ {r}
      BY <1>1 DEF X, Nodes
    <3>2. SameOutside(g, heap, X)
      BY <1>1, <2>2, <3>1, DetachKeepsTrees
    <3> QED BY <3>2 DEF SameOutside
  <2>5. IsTree(g, X \ S, r)
    BY <2>1, RemovalIs DEF X, S, r
  <2> QED BY <2>2, <2>3, <2>4, <2>5
<1>3. /\ heap' = ClearParentMetadata(g, s)
      /\ root' = [root EXCEPT ![u] = s]
      /\ leftmost' = IF DropsLeftmost(t, s)
            THEN [leftmost EXCEPT ![t] = p, ![u] = leftmost[t]]
            ELSE [leftmost EXCEPT ![u] = LeftmostChildOrThis(heap, s)]
      /\ rightmost' = IF DropsRightmost(t, s)
            THEN [rightmost EXCEPT ![t] = p, ![u] = rightmost[t]]
            ELSE [rightmost EXCEPT ![u] = RightmostChildOrThis(heap, s)]
  BY DEF Chop
<1> HIDE DEF g
<1>4. heap'[s].children = g[s].children /\ \A n \in Node \ {s} : heap'[n] = g[n]
  BY <1>2, <1>3, ClearMetadataIs
<1>5. IsTree(heap', X \ S, r)
  <2> DEFINE Z == X \ S
  <2>1. IsTree(g, Z, r) /\ \A n \in Z : heap'[n] = g[n]
    BY <1>2, <1>4
  <2> HIDE DEF Z
  <2>2. IsTree(heap', Z, r)
    BY <1>1, <1>2, <2>1, TreeFrame
  <2> QED BY <2>2 DEF Z
<1>6. /\ End(heap', "left", r) = IF DropsLeftmost(t, s) THEN p ELSE leftmost[t]
      /\ End(heap', "right", r) = IF DropsRightmost(t, s) THEN p ELSE rightmost[t]
  <2>1. \A n \in X \ S : heap'[n].children = g[n].children
    BY <1>2, <1>4
  <2> QED BY <1>1, <1>5, <2>1, TameEnds DEF g
<1> DEFINE x(side) == End(heap, side, r)
<1>7. leftmost[t] = x("left") /\ rightmost[t] = x("right")
  BY <1>2, ExtremaIs
<1>8. /\ DropsLeftmost(t, s) <=> x("left") \in S
      /\ DropsRightmost(t, s) <=> x("right") \in S
  BY <1>1, TestsAre
<1> HIDE DEF X, r
<1>9. /\ \A side \in Sides : End(heap', side, s) = End(heap, side, s)
      /\ \A side \in Sides : x(side) \in S => x(side) = End(heap, side, s)
  <2>1. S \subseteq Node /\ s \in X /\ \A n \in S : Children(heap, n) \subseteq S
    BY <1>1, <1>2, SubtreeParents
  <2>2. \A n \in S : heap'[n].children = heap[n].children
    <3>1. s \in X \ {r}
      BY <1>1, <2>1
    <3>2. p \in X \ S
      BY <1>1, <1>2, <3>1, ParentIsOutside
    <3>3. \A n \in S : g[n].children = heap[n].children
      <4> SUFFICES ASSUME NEW n \in S PROVE g[n].children = heap[n].children
        OBVIOUS
      <4>1. n # p /\ n \in X /\ "left" \in Sides
        BY <1>2, <3>2 DEF Sides
      <4> HIDE DEF S, p
      <4> QED BY <1>1, <1>2, <3>1, <4>1, RemovePick DEF g, p
    <3> QED BY <1>4, <2>1, <3>3
  <2>3. \A side \in Sides : x(side) \in S => x(side) = End(heap, side, s)
    BY <1>1, <1>2, <2>1, EndAbove
  <2> HIDE DEF S
  <2> QED BY <1>1, <1>2, <2>1, <2>2, <2>3, EndFrameBelow
<1>10. "left" \in Sides /\ "right" \in Sides /\ t # u
  BY <1>1, <1>2 DEF Sides
<1> HIDE DEF S, p, x
<1>11. /\ LeftmostChildOrThis(heap, s) = End(heap, "left", s)
       /\ RightmostChildOrThis(heap, s) = End(heap, "right", s)
  BY DEF End
<1>12. /\ leftmost'[t] = End(heap', "left", r) /\ leftmost'[u] = End(heap', "left", s)
       /\ \A v \in Tree \ {t, u} : leftmost'[v] = leftmost[v]
  <2>1. CASE DropsLeftmost(t, s)
    <3>1. leftmost[t] = End(heap', "left", s)
      BY <1>7, <1>8, <1>9, <1>10, <2>1
    <3> QED BY <1>1, <1>3, <1>6, <1>10, <2>1, <3>1
  <2>2. CASE ~DropsLeftmost(t, s)
    <3>1. LeftmostChildOrThis(heap, s) = End(heap', "left", s)
      BY <1>9, <1>10, <1>11
    <3> QED BY <1>1, <1>3, <1>6, <1>10, <2>2, <3>1
  <2> QED BY <2>1, <2>2
<1>13. /\ rightmost'[t] = End(heap', "right", r) /\ rightmost'[u] = End(heap', "right", s)
       /\ \A v \in Tree \ {t, u} : rightmost'[v] = rightmost[v]
  <2>1. CASE DropsRightmost(t, s)
    <3>1. rightmost[t] = End(heap', "right", s)
      BY <1>7, <1>8, <1>9, <1>10, <2>1
    <3> QED BY <1>1, <1>3, <1>6, <1>10, <2>1, <3>1
  <2>2. CASE ~DropsRightmost(t, s)
    <3>1. RightmostChildOrThis(heap, s) = End(heap', "right", s)
      BY <1>9, <1>10, <1>11
    <3> QED BY <1>1, <1>3, <1>6, <1>10, <2>2, <3>1
  <2> QED BY <2>1, <2>2
<1> DEFINE T == {t, u}
<1>14. T \in SUBSET Tree /\ \A v \in T : AtEnds(heap', root'[v], leftmost'[v], rightmost'[v])
  <2>1. root'[t] = r /\ root'[u] = s
    BY <1>1, <1>3, <1>10 DEF r
  <2>2. AtEnds(heap', root'[t], leftmost'[t], rightmost'[t])
    BY <1>12, <1>13, <2>1, AtEndsIs
  <2>3. AtEnds(heap', root'[u], leftmost'[u], rightmost'[u])
    BY <1>12, <1>13, <2>1, AtEndsIs
  <2> QED BY <2>2, <2>3
<1>15. \A v \in Tree \ T :
        root'[v] = root[v] /\ leftmost'[v] = leftmost[v] /\ rightmost'[v] = rightmost[v]
  BY <1>1, <1>3, <1>12, <1>13
<1>16. \A n \in Node : store[n] \in Tree \ T => heap'[n] = heap[n]
  <2>1. \A n \in Node \ X : heap'[n] = heap[n]
    BY <1>2, <1>4
  <2> QED BY <2>1 DEF X, Nodes
<1> HIDE DEF T
<1> QED BY <1>1, <1>14, <1>15, <1>16, StepKeepsExtrema

LEMMA MoveKeepsExtrema ==
    ASSUME IInv, IInv', ExtremaAreExtreme, "move" \notin Wild,
           NEW t \in Tree, NEW where \in Node, NEW s \in Node, Move(t, where, s)
    PROVE  ExtremaAreExtreme'
<1> DEFINE X == Nodes(t)
           r == root[t]
           S == Subtree(heap, s)
           p == heap[s].parent
           g == RemoveChild(heap, p, heap[s].index)
           dropL == DropsLeftmost(t, s)
           dropR == DropsRightmost(t, s)
           updateL == EmplacingChangesLeftmost(t, where)
           updateR == EmplacingChangesRightmost(t, where)
           lm == CASE ~dropL /\ updateL -> LeftmostChildOrThis(heap', where)
                   [] dropL /\ ~updateL -> LeftmostChildOrThis(heap', p)
                   [] OTHER             -> leftmost[t]
           rm == CASE ~dropR /\ updateR -> RightmostChildOrThis(heap', where)
                   [] dropR /\ ~updateR -> RightmostChildOrThis(heap', p)
                   [] OTHER             -> rightmost[t]
           x(side) == End(heap, side, r)
           drop(side) == x(side) \in S
           update(side) == Changes(heap, side, where, x(side))
<1>1. /\ heap \in Heap /\ heap' \in Heap /\ live' \subseteq Tree
      /\ store[s] = t /\ store[where] = t /\ s # r
      /\ where # s /\ ~HasParent(heap, where, s)
      /\ root \in [Tree -> Node \union {Null}]
      /\ leftmost \in [Tree -> Node \union {Null}]
      /\ rightmost \in [Tree -> Node \union {Null}]
  BY DEF IInv, TypeOK, Move
<1>2. /\ heap' = InsertChild(g, where, s) /\ store' = store
      /\ root' = [root EXCEPT ![t] = root[t]]
      /\ leftmost' = [leftmost EXCEPT ![t] = lm]
      /\ rightmost' = [rightmost EXCEPT ![t] = rm]
  BY DEF Move, SetExtrema, SetPointers
<1>3. /\ t # Null /\ r # Null /\ X \subseteq Node /\ s \in X \ {r}
      /\ IsTree(heap, X, r) /\ g \in Heap
      /\ \A n \in Node \ X : g[n] = heap[n]
      /\ \A n \in X : InSubtree(n, s) <=> n \in S
  <2>1. store[s] = t /\ s # root[t]
    BY <1>1
  <2>2. s \in X
    BY <1>1 DEF Nodes
  <2>3. t # Null /\ r # Null /\ X \subseteq Node /\ IsTree(heap, X, r)
    BY <1>1, <2>1, RemovalIs
  <2>4. \A n \in X : InSubtree(n, s) <=> n \in S
    BY <2>1, RemovalIs
  <2> HIDE DEF X, S, r
  <2>5. g \in Heap /\ SameOutside(g, heap, X)
    <3>1. s \in X \ {r}
      BY <1>1, <2>2
    <3> QED BY <1>1, <2>3, <3>1, DetachKeepsTrees
  <2> QED BY <1>1, <2>2, <2>3, <2>4, <2>5 DEF SameOutside
<1>4. where \in X \ S
  <2>1. where \in X /\ ~InSubtree(where, s)
    BY <1>1 DEF Nodes, InSubtree
  <2> QED BY <1>3, <2>1
<1>5. IsTree(heap', X, r)
  <2>1. root'[t] = r /\ Nodes(t)' = X
    BY <1>1, <1>2 DEF Nodes
  <2>2. Owned(heap', Nodes(t)', root'[t], leftmost'[t], rightmost'[t])
    BY DEF IInv, Owns
  <2> HIDE DEF X, r
  <2> QED BY <1>3, <2>1, <2>2 DEF Owned
<1>6. x("left") = leftmost[t] /\ x("right") = rightmost[t]
  BY <1>3, ExtremaIs
<1>7. /\ dropL <=> drop("left")
      /\ dropR <=> drop("right")
      /\ updateL <=> update("left")
      /\ updateR <=> update("right")
  BY <1>1, TestsAre
<1> HIDE DEF X, r, lm, rm, dropL, dropR, updateL, updateR
<1>8. ASSUME NEW side \in Sides
      PROVE  /\ ~drop(side) /\ update(side) => End(heap', side, r) = End(heap', side, where)
             /\ drop(side) /\ ~update(side) => End(heap', side, r) = End(heap', side, p)
             /\ (drop(side) <=> update(side)) => End(heap', side, r) = x(side)
  <2>1. End(heap', side, r) = CASE ~drop(side) /\ update(side) -> End(heap', side, where)
                                [] drop(side) /\ ~update(side) -> End(heap', side, p)
                                [] OTHER -> x(side)
    BY <1>1, <1>2, <1>3, <1>4, <1>5, MoveEnds
  <2> HIDE DEF drop, update, x, p
  <2> QED BY <2>1
<1>9. "left" \in Sides /\ "right" \in Sides
  BY DEF Sides
<1> HIDE DEF drop, update, x, p, g, S
<1>10. lm = End(heap', "left", r)
  <2>1. /\ LeftmostChildOrThis(heap', where) = End(heap', "left", where)
        /\ LeftmostChildOrThis(heap', p) = End(heap', "left", p)
    BY DEF End
  <2>2. CASE ~dropL /\ updateL
    BY <1>7, <1>8, <1>9, <2>1, <2>2 DEF lm
  <2>3. CASE dropL /\ ~updateL
    BY <1>7, <1>8, <1>9, <2>1, <2>3 DEF lm
  <2>4. CASE dropL <=> updateL
    BY <1>6, <1>7, <1>8, <1>9, <2>4 DEF lm
  <2> QED BY <2>2, <2>3, <2>4
<1>11. rm = End(heap', "right", r)
  <2>1. /\ RightmostChildOrThis(heap', where) = End(heap', "right", where)
        /\ RightmostChildOrThis(heap', p) = End(heap', "right", p)
    BY DEF End
  <2>2. CASE ~dropR /\ updateR
    BY <1>7, <1>8, <1>9, <2>1, <2>2 DEF rm
  <2>3. CASE dropR /\ ~updateR
    BY <1>7, <1>8, <1>9, <2>1, <2>3 DEF rm
  <2>4. CASE dropR <=> updateR
    BY <1>6, <1>7, <1>8, <1>9, <2>4 DEF rm
  <2> QED BY <2>2, <2>3, <2>4
<1> DEFINE T == {t}
<1>12. T \in SUBSET Tree /\ \A v \in T : AtEnds(heap', root'[v], leftmost'[v], rightmost'[v])
  <2>1. /\ root'[t] = r /\ leftmost'[t] = End(heap', "left", r)
        /\ rightmost'[t] = End(heap', "right", r)
    BY <1>1, <1>2, <1>10, <1>11 DEF r
  <2> QED BY <2>1, AtEndsIs
<1>13. \A v \in Tree \ T :
        root'[v] = root[v] /\ leftmost'[v] = leftmost[v] /\ rightmost'[v] = rightmost[v]
  BY <1>1, <1>2
<1>14. \A n \in Node : store[n] \in Tree \ T => heap'[n] = heap[n]
  <2>1. \A n \in Node \ {where, s} : heap'[n] = g[n]
    <3>1. \A n \in Node \ {where, s} : InsertChild(g, where, s)[n] = g[n]
      BY <1>1, <1>3, InsertChildIs
    <3> QED BY <1>2, <3>1
  <2>2. \A n \in Node \ X : heap'[n] = heap[n]
    BY <1>3, <1>4, <2>1
  <2> QED BY <2>2 DEF X, Nodes
<1> HIDE DEF T
<1> QED BY <1>1, <1>12, <1>13, <1>14, StepKeepsExtrema

LEMMA ConstructKeepsExtrema ==
    ASSUME IInv, IInv', ExtremaAreExtreme, UNCHANGED heap, UNCHANGED pointers
    PROVE  ExtremaAreExtreme'
<1>1. /\ heap' = heap /\ heap' \in Heap /\ live' \subseteq Tree
      /\ root' = root /\ leftmost' = leftmost /\ rightmost' = rightmost
  BY DEF IInv, TypeOK, pointers
<1> DEFINE T == {}
<1>2. T \in SUBSET Tree /\ \A t \in T : AtEnds(heap', root'[t], leftmost'[t], rightmost'[t])
  OBVIOUS
<1> HIDE DEF T
<1> QED BY <1>1, <1>2, StepKeepsExtrema

LEMMA InitExtrema == Init => ExtremaAreExtreme
BY DEF Init, ExtremaAreExtreme, LeftmostIsLeftmost, RightmostIsRightmost

LEMMA OrderKeptKeepsExtrema ==
    ASSUME IInv, IInv', ExtremaAreExtreme, Wild = {}, OrderKept PROVE ExtremaAreExtreme'
<1> SUFFICES ASSUME NEW t \in Tree,
                    \/ Construct(t) \/ Clear(t) \/ Destroy(t)
                    \/ \E u \in Tree : \/ MoveConstruct(t, u) \/ MoveAssign(t, u)
                                       \/ Swap(t, u) \/ ChopRoot(t, u)
                    \/ \E n \in Node : \/ CopyConstruct(t, n) \/ EmplaceRoot(t, n)
                                       \/ Erase(t, n) \/ Merge(t, n)
                    \/ \E n, m \in Node : Emplace(t, n, m)
                    \/ \E n \in Node, u \in Tree : Chop(t, n, u) \/ Adopt(t, n, u)
             PROVE  ExtremaAreExtreme'
  BY DEF OrderKept
<1>1. CASE Construct(t)
  BY <1>1, ConstructKeepsExtrema DEF Construct
<1>2. CASE Clear(t)
  BY <1>2, EmptyKeepsExtrema DEF Clear
<1>3. CASE Destroy(t)
  BY <1>3, EmptyKeepsExtrema DEF Destroy
<1>4. ASSUME NEW u \in Tree, NEW w \in Tree, MoveConstruct(u, w) PROVE ExtremaAreExtreme'
  <2>1. u # w /\ Steal(u, w)
    BY <1>4 DEF MoveConstruct
  <2> QED BY <2>1, StealKeepsExtrema
<1>5. ASSUME NEW u \in Tree, MoveAssign(t, u) PROVE ExtremaAreExtreme'
  <2>1. t # u /\ Steal(t, u)
    BY <1>5 DEF MoveAssign
  <2> QED BY <2>1, StealKeepsExtrema
<1>6. ASSUME NEW u \in Tree, ChopRoot(t, u) PROVE ExtremaAreExtreme'
  BY <1>4, <1>6 DEF ChopRoot
<1>7. ASSUME NEW n \in Node, CopyConstruct(t, n) PROVE ExtremaAreExtreme'
  <2>1. store[n] # Null /\ CopyContents(t, n)
    BY <1>7 DEF CopyConstruct
  <2> QED BY <2>1, CopyKeepsExtrema
<1> QED BY <1>1, <1>2, <1>3, <1>4, <1>5, <1>6, <1>7, SwapKeepsExtrema, EmplaceRootKeepsExtrema,
           EraseKeepsExtrema, MergeKeepsExtrema, EmplaceKeepsExtrema, ChopKeepsExtrema,
           AdoptKeepsExtrema

LEMMA NextKeepsExtrema ==
    ASSUME IInv, IInv', ExtremaAreExtreme, Wild = {}, [Next]_vars PROVE ExtremaAreExtreme'
<1>1. CASE OrderKept
  BY <1>1, OrderKeptKeepsExtrema
<1>2. ASSUME NEW t \in Tree, NEW u \in Tree, CopyAssign(t, u) PROVE ExtremaAreExtreme'
  <2>1. u \in live /\ root[u] # Null /\ CopyContents(t, root[u])
    BY <1>2 DEF CopyAssign
  <2>2. root[u] \in Nodes(u) /\ u # Null
    BY <2>1, LiveIs DEF IsTree
  <2>3. root[u] \in Node /\ store[root[u]] # Null
    BY <2>2 DEF Nodes
  <2> QED BY <2>1, <2>3, CopyKeepsExtrema
<1>3. ASSUME NEW t \in Tree, NEW n \in Node, NEW m \in Node, Move(t, n, m)
      PROVE  ExtremaAreExtreme'
  BY <1>3, MoveKeepsExtrema
<1>4. CASE UNCHANGED vars
  <2>1. UNCHANGED heap /\ UNCHANGED pointers
    BY <1>4 DEF vars, pointers
  <2> QED BY <2>1, ConstructKeepsExtrema
<1> QED BY <1>1, <1>2, <1>3, <1>4 DEF Next

(* _leftmost and _rightmost are what their comments say (unsafe_tree.hpp:  *)
(* 142, 145), the leftmost and the rightmost node of the tree, though no   *)
(* operation but a copy searches for them, as long as no removal drops one *)
(* of them from a parent that keeps other children.                        *)
THEOREM ExtremaStayExtreme == ASSUME Wild = {} PROVE Spec => []ExtremaAreExtreme
<1>1. IInv /\ [Next]_vars => IInv'
  BY NextKeeps
<1>2. IInv /\ IInv' /\ ExtremaAreExtreme /\ [Next]_vars => ExtremaAreExtreme'
  BY NextKeepsExtrema
<1> QED BY <1>1, <1>2, InitIInv, InitExtrema, PTL DEF Spec

-----------------------------------------------------------------------------
(* The list of the nodes of a tree in the order of a traversal.            *)

WalkStep(o, m, s) == IF o = "pre" THEN <<m>> \o s ELSE s \o <<m>>

WalkWrap(o) == [at \in Node \X (0..NodeCount) |-> [s \in Seq(Node) |-> WalkStep(o, at[1], s)]]

WalkRow(h, o, d) == Rows(h, Node, WalkWrap(o))[d]

LEMMA WalkStepIs ==
    ASSUME NEW o \in Order, NEW m \in Node, NEW s \in Seq(Node)
    PROVE  WalkStep(o, m, s) \in Seq(Node)
<1>1. <<m>> \in Seq(Node)
  OBVIOUS
<1> QED BY <1>1, ConcatProperties DEF WalkStep

LEMMA WalkWrapIs ==
    ASSUME NEW o \in Order
    PROVE  /\ WalkWrap(o) \in Wraps(Node)
           /\ \A m \in Node, d \in 0..NodeCount, s \in Seq(Node) :
                WalkWrap(o)[<<m, d>>][s] = WalkStep(o, m, s)
<1> DEFINE Body(at) == [s \in Seq(Node) |-> WalkStep(o, at[1], s)]
<1>1. ASSUME NEW at \in Node \X (0..NodeCount) PROVE Body(at) \in [Seq(Node) -> Seq(Node)]
  <2>1. at[1] \in Node
    OBVIOUS
  <2> QED BY <2>1, WalkStepIs
<1>2. WalkWrap(o) = [at \in Node \X (0..NodeCount) |-> Body(at)]
  BY DEF WalkWrap
<1>3. WalkWrap(o) \in Wraps(Node)
  <2> HIDE DEF Body
  <2> QED BY <1>1, <1>2 DEF Wraps
<1>4. ASSUME NEW m \in Node, NEW d \in 0..NodeCount, NEW s \in Seq(Node)
      PROVE  WalkWrap(o)[<<m, d>>][s] = WalkStep(o, m, s)
  <2>1. WalkWrap(o)[<<m, d>>] = Body(<<m, d>>)
    <3> HIDE DEF Body
    <3> QED BY <1>2
  <2> QED BY <2>1
<1> QED BY <1>3, <1>4

LEMMA WalkRowIs ==
    ASSUME NEW h \in Heap, NEW o \in Order, NEW d \in 0..NodeCount
    PROVE  /\ WalkRow(h, o, d) \in [Node -> Seq(Node)]
           /\ d = NodeCount => \A m \in Node : WalkRow(h, o, d)[m] = <<>>
           /\ d # NodeCount => \A m \in Node :
                /\ Flat(WalkRow(h, o, d + 1), h[m].children) \in Seq(Node)
                /\ WalkRow(h, o, d)[m] = WalkStep(o, m, Flat(WalkRow(h, o, d + 1), h[m].children))
<1>1. WalkRow(h, o, d) \in [Node -> Seq(Node)] /\ (d = NodeCount => \A m \in Node : WalkRow(h, o, d)[m] = <<>>)
  BY WalkWrapIs, RowIs DEF WalkRow
<1>2. ASSUME d # NodeCount, NEW m \in Node
      PROVE  /\ Flat(WalkRow(h, o, d + 1), h[m].children) \in Seq(Node)
             /\ WalkRow(h, o, d)[m] = WalkStep(o, m, Flat(WalkRow(h, o, d + 1), h[m].children))
  <2>1. d + 1 \in 0..NodeCount
    BY <1>2, NodeCountType
  <2>2. WalkRow(h, o, d + 1) \in [Node -> Seq(Node)]
    BY <2>1, WalkWrapIs, RowIs DEF WalkRow
  <2>3. h[m].children \in Seq(Node)
    BY HeapFields
  <2>4. Flat(WalkRow(h, o, d + 1), h[m].children) \in Seq(Node)
    BY <2>2, <2>3, FlatType
  <2>5. WalkRow(h, o, d)[m] = WalkWrap(o)[<<m, d>>][Flat(WalkRow(h, o, d + 1), h[m].children)]
    BY <1>2, WalkWrapIs, RowIs DEF WalkRow
  <2> QED BY <2>4, <2>5, WalkWrapIs
<1> QED BY <1>1, <1>2

(* Listed, a recursive function, by its equations.                         *)
LEMMA ListedIs ==
    ASSUME heap \in Heap, NEW o \in Order, NEW n \in Node
    PROVE  Listed(n, o) = WalkRow(heap, o, 0)[n]
<1> DEFINE N == NodeCount
           D == Node \X (0..N)
           Kids(b, m, d) == FlattenSeq([i \in DOMAIN heap[m].children |->
                                            b[<<heap[m].children[i], d + 1>>]])
           Val(b, m, d) == IF d = N THEN <<>>
                           ELSE IF o = "pre" THEN <<m>> \o Kids(b, m, d)
                                ELSE Kids(b, m, d) \o <<m>>
           Body(b) == [at \in D |-> Val(b, at[1], at[2])]
           Q == [at \in D |-> WalkRow(heap, o, at[2])[at[1]]]
           below == CHOOSE b : b = Body(b)
<1>1. N \in Nat /\ 0 \in 0..N
  BY NodeCountType
<1>2. ASSUME NEW b, NEW d \in 0..(N - 1), NEW m \in Node,
             \A c \in Node : b[<<c, d + 1>>] = WalkRow(heap, o, d + 1)[c]
      PROVE  Val(b, m, d) = WalkRow(heap, o, d)[m]
  <2>1. d \in 0..N /\ d # N
    BY <1>1
  <2>2. \A i \in DOMAIN heap[m].children : heap[m].children[i] \in Node
    BY HeapFields
  <2>3. [i \in DOMAIN heap[m].children |-> b[<<heap[m].children[i], d + 1>>]]
          = Mapped(WalkRow(heap, o, d + 1), heap[m].children)
    BY <1>2, <2>2 DEF Mapped
  <2>4. Kids(b, m, d) = Flat(WalkRow(heap, o, d + 1), heap[m].children)
    BY <2>3 DEF Flat
  <2>5. WalkRow(heap, o, d)[m] = WalkStep(o, m, Flat(WalkRow(heap, o, d + 1), heap[m].children))
    BY <2>1, WalkRowIs
  <2> HIDE DEF Kids
  <2>6. Val(b, m, d) = WalkStep(o, m, Kids(b, m, d))
    BY <2>1 DEF WalkStep
  <2> QED BY <2>4, <2>5, <2>6
<1>3. ASSUME NEW b, NEW m \in Node PROVE Val(b, m, N) = WalkRow(heap, o, N)[m]
  <2>1. N \in 0..N
    BY <1>1
  <2> QED BY <2>1, WalkRowIs
<1>4. Q = Body(Q)
  <2>1. ASSUME NEW at \in D PROVE WalkRow(heap, o, at[2])[at[1]] = Val(Q, at[1], at[2])
    <3>1. at[1] \in Node /\ at[2] \in 0..N
      OBVIOUS
    <3>2. CASE at[2] = N
      <4> HIDE DEF Val, Q
      <4> QED BY <3>1, <3>2, <1>3
    <3>3. CASE at[2] # N
      <4>1. at[2] \in 0..(N - 1) /\ at[2] + 1 \in 0..N
        BY <1>1, <3>1, <3>3
      <4>2. \A c \in Node : <<c, at[2] + 1>> \in D
        BY <4>1
      <4>3. \A c \in Node : Q[<<c, at[2] + 1>>] = WalkRow(heap, o, at[2] + 1)[c]
        <5> HIDE DEF D
        <5> QED BY <4>2
      <4> HIDE DEF Val, Q, D
      <4> QED BY <3>1, <4>1, <4>3, <1>2
    <3> QED BY <3>2, <3>3
  <2> HIDE DEF Val, D
  <2> QED BY <2>1
<1>5. below = Body(below)
  <2> HIDE DEF Body, Q
  <2> QED BY <1>4
<1>6. Listed(n, o) = below[<<n, 0>>]
  BY DEF Listed, NodeCount
<1> HIDE DEF below
<1>7. ASSUME NEW m \in Node, NEW d \in 0..N PROVE below[<<m, d>>] = Val(below, m, d)
  <2>1. <<m, d>> \in D
    OBVIOUS
  <2> HIDE DEF Val, D
  <2> QED BY <2>1, <1>5
<1> DEFINE R == Rows(heap, Node, WalkWrap(o))
<1>8. AreLists(R, heap, Node, WalkWrap(o))
  BY WalkWrapIs, RowsAre
<1>9. \A m \in Node, d \in 0..N : below[<<m, d>>] = R[d][m]
  <2>1. ASSUME NEW m \in Node PROVE below[<<m, N>>] = <<>>
    <3>1. N \in 0..N
      BY <1>1
    <3>2. below[<<m, N>>] = Val(below, m, N)
      <4> HIDE DEF Val
      <4> QED BY <3>1, <1>7
    <3> QED BY <3>2
  <2>2. ASSUME NEW m \in Node, NEW d \in 0..(N - 1),
               \A c \in Node : below[<<c, d + 1>>] = R[d + 1][c]
        PROVE  below[<<m, d>>] = WalkWrap(o)[<<m, d>>][Flat(R[d + 1], heap[m].children)]
    <3>1. \A c \in Node : below[<<c, d + 1>>] = WalkRow(heap, o, d + 1)[c]
      BY <2>2 DEF WalkRow
    <3>2. Val(below, m, d) = WalkRow(heap, o, d)[m]
      <4> HIDE DEF Val
      <4> QED BY <3>1, <1>2
    <3>3. d \in 0..N /\ d # N
      BY <1>1
    <3>4. below[<<m, d>>] = Val(below, m, d)
      <4> HIDE DEF Val
      <4> QED BY <3>3, <1>7
    <3>5. WalkRow(heap, o, d)[m] = WalkWrap(o)[<<m, d>>][Flat(R[d + 1], heap[m].children)]
      BY <3>3, WalkWrapIs, RowIs DEF WalkRow
    <3> HIDE DEF Val
    <3> QED BY <3>2, <3>4, <3>5
  <2>3. WalkWrap(o) \in Wraps(Node)
    BY WalkWrapIs
  <2>4. \A m \in Node : below[<<m, NodeCount>>] = <<>>
    BY <2>1
  <2>5. \A m \in Node, d \in 0..(NodeCount - 1) :
          (\A c \in Node : below[<<c, d + 1>>] = R[d + 1][c])
            => below[<<m, d>>] = WalkWrap(o)[<<m, d>>][Flat(R[d + 1], heap[m].children)]
    <3> HIDE DEF R
    <3> QED BY <2>2
  <2>6. Follows(below, R, heap, WalkWrap(o))
    <3> HIDE DEF R
    <3> QED BY <2>4, <2>5 DEF Follows
  <2>7. Matches(below, R)
    <3> HIDE DEF R, N
    <3> QED BY <2>3, <2>6, <1>8, ListsUnique
  <2> QED BY <2>7 DEF Matches
<1> QED BY <1>1, <1>6, <1>9 DEF WalkRow

-----------------------------------------------------------------------------
(* The climb back from the end of a subtree.                               *)

IsLastSibling(h, side, a) ==
    IF side = "left" THEN IsLeftmostSibling(h, a) ELSE IsRightmostSibling(h, a)

(* The child a walk goes to is the last sibling on that side.              *)
LEMMA PickIsLast ==
    ASSUME NEW h \in Heap, NEW X, NEW r, IsTree(h, X, r), NEW side \in Sides, NEW n \in X,
           ~IsLeaf(h, n)
    PROVE  LET c == Pick(side, h[n].children)
           IN  c \in X \ {r} /\ h[c].parent = n /\ IsLastSibling(h, side, c)
<1> DEFINE c == Pick(side, h[n].children)
           i == IF side = "left" THEN 1 ELSE Len(h[n].children)
<1>1. n \in Node /\ X \subseteq Node
  BY DEF IsTree
<1>2. /\ c = h[n].children[i] /\ i \in DOMAIN h[n].children
      /\ Len(h[n].children) \in Nat \ {0}
  BY <1>1, PickIs
<1>3. h[c].parent = n /\ h[c].index = i - 1
  BY <1>2 DEF IsTree
<1>4. c \in X /\ h[r].parent = Null
  BY <1>2, TreeClosed DEF IsTree
<1>5. c # r
  BY <1>1, <1>3, <1>4, NodeAssumption
<1>6. IsLastSibling(h, side, c)
  BY <1>2, <1>3 DEF IsLastSibling, IsLeftmostSibling, IsRightmostSibling, ChildCount
<1> QED BY <1>3, <1>4, <1>5, <1>6

(* From the end of c's subtree the parents lead back to c, and the ones    *)
(* before c are last siblings.                                             *)
LEMMA ClimbPath ==
    ASSUME NEW h \in Heap, NEW X, NEW r, IsTree(h, X, r), NEW side \in Sides, NEW c \in X
    PROVE  LET up == Ancestor(h, End(h, side, c))
           IN  \E K \in 0..NodeCount :
                 /\ up[K] = c
                 /\ \A j \in 0..(K - 1) : up[j] \in X \ {r} /\ IsLastSibling(h, side, up[j])
<1> DEFINE n == End(h, side, c)
           N == NodeCount
           up == Ancestor(h, n)
<1>1. N \in Nat /\ X \subseteq Node /\ c \in Node
  BY NodeCountType DEF IsTree
<1>2. PICK d : IsIteration(d, Node, Down(h, side), c, N) /\ n = d[N]
  BY <1>1, EndIs
<1>3. IsLeaf(h, n) /\ n \in X
  BY EndIsLeaf
<1>4. PICK K \in 0..N : IsLeaf(h, d[K]) /\ \A k \in 0..(K - 1) : ~IsLeaf(h, d[k])
  <2> DEFINE S == {k \in 0..N : IsLeaf(h, d[k])}
  <2>1. S \subseteq Nat /\ N \in S
    BY <1>1, <1>2, <1>3
  <2>2. \E k \in S : \A j \in S : k <= j
    <3> HIDE DEF S
    <3> QED BY <2>1, Least
  <2>3. PICK k \in S : \A j \in S : k <= j
    BY <2>2
  <2>4. k \in 0..N /\ \A j \in 0..(k - 1) : j \in 0..N /\ ~(k <= j)
    BY <1>1, <2>3
  <2> QED BY <2>3, <2>4
<1>5. /\ d[0] = c /\ \A k \in 0..N : d[k] \in Node
      /\ \A k \in 1..N : d[k] = Down(h, side)[d[k - 1]]
  BY <1>2 DEF IsIteration
<1>6. \A k \in Nat : k < K => d[k] \in X /\ d[k + 1] \in X \ {r} /\ h[d[k + 1]].parent = d[k]
                              /\ IsLastSibling(h, side, d[k + 1])
  <2> DEFINE T == {k \in Nat : k <= K => d[k] \in X}
  <2>1. 0 \in T
    BY <1>5
  <2>2. ASSUME NEW k \in Nat, k < K, d[k] \in X
        PROVE  /\ d[k + 1] \in X \ {r} /\ h[d[k + 1]].parent = d[k]
               /\ IsLastSibling(h, side, d[k + 1])
    <3>1. k \in 0..(K - 1) /\ k + 1 \in 1..N /\ (k + 1) - 1 = k
      BY <1>1, <2>2
    <3>2. ~IsLeaf(h, d[k]) /\ d[k] \in Node
      BY <3>1, <1>1, <1>4, <2>2
    <3>3. d[k + 1] = Down(h, side)[d[k]]
      BY <3>1, <1>5
    <3>4. Down(h, side)[d[k]] = Pick(side, h[d[k]].children)
      BY <3>2 DEF Down
    <3> QED BY <2>2, <3>2, <3>3, <3>4, PickIsLast
  <2>3. ASSUME NEW k \in Nat, k \in T PROVE k + 1 \in T
    <3>1. SUFFICES ASSUME k + 1 <= K PROVE d[k + 1] \in X
      OBVIOUS
    <3>2. k < K /\ k <= K
      BY <3>1, <1>1
    <3> QED BY <2>2, <2>3, <3>2
  <2>4. Nat \subseteq T
    <3> HIDE DEF T
    <3> QED BY <2>1, <2>3, SetInduction
  <2>5. \A k \in Nat : k <= K => d[k] \in X
    BY <2>4
  <2>6. \A k \in Nat : k < K => k <= K
    BY <1>1
  <2> QED BY <2>2, <2>5, <2>6
<1>7. d[K] = n
  <2> DEFINE T == {k \in Nat : K + k <= N => d[K + k] = d[K]}
  <2>1. 0 \in T
    BY <1>1
  <2>2. ASSUME NEW k \in Nat, k \in T PROVE k + 1 \in T
    <3>1. SUFFICES ASSUME K + (k + 1) <= N PROVE d[K + (k + 1)] = d[K]
      OBVIOUS
    <3>2. K + (k + 1) \in 1..N /\ (K + (k + 1)) - 1 = K + k /\ K + k <= N
      BY <3>1, <1>1
    <3>3. d[K + (k + 1)] = Down(h, side)[d[K]]
      BY <3>2, <1>5, <2>2
    <3>4. d[K] \in Node /\ IsLeaf(h, d[K])
      BY <1>4, <1>5
    <3> QED BY <3>3, <3>4 DEF Down
  <2>3. Nat \subseteq T
    <3> HIDE DEF T
    <3> QED BY <2>1, <2>2, SetInduction
  <2>4. N - K \in Nat /\ K + (N - K) = N
    BY <1>1
  <2>5. N - K \in T
    <3> HIDE DEF T
    <3> QED BY <2>3, <2>4
  <2> QED BY <1>2, <2>4, <2>5
<1>8. IsIteration(up, NodeOrNull, ParentOf(h), n, N)
  BY <1>1, <1>3, AncestorIs DEF NodeOrNull
<1>9. \A j \in Nat : j <= K => up[j] = d[K - j]
  <2> DEFINE T == {j \in Nat : j <= K => up[j] = d[K - j]}
  <2>1. 0 \in T
    <3>1. K - 0 = K /\ up[0] = n
      BY <1>1, <1>8 DEF IsIteration
    <3> QED BY <3>1, <1>7
  <2>2. ASSUME NEW j \in Nat, j \in T PROVE j + 1 \in T
    <3>1. SUFFICES ASSUME j + 1 <= K PROVE up[j + 1] = d[K - (j + 1)]
      OBVIOUS
    <3>2. /\ j + 1 \in 1..N /\ (j + 1) - 1 = j /\ j <= K /\ K - (j + 1) \in Nat
          /\ K - (j + 1) < K /\ (K - (j + 1)) + 1 = K - j /\ K - j \in 0..N
      BY <3>1, <1>1
    <3>3. up[j + 1] = ParentOf(h)[up[j]]
      <4> HIDE DEF up
      <4> QED BY <3>2, <1>8 DEF IsIteration
    <3>4. up[j] = d[K - j] /\ d[K - j] \in Node
      BY <2>2, <3>2, <1>5
    <3>5. h[d[K - j]].parent = d[K - (j + 1)]
      <4> DEFINE k == K - (j + 1)
      <4>1. h[d[k + 1]].parent = d[k]
        BY <3>2, <1>6
      <4> QED BY <3>2, <4>1
    <3>6. ParentOf(h)[d[K - j]] = h[d[K - j]].parent
      BY <3>4, NodeAssumption DEF ParentOf, NodeOrNull
    <3> QED BY <3>3, <3>4, <3>5, <3>6
  <2>3. Nat \subseteq T
    <3> HIDE DEF T
    <3> QED BY <2>1, <2>2, SetInduction
  <2> QED BY <2>3
<1>10. up[K] = c
  <2>1. K \in Nat /\ K <= K /\ K - K = 0
    BY <1>1
  <2> QED BY <2>1, <1>5, <1>9
<1>11. ASSUME NEW j \in 0..(K - 1) PROVE up[j] \in X \ {r} /\ IsLastSibling(h, side, up[j])
  <2> DEFINE k == K - (j + 1)
  <2>1. j \in Nat /\ j <= K /\ k \in Nat /\ k < K /\ k + 1 = K - j
    BY <1>1
  <2>2. d[k + 1] \in X \ {r} /\ IsLastSibling(h, side, d[k + 1])
    BY <2>1, <1>6
  <2>3. up[j] = d[k + 1]
    BY <2>1, <1>9
  <2> HIDE DEF up, k
  <2> QED BY <2>2, <2>3
<1> HIDE DEF up
<1> QED BY <1>10, <1>11 DEF up

(* What CHOOSE finds when there is a first place.                          *)
LEMMA FirstIs ==
    ASSUME NEW K, NEW N \in Nat, NEW k \in 1..N, k \in K, \A j \in 1..(k - 1) : j \notin K
    PROVE  (CHOOSE i \in 1..N : i \in K /\ \A j \in 1..(i - 1) : j \notin K) = k
<1>1. ASSUME NEW i \in 1..N, i \in K, \A j \in 1..(i - 1) : j \notin K PROVE i = k
  <2>1. ~(i < k) /\ ~(k < i)
    <3>1. i < k => i \in 1..(k - 1)
      OBVIOUS
    <3>2. k < i => k \in 1..(i - 1)
      OBVIOUS
    <3> QED BY <3>1, <3>2, <1>1
  <2> QED BY <2>1
<1> QED BY <1>1

(* Climb, from the end of c's subtree, goes to c's sibling, and past the   *)
(* end of the tree when c is the root.                                     *)
LEMMA ClimbRight ==
    ASSUME heap \in Heap, NEW X, NEW r, IsTree(heap, X, r), NEW c \in X
    PROVE  LET n == RightmostChildOrThis(heap, c)
           IN  /\ c = r => Climb(n, IsRightmost, OnTheRight) = Null
               /\ c # r /\ ~IsRightmost(c) => Climb(n, IsRightmost, OnTheRight) = OnTheRight(c)
<1> DEFINE n == RightmostChildOrThis(heap, c)
           up == Ancestor(heap, n)
           goOn(m) == ~IsRightmost(m)
           here(k) == heap[up[k]].parent = Null \/ goOn(up[k])
           H == {k \in 1..NodeCount : here(k)}
           top == TopParent(n, goOn)
<1>0. X \subseteq Node /\ c \in Node /\ NodeCount \in Nat /\ Null \notin Node
  BY NodeCountType, NodeAssumption DEF IsTree
<1>1. n = End(heap, "right", c) /\ "right" \in Sides
  BY DEF End, Sides
<1>2. n \in X
  BY <1>1, EndIsLeaf
<1>3. PICK K \in 0..NodeCount :
        /\ up[K] = c
        /\ \A j \in 0..(K - 1) : up[j] \in X \ {r} /\ IsLastSibling(heap, "right", up[j])
  BY <1>1, ClimbPath
<1>4. \A j \in 0..(K - 1) : heap[up[j]].parent # Null /\ IsRightmost(up[j])
  BY <1>0, <1>3 DEF IsTree, IsLastSibling, IsRightmost
<1>5. up[0] = n
  <2>1. IsIteration(up, NodeOrNull, ParentOf(heap), n, NodeCount)
    BY <1>0, <1>2, AncestorIs DEF NodeOrNull
  <2> QED BY <2>1 DEF IsIteration
<1>6. /\ c = r => heap[c].parent = Null
      /\ c # r => heap[c].parent # Null
  BY <1>0 DEF IsTree
<1>7. CASE K = 0
  BY <1>3, <1>5, <1>6, <1>7 DEF Climb
<1>8. CASE K # 0 /\ (c = r \/ ~IsRightmost(c))
  <2>1. 0 \in 0..(K - 1) /\ K \in 1..NodeCount
    BY <1>0, <1>8
  <2>2. K \in H
    BY <2>1, <1>3, <1>6, <1>8
  <2>3. \A j \in 1..(K - 1) : j \notin H
    BY <1>4
  <2>4. top = up[CHOOSE i \in 1..NodeCount : here(i) /\ \A j \in 1..(i - 1) : ~here(j)]
    BY DEF TopParent, NodeCount
  <2>5. \A i \in 1..NodeCount : (here(i) /\ \A j \in 1..(i - 1) : ~here(j))
                               <=> (i \in H /\ \A j \in 1..(i - 1) : j \notin H)
    <3>1. \A i \in 1..NodeCount : i \in H <=> here(i)
      OBVIOUS
    <3>2. \A i \in 1..NodeCount : \A j \in 1..(i - 1) : j \in 1..NodeCount
      BY <1>0
    <3> HIDE DEF here, H
    <3> QED BY <3>1, <3>2
  <2>6. top = up[CHOOSE i \in 1..NodeCount : i \in H /\ \A j \in 1..(i - 1) : j \notin H]
    <3>1. (CHOOSE i \in 1..NodeCount : here(i) /\ \A j \in 1..(i - 1) : ~here(j))
            = CHOOSE i \in 1..NodeCount : i \in H /\ \A j \in 1..(i - 1) : j \notin H
      <4> HIDE DEF here, H
      <4> QED BY <2>5
    <3> HIDE DEF H, here, top
    <3> QED BY <2>4, <3>1
  <2>7. (CHOOSE i \in 1..NodeCount : i \in H /\ \A j \in 1..(i - 1) : j \notin H) = K
    <3> HIDE DEF H
    <3> QED BY <1>0, <2>1, <2>2, <2>3, FirstIs
  <2>8. top = c
    BY <2>6, <2>7, <1>3
  <2>9. heap[n].parent # Null /\ IsRightmost(n)
    BY <2>1, <1>4, <1>5
  <2>10. Climb(n, IsRightmost, OnTheRight)
           = IF heap[top].parent # Null THEN OnTheRight(top) ELSE Null
    BY <2>9 DEF Climb
  <2> QED BY <2>8, <2>10, <1>6
<1> QED BY <1>7, <1>8

(* The same on the other side.                                             *)
LEMMA ClimbLeft ==
    ASSUME heap \in Heap, NEW X, NEW r, IsTree(heap, X, r), NEW c \in X
    PROVE  LET n == LeftmostChildOrThis(heap, c)
           IN  /\ c = r => Climb(n, IsLeftmost, OnTheLeft) = Null
               /\ c # r /\ ~IsLeftmost(c) => Climb(n, IsLeftmost, OnTheLeft) = OnTheLeft(c)
<1> DEFINE n == LeftmostChildOrThis(heap, c)
           up == Ancestor(heap, n)
           goOn(m) == ~IsLeftmost(m)
           here(k) == heap[up[k]].parent = Null \/ goOn(up[k])
           H == {k \in 1..NodeCount : here(k)}
           top == TopParent(n, goOn)
<1>0. X \subseteq Node /\ c \in Node /\ NodeCount \in Nat /\ Null \notin Node
  BY NodeCountType, NodeAssumption DEF IsTree
<1>1. n = End(heap, "left", c) /\ "left" \in Sides
  BY DEF End, Sides
<1>2. n \in X
  BY <1>1, EndIsLeaf
<1>3. PICK K \in 0..NodeCount :
        /\ up[K] = c
        /\ \A j \in 0..(K - 1) : up[j] \in X \ {r} /\ IsLastSibling(heap, "left", up[j])
  BY <1>1, ClimbPath
<1>4. \A j \in 0..(K - 1) : heap[up[j]].parent # Null /\ IsLeftmost(up[j])
  BY <1>0, <1>3 DEF IsTree, IsLastSibling, IsLeftmost
<1>5. up[0] = n
  <2>1. IsIteration(up, NodeOrNull, ParentOf(heap), n, NodeCount)
    BY <1>0, <1>2, AncestorIs DEF NodeOrNull
  <2> QED BY <2>1 DEF IsIteration
<1>6. /\ c = r => heap[c].parent = Null
      /\ c # r => heap[c].parent # Null
  BY <1>0 DEF IsTree
<1>7. CASE K = 0
  BY <1>3, <1>5, <1>6, <1>7 DEF Climb
<1>8. CASE K # 0 /\ (c = r \/ ~IsLeftmost(c))
  <2>1. 0 \in 0..(K - 1) /\ K \in 1..NodeCount
    BY <1>0, <1>8
  <2>2. K \in H
    BY <2>1, <1>3, <1>6, <1>8
  <2>3. \A j \in 1..(K - 1) : j \notin H
    BY <1>4
  <2>4. top = up[CHOOSE i \in 1..NodeCount : here(i) /\ \A j \in 1..(i - 1) : ~here(j)]
    BY DEF TopParent, NodeCount
  <2>5. \A i \in 1..NodeCount : (here(i) /\ \A j \in 1..(i - 1) : ~here(j))
                               <=> (i \in H /\ \A j \in 1..(i - 1) : j \notin H)
    <3>1. \A i \in 1..NodeCount : i \in H <=> here(i)
      OBVIOUS
    <3>2. \A i \in 1..NodeCount : \A j \in 1..(i - 1) : j \in 1..NodeCount
      BY <1>0
    <3> HIDE DEF here, H
    <3> QED BY <3>1, <3>2
  <2>6. top = up[CHOOSE i \in 1..NodeCount : i \in H /\ \A j \in 1..(i - 1) : j \notin H]
    <3>1. (CHOOSE i \in 1..NodeCount : here(i) /\ \A j \in 1..(i - 1) : ~here(j))
            = CHOOSE i \in 1..NodeCount : i \in H /\ \A j \in 1..(i - 1) : j \notin H
      <4> HIDE DEF here, H
      <4> QED BY <2>5
    <3> HIDE DEF H, here, top
    <3> QED BY <2>4, <3>1
  <2>7. (CHOOSE i \in 1..NodeCount : i \in H /\ \A j \in 1..(i - 1) : j \notin H) = K
    <3> HIDE DEF H
    <3> QED BY <1>0, <2>1, <2>2, <2>3, FirstIs
  <2>8. top = c
    BY <2>6, <2>7, <1>3
  <2>9. heap[n].parent # Null /\ IsLeftmost(n)
    BY <2>1, <1>4, <1>5
  <2>10. Climb(n, IsLeftmost, OnTheLeft)
           = IF heap[top].parent # Null THEN OnTheLeft(top) ELSE Null
    BY <2>9 DEF Climb
  <2> QED BY <2>8, <2>10, <1>6
<1> QED BY <1>7, <1>8

-----------------------------------------------------------------------------
(* A run is a list each of whose nodes leads to the next.                  *)

Leads == [Node -> SUBSET Node]

IsRun(l, a, b, L) ==
    /\ l \in Seq(Node) /\ Len(l) \in Nat \ {0}
    /\ l[1] = a /\ l[Len(l)] = b
    /\ \A i \in 1..(Len(l) - 1) : l[i + 1] \in L[l[i]]

(* Runs are made of runs.                                                  *)
LEMMA RunOne ==
    ASSUME NEW L \in Leads, NEW x \in Node PROVE IsRun(<<x>>, x, x, L)
<1>1. <<x>> \in Seq(Node) /\ Len(<<x>>) = 1 /\ <<x>>[1] = x
  OBVIOUS
<1> QED BY <1>1 DEF IsRun

LEMMA RunConcat ==
    ASSUME NEW L \in Leads, NEW k, NEW l, NEW a, NEW b, NEW c, NEW d,
           IsRun(k, a, b, L), IsRun(l, c, d, L), c \in L[b]
    PROVE  IsRun(k \o l, a, d, L)
<1> DEFINE m == Len(k)
           n == Len(l)
           kl == k \o l
<1>1. /\ k \in Seq(Node) /\ m \in Nat \ {0} /\ k[1] = a /\ k[m] = b
      /\ \A i \in 1..(m - 1) : k[i + 1] \in L[k[i]]
  BY DEF IsRun
<1>2. /\ l \in Seq(Node) /\ n \in Nat \ {0} /\ l[1] = c /\ l[n] = d
      /\ \A i \in 1..(n - 1) : l[i + 1] \in L[l[i]]
  BY DEF IsRun
<1>3. /\ kl \in Seq(Node) /\ Len(kl) = m + n
      /\ \A i \in 1..(m + n) : kl[i] = IF i <= m THEN k[i] ELSE l[i - m]
  BY <1>1, <1>2, ConcatIs
<1> HIDE DEF kl, m, n
<1>4. kl[1] = a /\ kl[m + n] = d /\ m + n \in Nat \ {0}
  <2>1. 1 \in 1..(m + n) /\ 1 <= m /\ m + n \in 1..(m + n) /\ ~(m + n <= m) /\ (m + n) - m = n
    BY <1>1, <1>2
  <2> QED BY <2>1, <1>1, <1>2, <1>3
<1>5. ASSUME NEW i \in 1..((m + n) - 1) PROVE kl[i + 1] \in L[kl[i]]
  <2>1. i \in 1..(m + n) /\ i + 1 \in 1..(m + n)
    BY <1>1, <1>2
  <2>2. CASE i < m
    <3>1. i \in 1..(m - 1) /\ i <= m /\ i + 1 <= m
      BY <1>1, <2>2
    <3> QED BY <2>1, <3>1, <1>1, <1>3
  <2>3. CASE i = m
    <3>1. i <= m /\ ~(i + 1 <= m) /\ (i + 1) - m = 1
      BY <1>1, <2>3
    <3> QED BY <2>1, <2>3, <3>1, <1>1, <1>2, <1>3
  <2>4. CASE m < i
    <3>1. ~(i <= m) /\ ~(i + 1 <= m) /\ (i + 1) - m = (i - m) + 1 /\ i - m \in 1..(n - 1)
      BY <1>1, <1>2, <2>4
    <3>2. kl[i] = l[i - m] /\ kl[i + 1] = l[(i - m) + 1]
      BY <2>1, <3>1, <1>3
    <3> QED BY <3>1, <3>2, <1>2
  <2> QED BY <2>2, <2>3, <2>4, <1>1
<1> QED BY <1>3, <1>4, <1>5 DEF IsRun, kl

(* The runs of siblings, when the end of each leads to the next.           *)
LEMMA RunFlat ==
    ASSUME NEW L \in Leads, NEW f \in [Node -> Seq(Node)], NEW q \in Seq(Node), q # <<>>,
           NEW A \in [Node -> Node], NEW B \in [Node -> Node],
           \A i \in 1..Len(q) : IsRun(f[q[i]], A[q[i]], B[q[i]], L),
           \A i \in 1..(Len(q) - 1) : A[q[i + 1]] \in L[B[q[i]]]
    PROVE  IsRun(Flat(f, q), A[q[1]], B[q[Len(q)]], L)
<1> DEFINE n == Len(q)
<1>1. n \in Nat \ {0} /\ \A i \in 1..n : q[i] \in Node
  BY EmptySeq, LenProperties, ElementOfSeq
<1>2. PICK F : IsFlat(F, Node, f, q) /\ F[n] = Flat(f, q)
  BY FlatIs
<1>3. F \in [0..n -> Seq(Node)] /\ F[0] = <<>> /\ \A k \in 1..n : F[k] = F[k - 1] \o f[q[k]]
  BY <1>2 DEF IsFlat
<1> DEFINE T == {k \in Nat : k + 1 <= n => IsRun(F[k + 1], A[q[1]], B[q[k + 1]], L)}
<1>4. 0 \in T
  <2>1. 1 \in 1..n /\ 1 - 1 = 0 /\ 0 + 1 = 1
    BY <1>1
  <2>2. F[1] = <<>> \o f[q[1]]
    BY <2>1, <1>3
  <2>3. f[q[1]] \in Seq(Node)
    BY <2>1, <1>1
  <2>4. <<>> \o f[q[1]] = f[q[1]]
    BY <2>3, ConcatEmptySeq
  <2> QED BY <2>1, <2>2, <2>4
<1>5. ASSUME NEW k \in Nat, k \in T PROVE k + 1 \in T
  <2>1. SUFFICES ASSUME (k + 1) + 1 <= n PROVE IsRun(F[(k + 1) + 1], A[q[1]], B[q[(k + 1) + 1]], L)
    OBVIOUS
  <2>2. /\ k + 1 <= n /\ k + 1 \in 1..(n - 1) /\ (k + 1) + 1 \in 1..n /\ ((k + 1) + 1) - 1 = k + 1
    BY <1>1, <2>1
  <2>3. IsRun(F[k + 1], A[q[1]], B[q[k + 1]], L)
    BY <1>5, <2>2
  <2>4. IsRun(f[q[(k + 1) + 1]], A[q[(k + 1) + 1]], B[q[(k + 1) + 1]], L)
    BY <2>2
  <2>5. A[q[(k + 1) + 1]] \in L[B[q[k + 1]]]
    BY <2>2
  <2>6. F[(k + 1) + 1] = F[k + 1] \o f[q[(k + 1) + 1]]
    BY <2>2, <1>3
  <2>7. PICK u, v : u = F[k + 1] /\ v = f[q[(k + 1) + 1]]
    OBVIOUS
  <2>8. IsRun(u \o v, A[q[1]], B[q[(k + 1) + 1]], L)
    BY <2>3, <2>4, <2>5, <2>7, RunConcat
  <2> QED BY <2>6, <2>7, <2>8
<1>6. Nat \subseteq T
  <2> HIDE DEF T
  <2> QED BY <1>4, <1>5, SetInduction
<1>7. n - 1 \in Nat /\ (n - 1) + 1 = n
  BY <1>1
<1>8. n - 1 \in T
  <2> HIDE DEF T
  <2> QED BY <1>6, <1>7
<1>9. IsRun(F[n], A[q[1]], B[q[n]], L)
  BY <1>1, <1>7, <1>8
<1> QED BY <1>2, <1>9

(* What the tests on siblings say of child number i.                       *)
LEMMA SiblingIs ==
    ASSUME heap \in Heap, NEW X, NEW r, IsTree(heap, X, r), NEW m \in X,
           NEW i \in DOMAIN heap[m].children
    PROVE  LET q == heap[m].children
               c == q[i]
           IN  /\ c \in X /\ c # r /\ heap[c].parent = m /\ m # Null /\ ~IsLeaf(heap, m)
               /\ IsLeftmost(c) <=> i = 1
               /\ IsRightmost(c) <=> i = Len(q)
               /\ i > 1 => OnTheLeft(c) = q[i - 1]
               /\ i < Len(q) => OnTheRight(c) = q[i + 1]
<1> DEFINE q == heap[m].children
           c == q[i]
<1>1. m \in Node /\ X \subseteq Node /\ m # Null
  BY NodeAssumption DEF IsTree
<1>2. DOMAIN q = 1..Len(q) /\ Len(q) \in Nat /\ q # <<>>
  BY <1>1, HeapFields, EmptySeq
<1>3. heap[c].parent = m /\ heap[c].index = i - 1 /\ c \in X
  BY TreeClosed DEF IsTree
<1>4. c # r
  BY <1>1, <1>3 DEF IsTree
<1>5. IsLeftmost(c) <=> i = 1
  BY <1>2, <1>3 DEF IsLeftmost, IsLeftmostSibling
<1>6. IsRightmost(c) <=> i = Len(q)
  BY <1>2, <1>3 DEF IsRightmost, IsRightmostSibling, ChildCount
<1>7. i > 1 => OnTheLeft(c) = q[i - 1]
  <2>1. ((i - 1) - 1) + 1 = i - 1
    BY <1>2
  <2> QED BY <2>1, <1>3 DEF OnTheLeft, LeftSibling, Child
<1>8. i < Len(q) => OnTheRight(c) = q[i + 1]
  <2>1. ((i - 1) + 1) + 1 = i + 1
    BY <1>2
  <2> QED BY <2>1, <1>3 DEF OnTheRight, RightSibling, Child
<1>9. ~IsLeaf(heap, m)
  BY <1>2 DEF IsLeaf
<1> QED BY <1>1, <1>3, <1>4, <1>5, <1>6, <1>7, <1>8, <1>9

-----------------------------------------------------------------------------
Firsts(h, o) == [m \in Node |-> IF o = "pre" THEN m ELSE End(h, "left", m)]
Lasts(h, o) == [m \in Node |-> IF o = "pre" THEN End(h, "right", m) ELSE m]

Steps(t, o) == [x \in Node |-> {y \in Node : Increment(x, o) = y /\ Decrement(t, y, o) = x}]

(* The ends of walks are nodes.                                            *)
LEMMA EndsAre ==
    ASSUME NEW h \in Heap, NEW o \in Order
    PROVE  Firsts(h, o) \in [Node -> Node] /\ Lasts(h, o) \in [Node -> Node]
<1>1. \A side \in Sides, m \in Node : End(h, side, m) \in Node
  <2> TAKE side \in Sides, m \in Node
  <2>1. \A a \in Node : IsLeaf(h, a) \/ Pick(side, h[a].children) \in Node
    BY PickIs
  <2> QED BY <2>1, EndStays
<1>2. "left" \in Sides /\ "right" \in Sides
  BY DEF Sides
<1> QED BY <1>1, <1>2 DEF Firsts, Lasts

(* From the end of a child to the beginning of the next, and from the      *)
(* parent to the first, or from the last to the parent.                    *)
LEMMA StepsToSibling ==
    ASSUME heap \in Heap, NEW X, NEW r, IsTree(heap, X, r), NEW m \in X, NEW t, NEW o \in Order,
           NEW i \in DOMAIN heap[m].children, i < Len(heap[m].children)
    PROVE  LET q == heap[m].children
           IN  Firsts(heap, o)[q[i + 1]] \in Steps(t, o)[Lasts(heap, o)[q[i]]]
<1> DEFINE q == heap[m].children
           c == q[i]
           s == q[i + 1]
<1>1. X \subseteq Node /\ m \in Node /\ Null \notin Node
  BY NodeAssumption DEF IsTree
<1>2. DOMAIN q = 1..Len(q) /\ Len(q) \in Nat
  BY <1>1, HeapFields
<1>3. i + 1 \in DOMAIN q /\ i + 1 # 1 /\ i # Len(q) /\ i + 1 > 1 /\ (i + 1) - 1 = i
  BY <1>2
<1>4. /\ c \in X /\ c # r /\ heap[c].parent = m /\ m # Null
      /\ ~IsRightmost(c) /\ OnTheRight(c) = s
  BY <1>3, SiblingIs
<1>5. /\ s \in X /\ s # r /\ heap[s].parent = m
      /\ ~IsLeftmost(s) /\ OnTheLeft(s) = c
  BY <1>3, SiblingIs
<1> HIDE DEF c, s
<1>6. c \in Node /\ s \in Node
  BY <1>1, <1>4, <1>5
<1>7. CASE o = "pre"
  <2> DEFINE n == RightmostChildOrThis(heap, c)
  <2>1. "right" \in Sides /\ n = End(heap, "right", c)
    BY DEF Sides, End
  <2>2. n \in X /\ IsLeaf(heap, n)
    BY <2>1, <1>4, EndIsLeaf
  <2>3. Climb(n, IsRightmost, OnTheRight) = OnTheRight(c)
    BY <1>4, ClimbRight
  <2>4. Increment(n, o) = s
    BY <2>2, <2>3, <1>4, <1>7 DEF Increment, NextInPreOrder
  <2>5. s # Null
    BY <1>1, <1>6
  <2>6. Decrement(t, s, o) = n
    BY <2>5, <1>4, <1>5, <1>7 DEF Decrement, PreviousInPreOrder
  <2>7. Firsts(heap, o)[s] = s /\ Lasts(heap, o)[c] = n
    BY <2>1, <1>6, <1>7 DEF Firsts, Lasts
  <2> HIDE DEF n
  <2>8. n \in Node
    BY <2>2, <1>1
  <2>9. s \in Steps(t, o)[n]
    BY <2>4, <2>6, <2>8, <1>6 DEF Steps
  <2> QED BY <2>7, <2>9 DEF c, s
<1>8. CASE o # "pre"
  <2> DEFINE n == LeftmostChildOrThis(heap, s)
  <2>1. "left" \in Sides /\ n = End(heap, "left", s)
    BY DEF Sides, End
  <2>2. n \in X /\ IsLeaf(heap, n)
    BY <2>1, <1>5, EndIsLeaf
  <2>3. Climb(n, IsLeftmost, OnTheLeft) = OnTheLeft(s)
    BY <1>5, ClimbLeft
  <2>4. n # Null
    BY <1>1, <2>2
  <2>5. Decrement(t, n, o) = c
    BY <2>2, <2>3, <2>4, <1>5, <1>8 DEF Decrement, PreviousInPostOrder
  <2>6. Increment(c, o) = n
    BY <1>4, <1>8 DEF Increment, NextInPostOrder
  <2>7. Firsts(heap, o)[s] = n /\ Lasts(heap, o)[c] = c
    BY <2>1, <1>6, <1>8 DEF Firsts, Lasts
  <2> HIDE DEF n
  <2>8. n \in Node
    BY <2>2, <1>1
  <2>9. n \in Steps(t, o)[c]
    BY <2>5, <2>6, <2>8, <1>6 DEF Steps
  <2> QED BY <2>7, <2>9 DEF c, s
<1> QED BY <1>7, <1>8

(* From a node to its first child in pre-order, from its last child to it  *)
(* in post-order.                                                          *)
LEMMA StepsToParent ==
    ASSUME heap \in Heap, NEW X, NEW r, IsTree(heap, X, r), NEW m \in X, NEW t, NEW o \in Order,
           ~IsLeaf(heap, m)
    PROVE  LET q == heap[m].children
           IN  /\ o = "pre" => /\ Firsts(heap, o)[q[1]] \in Steps(t, o)[m]
                               /\ Lasts(heap, o)[q[Len(q)]] = Lasts(heap, o)[m]
               /\ o # "pre" => /\ m \in Steps(t, o)[Lasts(heap, o)[q[Len(q)]]]
                               /\ Firsts(heap, o)[q[1]] = Firsts(heap, o)[m]
<1> DEFINE q == heap[m].children
           a == q[1]
           z == q[Len(q)]
<1>1. X \subseteq Node /\ m \in Node /\ Null \notin Node
  BY NodeAssumption DEF IsTree
<1>2. DOMAIN q = 1..Len(q) /\ Len(q) \in Nat \ {0} /\ q \in Seq(Node) /\ q # <<>>
  BY <1>1, HeapFields, EmptySeq DEF IsLeaf
<1>3. 1 \in DOMAIN q /\ Len(q) \in DOMAIN q
  BY <1>2
<1>4. a \in X /\ heap[a].parent = m /\ m # Null /\ IsLeftmost(a) /\ a \in Node
  BY <1>1, <1>3, SiblingIs
<1>5. z \in X /\ heap[z].parent = m /\ IsRightmost(z) /\ z \in Node
  BY <1>1, <1>3, SiblingIs
<1>6. "left" \in Sides /\ "right" \in Sides
  BY DEF Sides
<1>7. Head(q) = a /\ Last(q) = z
  BY <1>2 DEF Last
<1>8. End(heap, "left", m) = End(heap, "left", a) /\ End(heap, "right", m) = End(heap, "right", z)
  <2>1. Pick("left", q) = a /\ Pick("right", q) = z
    BY <1>7 DEF Pick
  <2> QED BY <2>1, <1>6, EndStep
<1> HIDE DEF a, z
<1>9. ASSUME o = "pre"
      PROVE  Firsts(heap, o)[a] \in Steps(t, o)[m] /\ Lasts(heap, o)[z] = Lasts(heap, o)[m]
  <2>1. Increment(m, o) = a
    BY <1>7, <1>9 DEF Increment, NextInPreOrder
  <2>2. Decrement(t, a, o) = m
    BY <1>1, <1>4, <1>9 DEF Decrement, PreviousInPreOrder
  <2>3. a \in Steps(t, o)[m]
    BY <2>1, <2>2, <1>1, <1>4 DEF Steps
  <2> QED BY <2>3, <1>1, <1>4, <1>5, <1>8, <1>9 DEF Firsts, Lasts
<1>10. ASSUME o # "pre"
       PROVE  m \in Steps(t, o)[Lasts(heap, o)[z]] /\ Firsts(heap, o)[a] = Firsts(heap, o)[m]
  <2>1. Increment(z, o) = m
    BY <1>5, <1>10 DEF Increment, NextInPostOrder
  <2>2. Decrement(t, m, o) = z
    BY <1>1, <1>7, <1>10 DEF Decrement, PreviousInPostOrder
  <2>3. m \in Steps(t, o)[z]
    BY <2>1, <2>2, <1>1, <1>5 DEF Steps
  <2> QED BY <2>3, <1>1, <1>4, <1>5, <1>8, <1>10 DEF Firsts, Lasts
<1> QED BY <1>9, <1>10 DEF a, z

LEMMA StepsType == ASSUME NEW t, NEW o PROVE Steps(t, o) \in Leads
BY DEF Steps, Leads

(* Every list of a subtree is a run of the iterators' steps.               *)
LEMMA RowIsRun ==
    ASSUME heap \in Heap, NEW X, NEW r, IsTree(heap, X, r), NEW t, NEW o \in Order, NEW n \in X
    PROVE  IsRun(WalkRow(heap, o, 0)[n], Firsts(heap, o)[n], Lasts(heap, o)[n], Steps(t, o))
<1> DEFINE L == Steps(t, o)
           A == Firsts(heap, o)
           B == Lasts(heap, o)
           Good(m, d) == IsRun(WalkRow(heap, o, d)[m], A[m], B[m], L)
           T == {m \in X : \A d : Fits(heap, m, d) => Good(m, d)}
<1>1. X \subseteq Node /\ A \in [Node -> Node] /\ B \in [Node -> Node] /\ L \in Leads
  BY EndsAre, StepsType DEF IsTree
<1>2. ASSUME NEW m \in X, Children(heap, m) \subseteq T PROVE m \in T
  <2>1. SUFFICES ASSUME NEW d, Fits(heap, m, d) PROVE Good(m, d)
    OBVIOUS
  <2> DEFINE q == heap[m].children
             f == WalkRow(heap, o, d + 1)
             kids == Flat(f, q)
  <2>2. /\ d \in 0..NodeCount /\ d # NodeCount /\ d + 1 \in 0..NodeCount
        /\ \A c \in Children(heap, m) : Fits(heap, c, d + 1)
    <3>1. d \in 0..(NodeCount - 1) /\ d + 1 \in 0..NodeCount
      BY <2>1, FitsIs
    <3>2. d \in 0..NodeCount /\ d # NodeCount
      BY <3>1, NodeCountType
    <3> QED BY <2>1, <3>1, <3>2, FitsIs
  <2>3. m \in Node /\ q \in Seq(Node) /\ DOMAIN q = 1..Len(q) /\ Len(q) \in Nat
    BY <1>1, HeapFields
  <2>4. f \in [Node -> Seq(Node)] /\ kids \in Seq(Node)
        /\ WalkRow(heap, o, d)[m] = WalkStep(o, m, kids)
    BY <2>2, <2>3, WalkRowIs
  <2>5. \A i \in 1..Len(q) : IsRun(f[q[i]], A[q[i]], B[q[i]], L)
    <3> TAKE i \in 1..Len(q)
    <3>1. q[i] \in Children(heap, m)
      BY <2>3, InChildren
    <3> HIDE DEF A, B, L
    <3> QED BY <3>1, <2>2, <1>2
  <2>6. IsRun(<<m>>, m, m, L) /\ <<m>> \in Seq(Node)
    BY <1>1, <2>3, RunOne
  <2> HIDE DEF f, kids
  <2>7. CASE IsLeaf(heap, m)
    <3>1. q = <<>>
      BY <2>7 DEF IsLeaf
    <3>2. kids = <<>>
      BY <2>4, <3>1, FlatEmpty DEF kids
    <3>3. WalkStep(o, m, kids) = <<m>>
      BY <2>6, <3>2, ConcatEmptySeq DEF WalkStep
    <3>4. "left" \in Sides /\ "right" \in Sides
      BY DEF Sides
    <3>5. A[m] = m /\ B[m] = m
      BY <2>3, <2>7, <3>4, EndOfLeaf DEF Firsts, Lasts
    <3> QED BY <2>4, <2>6, <3>3, <3>5
  <2>8. CASE ~IsLeaf(heap, m)
    <3>1. q # <<>> /\ Len(q) \in Nat \ {0}
      BY <2>3, <2>8, EmptySeq DEF IsLeaf
    <3>2. \A i \in 1..(Len(q) - 1) : A[q[i + 1]] \in L[B[q[i]]]
      <4> TAKE i \in 1..(Len(q) - 1)
      <4>1. i \in DOMAIN q /\ i < Len(q)
        BY <2>3
      <4> QED BY <4>1, StepsToSibling
    <3>3. IsRun(kids, A[q[1]], B[q[Len(q)]], L)
      <4> HIDE DEF A, B, L, q
      <4> QED BY <1>1, <2>3, <2>4, <2>5, <3>1, <3>2, RunFlat DEF kids
    <3>4. CASE o = "pre"
      <4>1. A[q[1]] \in L[m] /\ B[q[Len(q)]] = B[m]
        BY <2>8, <3>4, StepsToParent
      <4>2. A[m] = m
        BY <2>3, <3>4 DEF Firsts
      <4>3. PICK x, y, u, v : x = A[q[1]] /\ y = B[q[Len(q)]] /\ u = <<m>> /\ v = kids
        OBVIOUS
      <4> HIDE DEF A, B, L
      <4>4. IsRun(u \o v, m, y, L)
        BY <1>1, <2>6, <3>3, <4>1, <4>3, RunConcat
      <4> QED BY <2>4, <3>4, <4>1, <4>2, <4>3, <4>4 DEF WalkStep
    <3>5. CASE o # "pre"
      <4>1. m \in L[B[q[Len(q)]]] /\ A[q[1]] = A[m]
        BY <2>8, <3>5, StepsToParent
      <4>2. B[m] = m
        BY <2>3, <3>5 DEF Lasts
      <4>3. PICK x, y, u, v : x = A[q[1]] /\ y = B[q[Len(q)]] /\ u = <<m>> /\ v = kids
        OBVIOUS
      <4> HIDE DEF A, B, L
      <4>4. IsRun(v \o u, x, m, L)
        BY <1>1, <2>6, <3>3, <4>1, <4>3, RunConcat
      <4> QED BY <2>4, <3>5, <4>1, <4>2, <4>3, <4>4 DEF WalkStep
    <3> QED BY <3>4, <3>5
  <2> QED BY <2>7, <2>8
<1>3. X \subseteq T
  <2> HIDE DEF T
  <2> QED BY <1>2, TreeInduction
<1>4. Fits(heap, n, 0)
  BY FitsIs
<1> QED BY <1>3, <1>4

(* The whole tree, from where the iterators begin to where they end.       *)
LEMMA TraversalIs ==
    ASSUME IInv, ExtremaAreExtreme, NEW t \in Tree, NEW o \in Order, root[t] # Null
    PROVE  LET l == Listed(root[t], o)
           IN  /\ IsRun(l, DfsBegin(t, o), DfsLast(t, o), Steps(t, o))
               /\ Increment(DfsLast(t, o), o) = Null
<1> DEFINE X == Nodes(t)
           r == root[t]
<1>1. heap \in Heap /\ X \subseteq Node /\ IsTree(heap, X, r)
  BY LiveIs
<1>2. r \in X /\ r \in Node /\ heap[r].parent = Null
  BY <1>1 DEF IsTree
<1>3. leftmost[t] = End(heap, "left", r) /\ rightmost[t] = End(heap, "right", r)
  BY ExtremaIs
<1>4. Firsts(heap, o)[r] = DfsBegin(t, o) /\ Lasts(heap, o)[r] = DfsLast(t, o)
  BY <1>2, <1>3 DEF Firsts, Lasts, DfsBegin, DfsLast
<1>5. IsRun(Listed(r, o), DfsBegin(t, o), DfsLast(t, o), Steps(t, o))
  BY <1>1, <1>2, <1>4, ListedIs, RowIsRun
<1>6. Increment(DfsLast(t, o), o) = Null
  <2>1. CASE o = "pre"
    <3> DEFINE n == RightmostChildOrThis(heap, r)
    <3>1. n = End(heap, "right", r) /\ "right" \in Sides
      BY DEF End, Sides
    <3>2. IsLeaf(heap, n)
      BY <1>1, <1>2, <3>1, EndIsLeaf
    <3>3. Climb(n, IsRightmost, OnTheRight) = Null
      BY <1>1, <1>2, ClimbRight
    <3>4. DfsLast(t, o) = n
      BY <1>3, <2>1, <3>1 DEF DfsLast
    <3> HIDE DEF n
    <3> QED BY <2>1, <3>2, <3>3, <3>4 DEF Increment, NextInPreOrder
  <2>2. CASE o # "pre"
    BY <1>2, <2>2 DEF DfsLast, Increment, NextInPostOrder
  <2> QED BY <2>1, <2>2
<1> QED BY <1>5, <1>6

(* What a run says, place by place.                                        *)
LEMMA IteratorsAreRight == ASSUME IInv, ExtremaAreExtreme PROVE IteratorsListTheTree
<1>1. SUFFICES ASSUME NEW t \in live, NEW o \in Order, root[t] # Null
               PROVE  LET l == Listed(root[t], o)
                      IN  /\ DfsBegin(t, o) = l[1]
                          /\ \A i \in DOMAIN l :
                                Increment(l[i], o) = IF i = Len(l) THEN Null ELSE l[i + 1]
                          /\ \A i \in 2..(Len(l) + 1) :
                                Decrement(t, IF i > Len(l) THEN Null ELSE l[i], o) = l[i - 1]
  BY DEF IteratorsListTheTree, ForwardTraversal, BackwardTraversal
<1> DEFINE l == Listed(root[t], o)
<1>2. t \in Tree
  BY DEF IInv, TypeOK
<1>3. IsRun(l, DfsBegin(t, o), DfsLast(t, o), Steps(t, o)) /\ Increment(DfsLast(t, o), o) = Null
  BY <1>1, <1>2, TraversalIs
<1> HIDE DEF l
<1>4. /\ l \in Seq(Node) /\ Len(l) \in Nat \ {0} /\ DOMAIN l = 1..Len(l)
      /\ l[1] = DfsBegin(t, o) /\ l[Len(l)] = DfsLast(t, o)
      /\ \A i \in 1..(Len(l) - 1) : l[i + 1] \in Steps(t, o)[l[i]]
  BY <1>3 DEF IsRun
<1>5. ASSUME NEW i \in 1..(Len(l) - 1)
      PROVE  Increment(l[i], o) = l[i + 1] /\ Decrement(t, l[i + 1], o) = l[i]
  <2>1. i \in 1..Len(l)
    BY <1>4
  <2>2. l[i] \in Node
    BY <1>4, <2>1, ElementOfSeq
  <2> QED BY <2>2, <1>4 DEF Steps
<1>6. ASSUME NEW i \in DOMAIN l
      PROVE  Increment(l[i], o) = IF i = Len(l) THEN Null ELSE l[i + 1]
  <2>1. i # Len(l) => i \in 1..(Len(l) - 1)
    BY <1>4
  <2> QED BY <2>1, <1>3, <1>4, <1>5
<1>7. ASSUME NEW i \in 2..(Len(l) + 1)
      PROVE  Decrement(t, IF i > Len(l) THEN Null ELSE l[i], o) = l[i - 1]
  <2>1. CASE i > Len(l)
    <3>1. i - 1 = Len(l)
      BY <1>4, <2>1
    <3> QED BY <2>1, <3>1, <1>4 DEF Decrement
  <2>2. CASE ~(i > Len(l))
    <3>1. i - 1 \in 1..(Len(l) - 1) /\ (i - 1) + 1 = i
      BY <1>4, <2>2
    <3> QED BY <2>2, <3>1, <1>5
  <2> QED BY <2>1, <2>2
<1> QED BY <1>4, <1>6, <1>7 DEF l

(* From begin() by ++ and from end() by -- an iterator comes to every node *)
(* of its tree once, in the order asked for, whatever was done to the tree *)
(* before, and ++ of the last one is end(): the climbs of dfs_next and     *)
(* dfs_previous and the cached extrema they start from are enough.         *)
THEOREM IteratorsListEveryTree == ASSUME Wild = {} PROVE Spec => []IteratorsListTheTree
<1>1. Spec => []IInv
  BY TreesAreOwned
<1>2. Spec => []ExtremaAreExtreme
  BY ExtremaStayExtreme
<1>3. IInv /\ ExtremaAreExtreme => IteratorsListTheTree
  BY IteratorsAreRight
<1> QED BY <1>1, <1>2, <1>3, PTL
==============================================================================
