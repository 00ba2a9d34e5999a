----------------------------- MODULE LoopProofs ------------------------------
(***************************************************************************)
(* Proof that the loops of TreeLoops miss no node and come to none twice,  *)
(* for any set of nodes and of trees.  The order of a tree is a relation   *)
(* of its nodes, by what is below and what is left of what; the operations *)
(* of unsafe_tree.hpp keep it for the nodes that they do not move, and the *)
(* iterators go along it.                                                  *)
(***************************************************************************)
EXTENDS TreeLoops, TraversalProofs

-----------------------------------------------------------------------------
(* The order of the nodes of a tree.                                       *)

(* x is under one child of a node of X, and y under one further right.     *)
LeftOf(h, X, x, y) ==
    \E p \in X : \E i, j \in DOMAIN h[p].children :
        /\ i < j
        /\ x \in Subtree(h, h[p].children[i]) /\ y \in Subtree(h, h[p].children[j])

(* y is below x.                                                           *)
Beneath(h, x, y) == y # x /\ y \in Subtree(h, x)

(* Where the order o has x before y.                                       *)
Comes(h, X, o, x, y) ==
    \/ IF o = "pre" THEN Beneath(h, x, y) ELSE Beneath(h, y, x)
    \/ LeftOf(h, X, x, y)

(* The nodes that come after x.                                            *)
Later(h, X, o) == [x \in Node |-> {y \in Node : Comes(h, X, o, x, y)}]

(* No node of list l comes before an earlier one.                          *)
IsOrdered(l, L) ==
    l \in Seq(Node) /\ \A i, j \in 1..Len(l) : i < j => l[j] \in L[l[i]]

(* A list ordered, followed by an ordered list of nodes that all come      *)
(* later, is ordered.                                                      *)
LEMMA OrderedConcat ==
    ASSUME NEW L, NEW k, NEW l, IsOrdered(k, L), IsOrdered(l, L),
           \A a \in ToSet(k), b \in ToSet(l) : b \in L[a]
    PROVE  IsOrdered(k \o l, L)
<1> DEFINE kl == k \o l
           m == Len(k)
           n == Len(l)
<1>1. k \in Seq(Node) /\ l \in Seq(Node)
  BY DEF IsOrdered
<1>2. /\ kl \in Seq(Node) /\ Len(kl) = m + n /\ m \in Nat /\ n \in Nat
      /\ \A i \in 1..(m + n) : kl[i] = IF i <= m THEN k[i] ELSE l[i - m]
  BY <1>1, ConcatIs
<1>3. (\A i \in 1..m : k[i] \in ToSet(k)) /\ \A i \in 1..n : l[i] \in ToSet(l)
  BY <1>1, InList
<1> HIDE DEF kl, m, n
<1>4. ASSUME NEW i \in 1..(m + n), NEW j \in 1..(m + n), i < j PROVE kl[j] \in L[kl[i]]
  <2>1. CASE j <= m
    <3>1. i \in 1..m /\ j \in 1..m /\ i <= m
      BY <1>2, <1>4, <2>1
    <3> QED BY <3>1, <2>1, <1>2, <1>4 DEF IsOrdered, m
  <2>2. CASE i <= m /\ ~(j <= m)
    <3>1. i \in 1..m /\ j - m \in 1..n
      BY <1>2, <1>4, <2>2
    <3> QED BY <3>1, <2>2, <1>2, <1>3, <1>4
  <2>3. CASE ~(i <= m) /\ ~(j <= m)
    <3>1. i - m \in 1..n /\ j - m \in 1..n /\ i - m < j - m
      BY <1>2, <1>4, <2>3
    <3> QED BY <3>1, <2>3, <1>2, <1>4 DEF IsOrdered, n
  <2> QED BY <2>1, <2>2, <2>3, <1>2, <1>4
<1> QED BY <1>2, <1>4 DEF IsOrdered, kl

(* So are the ordered lists of the nodes of q one after another, when all  *)
(* of one list come before all of the next.                                *)
LEMMA OrderedFlat ==
    ASSUME NEW L, NEW f \in [Node -> Seq(Node)], NEW q \in Seq(Node),
           \A i \in 1..Len(q) : IsOrdered(f[q[i]], L),
           \A i, j \in 1..Len(q) : i < j =>
             \A a \in ToSet(f[q[i]]), b \in ToSet(f[q[j]]) : b \in L[a]
    PROVE  IsOrdered(Flat(f, q), L)
<1> DEFINE n == Len(q)
<1>1. n \in Nat /\ \A i \in 1..n : q[i] \in Node
  BY LenProperties, ElementOfSeq
<1>2. PICK F : IsFlat(F, Node, f, q) /\ F[n] = Flat(f, q)
  BY FlatIs
<1>3. F \in [0..n -> Seq(Node)] /\ F[0] = <<>> /\ \A k \in 1..n : F[k] = F[k - 1] \o f[q[k]]
  BY <1>2 DEF IsFlat
<1> DEFINE From(k) == \A x \in ToSet(F[k]) : \E i \in 1..k : x \in ToSet(f[q[i]])
           T == {k \in Nat : k <= n => IsOrdered(F[k], L) /\ From(k)}
<1>4. 0 \in T
  <2>1. F[0] = <<>> /\ <<>> \in Seq(Node) /\ Len(<<>>) = 0 /\ ToSet(<<>>) = {}
    BY <1>3 DEF ToSet
  <2>2. 1..0 = {}
    OBVIOUS
  <2>3. IsOrdered(F[0], L) /\ From(0)
    BY <2>1, <2>2 DEF IsOrdered
  <2> QED BY <2>3
<1>5. ASSUME NEW k \in Nat, k \in T PROVE k + 1 \in T
  <2>1. SUFFICES ASSUME k + 1 <= n PROVE IsOrdered(F[k + 1], L) /\ From(k + 1)
    OBVIOUS
  <2>2. k \in 0..n /\ k + 1 \in 1..n /\ (k + 1) - 1 = k /\ k <= n
    BY <1>1, <2>1
  <2>3. PICK u, v : u = F[k] /\ v = f[q[k + 1]]
    OBVIOUS
  <2>4. u \in Seq(Node) /\ v \in Seq(Node) /\ F[k + 1] = u \o v
    BY <1>1, <1>3, <2>2, <2>3
  <2>5. IsOrdered(u, L) /\ From(k)
    BY <1>5, <2>2, <2>3
  <2>6. IsOrdered(v, L)
    BY <2>2, <2>3
  <2>7. ASSUME NEW a \in ToSet(u), NEW b \in ToSet(v) PROVE b \in L[a]
    <3>1. PICK i \in 1..k : a \in ToSet(f[q[i]])
      BY <2>3, <2>5, <2>7
    <3>2. i \in 1..n /\ i < k + 1
      BY <1>1, <2>2
    <3> QED BY <2>2, <2>3, <3>1, <3>2
  <2>8. IsOrdered(u \o v, L)
    BY <2>5, <2>6, <2>7, OrderedConcat
  <2>9. ToSet(u \o v) = ToSet(u) \union ToSet(v)
    BY <2>4, InConcat
  <2>10. ASSUME NEW x \in ToSet(F[k + 1]) PROVE \E i \in 1..(k + 1) : x \in ToSet(f[q[i]])
    <3>1. x \in ToSet(u) \/ x \in ToSet(v)
      BY <2>4, <2>9, <2>10
    <3>2. CASE x \in ToSet(u)
      <4>1. PICK i \in 1..k : x \in ToSet(f[q[i]])
        BY <2>3, <2>5, <3>2
      <4>2. i \in 1..(k + 1)
        BY <2>2
      <4> QED BY <4>1, <4>2
    <3>3. CASE x \in ToSet(v)
      <4>1. k + 1 \in 1..(k + 1)
        BY <2>2
      <4> QED BY <2>3, <3>3, <4>1
    <3> QED BY <3>1, <3>2, <3>3
  <2> QED BY <2>4, <2>8, <2>10
<1>6. Nat \subseteq T
  <2> HIDE DEF T
  <2> QED BY <1>4, <1>5, SetInduction
<1>7. n \in T
  <2> HIDE DEF T
  <2> QED BY <1>1, <1>6
<1> QED BY <1>1, <1>2, <1>7

-----------------------------------------------------------------------------
(* What the tree says of a child: its place, its parent, and that it is no *)
(* ancestor of its parent.                                                 *)
LEMMA ChildIn ==
    ASSUME NEW h \in Heap, NEW X, NEW r, IsTree(h, X, r), NEW p \in X,
           NEW i \in DOMAIN h[p].children
    PROVE  LET c == h[p].children[i]
           IN  /\ c \in X /\ c # r /\ h[c].parent = p /\ p \in Node /\ c \in Node
               /\ c \in Children(h, p)
               /\ Subtree(h, c) \subseteq Subtree(h, p) /\ p \notin Subtree(h, c)
<1> DEFINE c == h[p].children[i]
<1>1. p \in Node /\ X \subseteq Node /\ c \in X /\ h[c].parent = p
  BY TreeClosed DEF IsTree
<1>2. c # r
  BY <1>1, NodeAssumption DEF IsTree
<1>3. c \in Children(h, p)
  BY <1>1, InChildren
<1>4. p \notin Subtree(h, c)
  BY <1>1, <1>2, ParentIsOutside
<1>5. Subtree(h, c) \subseteq Subtree(h, p)
  <2>1. \A x : x \in Subtree(h, c) => x \in Subtree(h, p)
    BY <1>3, SubtreeSplits
  <2> QED BY <2>1
<1> QED BY <1>1, <1>2, <1>3, <1>4, <1>5

(* The subtree of a node below m is within that of m.                      *)
LEMMA SubtreeWithin ==
    ASSUME NEW h \in Heap, NEW X, NEW r, IsTree(h, X, r), NEW m \in X, NEW n \in Subtree(h, m)
    PROVE  Subtree(h, n) \subseteq Subtree(h, m) /\ n \in X
<1>1. m \in Node /\ Subtree(h, m) \subseteq X /\ X \subseteq Node
  BY SubtreeParents DEF IsTree
<1>2. \A k \in Subtree(h, m) \intersect Node : Children(h, k) \subseteq Subtree(h, m)
  BY SubtreeParents
<1>3. n \in Node /\ n \in X
  BY <1>1
<1> QED BY <1>2, <1>3, SubtreeLeast

(* Of two nodes at most one is below the other.                            *)
LEMMA BelowOneWay ==
    ASSUME NEW h \in Heap, NEW X, NEW r, IsTree(h, X, r), NEW x \in X, NEW y \in X,
           y \in Subtree(h, x), x \in Subtree(h, y)
    PROVE  x = y
<1>1. SUFFICES ASSUME x # y PROVE FALSE
  OBVIOUS
<1>2. PICK c \in Children(h, x) : y \in Subtree(h, c)
  BY <1>1, SubtreeSplits
<1>3. PICK i \in DOMAIN h[x].children : h[x].children[i] = c
  BY <1>2, InChildren DEF IsTree
<1>4. c \in X /\ x \notin Subtree(h, c)
  BY <1>3, ChildIn
<1> QED BY <1>2, <1>4, SubtreeWithin

(* Of two nodes at most one comes before the other, and none before        *)
(* itself.                                                                 *)
LEMMA ComesOneWay ==
    ASSUME NEW h \in Heap, NEW X, NEW r, IsTree(h, X, r), NEW o \in Order, NEW x \in X, NEW y \in X,
           Comes(h, X, o, x, y)
    PROVE  x # y /\ ~Comes(h, X, o, y, x)
<1>1. ASSUME NEW a \in X, NEW b \in X, LeftOf(h, X, a, b)
      PROVE  ~(b \in Subtree(h, a)) /\ ~(a \in Subtree(h, b))
  <2>0. PICK p \in X : \E i, j \in DOMAIN h[p].children :
           /\ i < j /\ a \in Subtree(h, h[p].children[i]) /\ b \in Subtree(h, h[p].children[j])
    BY <1>1 DEF LeftOf
  <2>1. PICK i \in DOMAIN h[p].children, j \in DOMAIN h[p].children :
           /\ i < j /\ a \in Subtree(h, h[p].children[i]) /\ b \in Subtree(h, h[p].children[j])
    BY <2>0
  <2>2. i # j
    BY <2>1, HeapFields DEF IsTree
  <2>3. h[p].children[i] \in X /\ h[p].children[j] \in X
    BY ChildIn
  <2>4. Subtree(h, h[p].children[i]) \intersect Subtree(h, h[p].children[j]) = {}
    BY <2>2, SiblingsAreApart
  <2> QED BY <2>1, <2>3, <2>4, SubtreeWithin
<1>2. ASSUME LeftOf(h, X, x, y), LeftOf(h, X, y, x) PROVE FALSE
  <2>0. PICK p \in X : \E i, j \in DOMAIN h[p].children :
           /\ i < j /\ x \in Subtree(h, h[p].children[i]) /\ y \in Subtree(h, h[p].children[j])
    BY <1>2 DEF LeftOf
  <2>1. PICK i \in DOMAIN h[p].children, j \in DOMAIN h[p].children :
           /\ i < j /\ x \in Subtree(h, h[p].children[i]) /\ y \in Subtree(h, h[p].children[j])
    BY <2>0
  <2>a. PICK s \in X : \E k, m \in DOMAIN h[s].children :
           /\ k < m /\ y \in Subtree(h, h[s].children[k]) /\ x \in Subtree(h, h[s].children[m])
    BY <1>2 DEF LeftOf
  <2>2. PICK k \in DOMAIN h[s].children, m \in DOMAIN h[s].children :
           /\ k < m /\ y \in Subtree(h, h[s].children[k]) /\ x \in Subtree(h, h[s].children[m])
    BY <2>a
  <2>3. DOMAIN h[p].children = 1..Len(h[p].children) /\ DOMAIN h[s].children = 1..Len(h[s].children)
        /\ Len(h[p].children) \in Nat /\ Len(h[s].children) \in Nat
    BY HeapFields DEF IsTree
  <2>4. ASSUME NEW a \in X, NEW b \in X,
               NEW ai \in DOMAIN h[a].children, NEW aj \in DOMAIN h[a].children, ai # aj,
               x \in Subtree(h, h[a].children[ai]), y \in Subtree(h, h[a].children[aj]),
               NEW bi \in DOMAIN h[b].children, NEW bj \in DOMAIN h[b].children, bi # bj,
               x \in Subtree(h, h[b].children[bi]), y \in Subtree(h, h[b].children[bj]),
               b \in Subtree(h, a)
        PROVE  a = b
    <3>1. SUFFICES ASSUME a # b PROVE FALSE
      OBVIOUS
    <3>2. PICK c \in Children(h, a) : b \in Subtree(h, c)
      BY <2>4, <3>1, SubtreeSplits
    <3>3. PICK l \in DOMAIN h[a].children : h[a].children[l] = c
      BY <3>2, InChildren DEF IsTree
    <3>4. c \in X
      BY <3>3, ChildIn
    <3>5. Subtree(h, b) \subseteq Subtree(h, c)
      BY <3>2, <3>4, SubtreeWithin
    <3>6. x \in Subtree(h, c) /\ y \in Subtree(h, c)
      BY <2>4, <3>5, ChildIn
    <3>7. l = ai
      BY <2>4, <3>3, <3>6, SiblingsAreApart
    <3>8. l = aj
      BY <2>4, <3>3, <3>6, SiblingsAreApart
    <3> QED BY <2>4, <3>7, <3>8
  <2>5. i # j /\ k # m
    BY <2>1, <2>2, <2>3
  <2>6. x \in Subtree(h, p) /\ x \in Subtree(h, s)
    BY <2>1, <2>2, ChildIn
  <2>7. p \in Subtree(h, s) \/ s \in Subtree(h, p)
    BY <2>6, SubtreesNest
  <2>8. p = s
    BY <2>1, <2>2, <2>4, <2>5, <2>7
  <2>9. i = m
    BY <2>1, <2>2, <2>8, SiblingsAreApart
  <2>10. j = k
    BY <2>1, <2>2, <2>8, SiblingsAreApart
  <2> QED BY <2>1, <2>2, <2>3, <2>8, <2>9, <2>10
<1>3. x \in Subtree(h, x)
  BY SubtreeParents
<1>4. ~LeftOf(h, X, x, x)
  BY <1>1, <1>3
<1>5. x # y
  BY <1>4 DEF Comes, Beneath
<1>6. ASSUME Beneath(h, x, y), Beneath(h, y, x) PROVE FALSE
  BY <1>6, BelowOneWay DEF Beneath
<1> QED BY <1>1, <1>2, <1>5, <1>6 DEF Comes, Beneath

(* Later, unfolded.                                                        *)
LEMMA LaterIs ==
    ASSUME NEW h, NEW X, NEW o, NEW x \in Node, NEW y \in Node
    PROVE  y \in Later(h, X, o)[x] <=> Comes(h, X, o, x, y)
BY DEF Later

(* The list of the nodes of a subtree by its definition is in the order    *)
(* asked for.                                                              *)
LEMMA RowIsOrdered ==
    ASSUME NEW h \in Heap, NEW X, NEW r, IsTree(h, X, r), NEW o \in Order, NEW n \in X
    PROVE  LET l == WalkRow(h, o, 0)[n]
           IN  IsOrdered(l, Later(h, X, o)) /\ ToSet(l) = Subtree(h, n)
<1> DEFINE L == Later(h, X, o)
           Good(m, d) == /\ IsOrdered(WalkRow(h, o, d)[m], L)
                         /\ ToSet(WalkRow(h, o, d)[m]) = Subtree(h, m)
           T == {m \in X : \A d : Fits(h, m, d) => Good(m, d)}
<1>1. X \subseteq Node
  BY DEF IsTree
<1>2. ASSUME NEW m \in X, Children(h, m) \subseteq T PROVE m \in T
  <2>1. SUFFICES ASSUME NEW d, Fits(h, m, d) PROVE Good(m, d)
    OBVIOUS
  <2> DEFINE q == h[m].children
             f == WalkRow(h, o, d + 1)
             kids == Flat(f, q)
  <2>2. /\ d \in 0..NodeCount /\ d # NodeCount /\ d + 1 \in 0..NodeCount
        /\ \A c \in Children(h, m) : Fits(h, c, d + 1)
    <3>1. d \in 0..(NodeCount - 1) /\ d + 1 \in 0..NodeCount
      BY <2>1, FitsIs
    <3>2. d \in 0..NodeCount /\ d # NodeCount
      BY <3>1, NodeCountType
    <3> QED BY <2>1, <3>1, <3>2, FitsIs
  <2>3. m \in Node /\ q \in Seq(Node) /\ DOMAIN q = 1..Len(q) /\ Len(q) \in Nat
    BY <1>1, HeapFields
  <2>4. f \in [Node -> Seq(Node)] /\ kids \in Seq(Node)
        /\ WalkRow(h, o, d)[m] = WalkStep(o, m, kids)
    BY <2>2, <2>3, WalkRowIs
  <2>5. \A i \in 1..Len(q) : IsOrdered(f[q[i]], L) /\ ToSet(f[q[i]]) = Subtree(h, q[i])
    <3> TAKE i \in 1..Len(q)
    <3>1. q[i] \in Children(h, m)
      BY <2>3, InChildren
    <3> HIDE DEF L
    <3> QED BY <3>1, <2>2, <1>2
  <2>6. \A i, j \in 1..Len(q) : i < j =>
          \A a \in ToSet(f[q[i]]), b \in ToSet(f[q[j]]) : b \in L[a]
    <3> SUFFICES ASSUME NEW i \in 1..Len(q), NEW j \in 1..Len(q), i < j,
                        NEW a \in Subtree(h, q[i]), NEW b \in Subtree(h, q[j])
                 PROVE  b \in L[a]
      BY <2>5
    <3>1. i \in DOMAIN q /\ j \in DOMAIN q
      BY <2>3
    <3>2. q[i] \in Node /\ q[j] \in Node
      BY <2>3, ElementOfSeq
    <3>3. a \in Node /\ b \in Node
      BY <3>2, SubtreeIn
    <3>4. LeftOf(h, X, a, b)
      BY <3>1 DEF LeftOf
    <3> QED BY <3>3, <3>4, LaterIs DEF Comes
  <2> HIDE DEF f, kids, L, q
  <2>7. IsOrdered(kids, L)
    BY <2>3, <2>4, <2>5, <2>6, OrderedFlat DEF kids
  <2>8. \A x : x \in ToSet(kids) <=> \E i \in 1..Len(q) : x \in Subtree(h, q[i])
    <3>1. \A x : x \in ToSet(kids) <=> \E i \in 1..Len(q) : x \in ToSet(f[q[i]])
      BY <2>3, <2>4, InFlat DEF kids
    <3> QED BY <3>1, <2>5
  <2>9. \A x : x \in Subtree(h, m) <=> x = m \/ x \in ToSet(kids)
    <3>1. \A c : c \in Children(h, m) <=> \E i \in 1..Len(q) : q[i] = c
      BY <2>3, InChildren DEF q
    <3> QED BY <2>8, <3>1, SubtreeSplits
  <2>10. m \notin ToSet(kids)
    <3>1. SUFFICES ASSUME NEW i \in 1..Len(q), m \in Subtree(h, q[i]) PROVE FALSE
      BY <2>8
    <3> QED BY <2>3, <3>1, ChildIn DEF q
  <2>11. ToSet(kids) \subseteq Node
    BY <2>4, InList
  <2>12. IsOrdered(<<m>>, L) /\ <<m>> \in Seq(Node) /\ ToSet(<<m>>) = {m}
    <3>1. <<m>> \in Seq(Node) /\ Len(<<m>>) = 1 /\ \A i, j \in 1..1 : ~(i < j)
      BY <2>3
    <3>2. ToSet(<<m>>) = {m}
      BY DEF ToSet
    <3> QED BY <3>1, <3>2 DEF IsOrdered
  <2>13. PICK u : u = <<m>>
    OBVIOUS
  <2>14. CASE o = "pre"
    <3>1. \A a \in ToSet(u), b \in ToSet(kids) : b \in L[a]
      BY <2>3, <2>9, <2>10, <2>11, <2>12, <2>13, <2>14, LaterIs DEF Comes, Beneath, L
    <3>2. IsOrdered(u \o kids, L)
      BY <3>1, <2>7, <2>12, <2>13, OrderedConcat
    <3>3. ToSet(u \o kids) = Subtree(h, m)
      <4>1. u \in Seq(Node) /\ ToSet(u) = {m}
        BY <2>12, <2>13
      <4>2. ToSet(u \o kids) = ToSet(u) \union ToSet(kids)
        BY <4>1, <2>4, InConcat
      <4> QED BY <4>1, <4>2, <2>9
    <3>4. WalkRow(h, o, d)[m] = u \o kids
      BY <2>4, <2>13, <2>14 DEF WalkStep
    <3> QED BY <3>2, <3>3, <3>4 DEF L
  <2>15. CASE o # "pre"
    <3>1. \A a \in ToSet(kids), b \in ToSet(u) : b \in L[a]
      BY <2>3, <2>9, <2>10, <2>11, <2>12, <2>13, <2>15, LaterIs DEF Comes, Beneath, L
    <3>2. IsOrdered(kids \o u, L)
      BY <3>1, <2>7, <2>12, <2>13, OrderedConcat
    <3>3. ToSet(kids \o u) = Subtree(h, m)
      <4>1. u \in Seq(Node) /\ ToSet(u) = {m}
        BY <2>12, <2>13
      <4>2. ToSet(kids \o u) = ToSet(kids) \union ToSet(u)
        BY <4>1, <2>4, InConcat
      <4> QED BY <4>1, <4>2, <2>9
    <3>4. WalkRow(h, o, d)[m] = kids \o u
      BY <2>4, <2>13, <2>15 DEF WalkStep
    <3> QED BY <3>2, <3>3, <3>4 DEF L
  <2> QED BY <2>14, <2>15
<1>3. X \subseteq T
  <2> HIDE DEF T
  <2> QED BY <1>2, TreeInduction
<1>4. Fits(h, n, 0)
  BY FitsIs
<1> QED BY <1>3, <1>4

-----------------------------------------------------------------------------
(* List l has the nodes of tree t in order o, and the iterators go along   *)
(* it both ways.                                                           *)
IsWalk(l, t, o) ==
    /\ Len(l) \in Nat \ {0}
    /\ \A x : x \in Nodes(t) <=> \E i \in 1..Len(l) : l[i] = x
    /\ \A i, j \in 1..Len(l) : l[j] \in Later(heap, Nodes(t), o)[l[i]] <=> i < j
    /\ DfsBegin(t, o) = l[1]
    /\ \A i \in 1..(Len(l) - 1) : Increment(l[i], o) = l[i + 1] /\ Decrement(t, l[i + 1], o) = l[i]
    /\ Increment(l[Len(l)], o) = Null /\ Decrement(t, Null, o) = l[Len(l)]

(* Every tree that is not empty has such a list: an order of its nodes by  *)
(* where they hang, which ++ and -- follow.                                *)
LEMMA WalkIs ==
    ASSUME IInv, ExtremaAreExtreme, NEW t \in Tree, NEW o \in Order, root[t] # Null
    PROVE  \E l : IsWalk(l, t, o)
<1> DEFINE l == Listed(root[t], o)
           X == Nodes(t)
           r == root[t]
           L == Later(heap, X, o)
<1>1. heap \in Heap /\ X \subseteq Node /\ IsTree(heap, X, r)
  BY LiveIs
<1>2. r \in X /\ r \in Node /\ X = Subtree(heap, r)
  BY <1>1 DEF IsTree
<1>3. IsRun(l, DfsBegin(t, o), DfsLast(t, o), Steps(t, o)) /\ Increment(DfsLast(t, o), o) = Null
  BY TraversalIs
<1>4. IsOrdered(l, L) /\ ToSet(l) = X
  BY <1>1, <1>2, ListedIs, RowIsOrdered
<1> HIDE DEF l
<1>5. /\ l \in Seq(Node) /\ Len(l) \in Nat \ {0}
      /\ l[1] = DfsBegin(t, o) /\ l[Len(l)] = DfsLast(t, o)
      /\ \A i \in 1..(Len(l) - 1) : l[i + 1] \in Steps(t, o)[l[i]]
  BY <1>3 DEF IsRun
<1>6. \A x : x \in X <=> \E i \in 1..Len(l) : l[i] = x
  BY <1>4, <1>5, InList
<1>7. ASSUME NEW i \in 1..Len(l), NEW j \in 1..Len(l)
      PROVE  l[j] \in L[l[i]] <=> i < j
  <2>1. l[i] \in X /\ l[j] \in X /\ l[i] \in Node /\ l[j] \in Node
    BY <1>1, <1>6
  <2>2. ASSUME NEW a \in 1..Len(l), NEW b \in 1..Len(l), a < b
        PROVE  Comes(heap, X, o, l[a], l[b])
    <3>1. l[b] \in L[l[a]] /\ l[a] \in Node /\ l[b] \in Node
      BY <1>1, <1>4, <1>6, <2>2 DEF IsOrdered
    <3> QED BY <3>1, LaterIs
  <2>3. ASSUME NEW a \in X, NEW b \in X, Comes(heap, X, o, a, b)
        PROVE  a # b /\ ~Comes(heap, X, o, b, a)
    BY <1>1, <2>3, ComesOneWay
  <2>4. i < j \/ i = j \/ j < i
    BY <1>5
  <2>5. Comes(heap, X, o, l[i], l[j]) <=> i < j
    <3>1. CASE i < j
      BY <2>2, <3>1
    <3>2. CASE i = j
      BY <2>1, <2>3, <3>2, <1>5
    <3>3. CASE j < i
      BY <2>1, <2>2, <2>3, <3>3, <1>5
    <3> QED BY <2>4, <3>1, <3>2, <3>3
  <2> QED BY <2>1, <2>5, LaterIs
<1>8. ASSUME NEW i \in 1..(Len(l) - 1)
      PROVE  Increment(l[i], o) = l[i + 1] /\ Decrement(t, l[i + 1], o) = l[i]
  <2>1. i \in 1..Len(l)
    BY <1>5
  <2>2. l[i] \in Node
    BY <1>5, <2>1, ElementOfSeq
  <2> QED BY <2>2, <1>5 DEF Steps
<1>9. Increment(l[Len(l)], o) = Null /\ Decrement(t, Null, o) = l[Len(l)]
  BY <1>3, <1>5 DEF Decrement
<1> QED BY <1>5, <1>6, <1>7, <1>8, <1>9 DEF IsWalk

-----------------------------------------------------------------------------
(* Steps of a heap that keep the order.                                    *)

(* The nodes of K stay in order when the tree X of h becomes Y of g.       *)
OrderStays(h, X, g, Y, K) ==
    \A o \in Order, x, y \in K : Comes(h, X, o, x, y) => Comes(g, Y, o, x, y)

(* Order stays when what is below a node, and what is left of it, stays    *)
(* so.                                                                     *)
LEMMA StaysWhen ==
    ASSUME NEW h, NEW X, NEW g, NEW Y, NEW K,
           \A x, y \in K : y \in Subtree(h, x) => y \in Subtree(g, x),
           \A x, y \in K : LeftOf(h, X, x, y) => LeftOf(g, Y, x, y)
    PROVE  OrderStays(h, X, g, Y, K)
BY DEF OrderStays, Comes, Beneath

(* Children are added at the ends of vectors, or nothing changes.          *)
LEMMA GrowingStays ==
    ASSUME NEW h \in Heap, NEW g \in Heap, NEW X, NEW r, IsTree(h, X, r), NEW Y, X \subseteq Y,
           \A m \in X : \A i \in DOMAIN h[m].children :
             i \in DOMAIN g[m].children /\ g[m].children[i] = h[m].children[i]
    PROVE  OrderStays(h, X, g, Y, X)
<1>0. X \subseteq Node
  BY DEF IsTree
<1>1. ASSUME NEW x \in X PROVE Subtree(h, x) \subseteq Subtree(g, x)
  <2> DEFINE Z == Subtree(g, x) \intersect X
  <2>1. x \in Node /\ x \in Z
    BY <1>0, SubtreeIn
  <2>2. ASSUME NEW m \in Z, NEW c \in Children(h, m) PROVE c \in Z
    <3>1. m \in Node /\ m \in X /\ m \in Subtree(g, x)
      BY <1>0
    <3>2. PICK i \in DOMAIN h[m].children : h[m].children[i] = c
      BY <2>2, <3>1, InChildren
    <3>3. c \in Children(g, m)
      BY <3>1, <3>2, InChildren
    <3>4. c \in X
      BY <3>1, <3>2, TreeClosed
    <3> QED BY <2>1, <3>1, <3>3, <3>4, SubtreeClosed
  <2>3. Subtree(h, x) \subseteq Z
    <3> HIDE DEF Z
    <3> QED BY <2>1, <2>2, SubtreeLeast
  <2> QED BY <2>3
<1>2. ASSUME NEW x \in X, NEW y \in X, LeftOf(h, X, x, y) PROVE LeftOf(g, Y, x, y)
  <2>1. PICK p \in X : \E i, j \in DOMAIN h[p].children :
           /\ i < j /\ x \in Subtree(h, h[p].children[i]) /\ y \in Subtree(h, h[p].children[j])
    BY <1>2 DEF LeftOf
  <2>2. PICK i \in DOMAIN h[p].children, j \in DOMAIN h[p].children :
           /\ i < j /\ x \in Subtree(h, h[p].children[i]) /\ y \in Subtree(h, h[p].children[j])
    BY <2>1
  <2>3. h[p].children[i] \in X /\ h[p].children[j] \in X
    BY TreeClosed
  <2>4. /\ i \in DOMAIN g[p].children /\ g[p].children[i] = h[p].children[i]
        /\ j \in DOMAIN g[p].children /\ g[p].children[j] = h[p].children[j]
    OBVIOUS
  <2>5. x \in Subtree(g, g[p].children[i]) /\ y \in Subtree(g, g[p].children[j])
    BY <1>1, <2>2, <2>3, <2>4
  <2> QED BY <2>2, <2>4, <2>5 DEF LeftOf
<1> QED BY <1>1, <1>2, StaysWhen

(* A subtree is taken out (remove_child): its right siblings move up by    *)
(* one, and the rest of the tree stays in order.                           *)
LEMMA RemovingStays ==
    ASSUME NEW h \in Heap, NEW g \in Heap, NEW X, NEW r, IsTree(h, X, r), NEW s \in X \ {r},
           NEW S, S = Subtree(h, s), NEW p, p = h[s].parent, NEW k, k = h[s].index + 1,
           \A m \in (X \ S) \ {p} : g[m].children = h[m].children,
           \A j \in DOMAIN h[p].children :
             /\ j < k => j \in DOMAIN g[p].children /\ g[p].children[j] = h[p].children[j]
             /\ j > k => /\ j - 1 \in DOMAIN g[p].children
                         /\ g[p].children[j - 1] = h[p].children[j]
    PROVE  OrderStays(h, X, g, X \ S, X \ S)
<1> DEFINE Y == X \ S
           q == h[p].children
<1>0. /\ X \subseteq Node /\ p \in Y /\ S \subseteq X /\ s \in S /\ s \in Node /\ p \in Node
      /\ \A m \in S : Children(h, m) \subseteq S
  BY ParentIsOutside, SubtreeParents DEF IsTree
<1>1. /\ k \in Nat /\ k \in DOMAIN q /\ q[k] = s
      /\ DOMAIN q = 1..Len(q) /\ Len(q) \in Nat
  BY <1>0, HeapFields DEF IsTree
<1>2. ASSUME NEW m \in Y, NEW i \in DOMAIN h[m].children, h[m].children[i] \notin S
      PROVE  /\ h[m].children[i] \in Y
             /\ \E l \in DOMAIN g[m].children : g[m].children[l] = h[m].children[i]
  <2>1. h[m].children[i] \in Y
    BY <1>2, TreeClosed
  <2>2. CASE m # p
    BY <2>1, <2>2
  <2>3. CASE m = p
    <3>1. i # k
      BY <1>0, <1>1, <1>2, <2>3
    <3>2. i < k \/ i > k
      BY <1>1, <2>3, <3>1
    <3> QED BY <2>1, <2>3, <3>2
  <2> QED BY <2>2, <2>3
<1>3. ASSUME NEW x \in Y PROVE Subtree(h, x) \subseteq Subtree(g, x) \union S
  <2> DEFINE Z == (Subtree(g, x) \intersect Y) \union S
  <2>1. x \in Node /\ x \in Z
    BY <1>0, SubtreeIn
  <2>2. ASSUME NEW m \in Z, NEW c \in Children(h, m) PROVE c \in Z
    <3>1. CASE m \in S
      BY <1>0, <2>2, <3>1
    <3>2. CASE m \notin S /\ c \notin S
      <4>1. m \in Node /\ m \in Y /\ m \in Subtree(g, x)
        BY <1>0, <3>2
      <4>2. PICK i \in DOMAIN h[m].children : h[m].children[i] = c
        BY <2>2, <4>1, InChildren
      <4>3. c \in Children(g, m) /\ c \in Y
        BY <1>2, <3>2, <4>1, <4>2, InChildren
      <4> QED BY <2>1, <4>1, <4>3, SubtreeClosed
    <3> QED BY <3>1, <3>2
  <2>3. Subtree(h, x) \subseteq Z
    <3> HIDE DEF Z
    <3> QED BY <2>1, <2>2, SubtreeLeast
  <2> QED BY <2>3
<1>4. ASSUME NEW x \in Y, NEW y \in Y, LeftOf(h, X, x, y) PROVE LeftOf(g, Y, x, y)
  <2>1. PICK a \in X : \E i, j \in DOMAIN h[a].children :
           /\ i < j /\ x \in Subtree(h, h[a].children[i]) /\ y \in Subtree(h, h[a].children[j])
    BY <1>4 DEF LeftOf
  <2>2. PICK i \in DOMAIN h[a].children, j \in DOMAIN h[a].children :
           /\ i < j /\ x \in Subtree(h, h[a].children[i]) /\ y \in Subtree(h, h[a].children[j])
    BY <2>1
  <2> DEFINE c == h[a].children[i]
             e == h[a].children[j]
  <2>3. c \in X /\ e \in X /\ a \in Node /\ c \in Children(h, a)
    BY ChildIn
  <2>4. c \notin S /\ e \notin S /\ a \notin S
    <3>1. c \notin S /\ e \notin S
      BY <1>4, <2>2, SubtreeWithin
    <3> QED BY <1>0, <2>3, <3>1
  <2>5. x \in Subtree(g, c) /\ y \in Subtree(g, e)
    BY <1>3, <1>4, <2>2, <2>3, <2>4
  <2>6. CASE a # p
    <3>1. g[a].children = h[a].children /\ a \in Y
      BY <2>4, <2>6
    <3> QED BY <2>2, <2>5, <3>1 DEF LeftOf
  <2>7. CASE a = p
    <3>1. i # k /\ j # k /\ i \in Nat /\ j \in Nat
      BY <1>0, <1>1, <2>4, <2>7
    <3> DEFINE to(l) == IF l < k THEN l ELSE l - 1
    <3>2. /\ to(i) \in DOMAIN g[p].children /\ g[p].children[to(i)] = c
          /\ to(j) \in DOMAIN g[p].children /\ g[p].children[to(j)] = e
      <4>1. (i < k \/ i > k) /\ (j < k \/ j > k)
        BY <1>1, <3>1
      <4> QED BY <2>7, <4>1, <1>1, <3>1
    <3>3. to(i) < to(j)
      BY <1>1, <2>2, <3>1
    <3> HIDE DEF to, c, e
    <3> QED BY <1>0, <2>5, <3>2, <3>3 DEF LeftOf
  <2> QED BY <2>6, <2>7
<1>5. \A x, y \in Y : y \in Subtree(h, x) => y \in Subtree(g, x)
  BY <1>3
<1> QED BY <1>4, <1>5, StaysWhen

(* In g the children vector of p has those of n, z of them, at n's place k. *)
TakesPlace(h, g, n, p, k, z) ==
    /\ \A j \in DOMAIN h[p].children :
         /\ j < k => j \in DOMAIN g[p].children /\ g[p].children[j] = h[p].children[j]
         /\ j > k => /\ (j + z) - 1 \in DOMAIN g[p].children
                     /\ g[p].children[(j + z) - 1] = h[p].children[j]
    /\ \A j \in 1..z : /\ (k + j) - 1 \in DOMAIN g[p].children
                       /\ g[p].children[(k + j) - 1] = h[n].children[j]

(* A node gives way to its children (merge_child): the right siblings move *)
(* by one less than their number, and all but that node stay in order.     *)
LEMMA MergingStays ==
    ASSUME NEW h \in Heap, NEW g \in Heap, NEW X, NEW r, IsTree(h, X, r), NEW n \in X \ {r},
           NEW p, p = h[n].parent, NEW k, k = h[n].index + 1,
           NEW z, z = Len(h[n].children),
           \A m \in X \ {n, p} : g[m].children = h[m].children,
           TakesPlace(h, g, n, p, k, z)
    PROVE  OrderStays(h, X, g, X \ {n}, X \ {n})
<1> DEFINE Y == X \ {n}
           q == h[p].children
           a == h[n].children
<1>0. X \subseteq Node /\ p \in Y /\ n \in Node /\ p \in Node
  <2>1. p \in X \ Subtree(h, n) /\ n \in Subtree(h, n)
    BY ParentIsOutside, SubtreeParents
  <2> QED BY <2>1 DEF IsTree
<1>1. /\ k \in Nat /\ k \in DOMAIN q /\ q[k] = n
      /\ DOMAIN q = 1..Len(q) /\ Len(q) \in Nat
      /\ DOMAIN a = 1..z /\ z \in Nat
  BY <1>0, HeapFields DEF IsTree
<1>2. ASSUME NEW m \in X, NEW i \in DOMAIN h[m].children, h[m].children[i] = n
      PROVE  m = p /\ i = k
  BY <1>1, <1>2 DEF IsTree
<1>3. ASSUME NEW m \in Y, NEW i \in DOMAIN h[m].children, h[m].children[i] # n
      PROVE  \E l \in DOMAIN g[m].children : g[m].children[l] = h[m].children[i]
  <2>1. CASE m # p
    BY <2>1
  <2>2. CASE m = p
    <3>1. i < k \/ i > k
      BY <1>1, <1>3, <2>2
    <3> QED BY <2>2, <3>1 DEF TakesPlace
  <2> QED BY <2>1, <2>2
<1>4. ASSUME NEW x \in Y PROVE Subtree(h, x) \subseteq Subtree(g, x) \union {n}
  <2> DEFINE Z == (Subtree(g, x) \intersect Y) \union {m \in {n} : p \in Subtree(g, x)}
  <2>1. x \in Node /\ x \in Z
    BY <1>0, SubtreeIn
  <2>2. ASSUME NEW m \in Z, NEW c \in Children(h, m) PROVE c \in Z
    <3>1. PICK i \in DOMAIN h[m].children : h[m].children[i] = c
      BY <1>0, <2>2, InChildren
    <3>2. m \in X /\ c \in X
      BY <3>1, <1>0, TreeClosed
    <3>3. CASE m = n
      <4>1. p \in Subtree(g, x) /\ i \in 1..z
        BY <2>2, <3>1, <3>3, <1>1
      <4>2. c \in Children(g, p)
        <5>1. (k + i) - 1 \in DOMAIN g[p].children /\ g[p].children[(k + i) - 1] = c
          BY <3>1, <3>3, <4>1 DEF TakesPlace
        <5> QED BY <1>0, <5>1, InChildren
      <4>3. c # n
        BY <1>0, <1>2, <3>1, <3>2, <3>3
      <4> QED BY <2>1, <3>2, <4>1, <4>2, <4>3, SubtreeClosed
    <3>4. CASE m # n /\ c # n
      <4>1. m \in Y /\ m \in Subtree(g, x) /\ m \in Node
        BY <1>0, <3>4
      <4>2. c \in Children(g, m)
        BY <1>3, <3>1, <3>4, <4>1, InChildren
      <4> QED BY <2>1, <3>2, <3>4, <4>1, <4>2, SubtreeClosed
    <3>5. CASE m # n /\ c = n
      <4>1. m = p /\ m \in Subtree(g, x)
        BY <1>2, <3>1, <3>2, <3>5
      <4> QED BY <3>5, <4>1
    <3> QED BY <3>3, <3>4, <3>5
  <2>3. Subtree(h, x) \subseteq Z
    <3> HIDE DEF Z
    <3> QED BY <2>1, <2>2, SubtreeLeast
  <2> QED BY <2>3
<1>5. ASSUME NEW c \in X, NEW y \in Y, y \in Subtree(h, c)
      PROVE  IF c # n THEN y \in Subtree(g, c)
             ELSE \E l \in 1..z : y \in Subtree(g, a[l])
  <2>1. CASE c # n
    BY <1>4, <1>5, <2>1
  <2>2. CASE c = n
    <3>1. PICK e \in Children(h, n) : y \in Subtree(h, e)
      BY <1>5, <2>2, SubtreeSplits
    <3>2. PICK l \in 1..z : a[l] = e
      BY <1>0, <1>1, <3>1, InChildren
    <3>3. e # n /\ e \in X
      BY <1>0, <1>1, <1>2, <3>2, TreeClosed
    <3> QED BY <1>4, <2>2, <3>1, <3>2, <3>3
  <2> QED BY <2>1, <2>2
<1>6. ASSUME NEW x \in Y, NEW y \in Y, LeftOf(h, X, x, y) PROVE LeftOf(g, Y, x, y)
  <2>1. PICK b \in X : \E i, j \in DOMAIN h[b].children :
           /\ i < j /\ x \in Subtree(h, h[b].children[i]) /\ y \in Subtree(h, h[b].children[j])
    BY <1>6 DEF LeftOf
  <2>2. PICK i \in DOMAIN h[b].children, j \in DOMAIN h[b].children :
           /\ i < j /\ x \in Subtree(h, h[b].children[i]) /\ y \in Subtree(h, h[b].children[j])
    BY <2>1
  <2> DEFINE c == h[b].children[i]
             e == h[b].children[j]
  <2>3. c \in X /\ e \in X
    BY TreeClosed
  <2>4. CASE b \notin {n, p}
    <3>1. g[b].children = h[b].children /\ b \in Y
      BY <2>4
    <3>2. c # n /\ e # n
      BY <1>2, <2>4
    <3>3. x \in Subtree(g, c) /\ y \in Subtree(g, e)
      BY <1>5, <2>2, <2>3, <3>2
    <3> QED BY <2>2, <3>1, <3>3 DEF LeftOf
  <2>5. CASE b = n
    <3>1. c # n /\ e # n
      BY <1>0, <1>2, <2>5
    <3>2. x \in Subtree(g, c) /\ y \in Subtree(g, e)
      BY <1>5, <2>2, <2>3, <3>1
    <3>3. i \in 1..z /\ j \in 1..z
      BY <1>1, <2>5
    <3>4. /\ (k + i) - 1 \in DOMAIN g[p].children /\ g[p].children[(k + i) - 1] = c
          /\ (k + j) - 1 \in DOMAIN g[p].children /\ g[p].children[(k + j) - 1] = e
      BY <2>5, <3>3 DEF TakesPlace
    <3>5. (k + i) - 1 < (k + j) - 1
      BY <1>1, <2>2, <3>3
    <3> HIDE DEF c, e
    <3> QED BY <1>0, <3>2, <3>4, <3>5 DEF LeftOf
  <2>6. CASE b = p
    <3>1. i \in Nat /\ j \in Nat /\ i \in DOMAIN q /\ j \in DOMAIN q
      BY <1>1, <2>6
    <3>2. \E l \in DOMAIN g[p].children :
             /\ x \in Subtree(g, g[p].children[l])
             /\ i < k => l = i
             /\ i = k => k <= l /\ l <= (k + z) - 1
             /\ i > k => l = (i + z) - 1
      <4>1. CASE i # k
        <5>1. c # n
          BY <1>2, <2>6, <4>1
        <5>2. x \in Subtree(g, c)
          BY <1>5, <2>2, <2>3, <5>1
        <5>3. i < k \/ i > k
          BY <1>1, <3>1, <4>1
        <5>4. CASE i < k
          <6>1. i \in DOMAIN g[p].children /\ g[p].children[i] = c
            BY <2>6, <3>1, <5>4 DEF TakesPlace
          <6> QED BY <5>2, <5>4, <6>1, <1>1, <3>1
        <5>5. CASE i > k
          <6>1. (i + z) - 1 \in DOMAIN g[p].children /\ g[p].children[(i + z) - 1] = c
            BY <2>6, <3>1, <5>5 DEF TakesPlace
          <6>2. ~(i < k) /\ i # k
            BY <1>1, <3>1, <5>5
          <6> QED BY <5>2, <5>5, <6>1, <6>2
        <5> QED BY <5>3, <5>4, <5>5
      <4>2. CASE i = k
        <5>1. c = n
          BY <1>1, <2>6, <4>2
        <5>2. PICK l \in 1..z : x \in Subtree(g, a[l])
          BY <1>5, <2>2, <2>3, <5>1
        <5>3. (k + l) - 1 \in DOMAIN g[p].children /\ g[p].children[(k + l) - 1] = a[l]
          BY DEF TakesPlace
        <5>4. k <= (k + l) - 1 /\ (k + l) - 1 <= (k + z) - 1
          BY <1>1
        <5>5. ~(i < k) /\ ~(i > k)
          BY <1>1, <4>2
        <5> QED BY <4>2, <5>2, <5>3, <5>4, <5>5
      <4> QED BY <4>1, <4>2
    <3>3. \E l \in DOMAIN g[p].children :
             /\ y \in Subtree(g, g[p].children[l])
             /\ j < k => l = j
             /\ j = k => k <= l /\ l <= (k + z) - 1
             /\ j > k => l = (j + z) - 1
      <4>1. CASE j # k
        <5>1. e # n
          BY <1>2, <2>6, <4>1
        <5>2. y \in Subtree(g, e)
          BY <1>5, <2>2, <2>3, <5>1
        <5>3. j < k \/ j > k
          BY <1>1, <3>1, <4>1
        <5>4. CASE j < k
          <6>1. j \in DOMAIN g[p].children /\ g[p].children[j] = e
            BY <2>6, <3>1, <5>4 DEF TakesPlace
          <6> QED BY <5>2, <5>4, <6>1, <1>1, <3>1
        <5>5. CASE j > k
          <6>1. (j + z) - 1 \in DOMAIN g[p].children /\ g[p].children[(j + z) - 1] = e
            BY <2>6, <3>1, <5>5 DEF TakesPlace
          <6>2. ~(j < k) /\ j # k
            BY <1>1, <3>1, <5>5
          <6> QED BY <5>2, <5>5, <6>1, <6>2
        <5> QED BY <5>3, <5>4, <5>5
      <4>2. CASE j = k
        <5>1. e = n
          BY <1>1, <2>6, <4>2
        <5>2. PICK l \in 1..z : y \in Subtree(g, a[l])
          BY <1>5, <2>2, <2>3, <5>1
        <5>3. (k + l) - 1 \in DOMAIN g[p].children /\ g[p].children[(k + l) - 1] = a[l]
          BY DEF TakesPlace
        <5>4. k <= (k + l) - 1 /\ (k + l) - 1 <= (k + z) - 1
          BY <1>1
        <5>5. ~(j < k) /\ ~(j > k)
          BY <1>1, <4>2
        <5> QED BY <4>2, <5>2, <5>3, <5>4, <5>5
      <4> QED BY <4>1, <4>2
    <3>4. PICK l \in DOMAIN g[p].children :
             /\ x \in Subtree(g, g[p].children[l])
             /\ i < k => l = i
             /\ i = k => k <= l /\ l <= (k + z) - 1
             /\ i > k => l = (i + z) - 1
      BY <3>2
    <3>5. PICK m \in DOMAIN g[p].children :
             /\ y \in Subtree(g, g[p].children[m])
             /\ j < k => m = j
             /\ j = k => k <= m /\ m <= (k + z) - 1
             /\ j > k => m = (j + z) - 1
      BY <3>3
    <3>6. l < m
      <4>1. l \in Nat /\ m \in Nat
        BY <1>0, HeapFields
      <4>2. i < j /\ k \in Nat /\ z \in Nat /\ i \in Nat /\ j \in Nat
        BY <1>1, <2>2, <3>1
      <4>3. /\ i < k => l = i
            /\ i = k => k <= l /\ l <= (k + z) - 1
            /\ i > k => l = (i + z) - 1
        BY <3>4
      <4>4. /\ j < k => m = j
            /\ j = k => k <= m /\ m <= (k + z) - 1
            /\ j > k => m = (j + z) - 1
        BY <3>5
      <4> QED BY <4>1, <4>2, <4>3, <4>4
    <3> QED BY <1>0, <3>4, <3>5, <3>6 DEF LeftOf
  <2> QED BY <2>4, <2>5, <2>6
<1>7. \A x, y \in Y : y \in Subtree(h, x) => y \in Subtree(g, x)
  BY <1>4
<1> QED BY <1>6, <1>7, StaysWhen

-----------------------------------------------------------------------------
(* Steps of the trees that keep the order.                                 *)

(* The nodes that stay in tree v, but for the ones moved, stay in order.   *)
Staying(v, moved) == (Nodes(v) \intersect Nodes(v)') \ moved

(* A step keeps the order of the nodes of tree v that stay in it.          *)
StaysFor(v, moved) == OrderStays(heap, Nodes(v), heap', Nodes(v)', Staying(v, moved))

(* Of no nodes there is nothing to keep.                                   *)
LEMMA NothingStays ==
    ASSUME NEW v, NEW moved, Staying(v, moved) = {} PROVE StaysFor(v, moved)
BY DEF StaysFor, OrderStays

(* A step that at most appends children to the nodes of v keeps its order  *)
(* ...                                                                     *)
LEMMA GrowthStays ==
    ASSUME IInv, IInv', NEW v \in Tree, NEW moved,
           \A m \in Nodes(v) : /\ m \in Nodes(v)'
                               /\ \A i \in DOMAIN heap[m].children :
                                    /\ i \in DOMAIN heap'[m].children
                                    /\ heap'[m].children[i] = heap[m].children[i]
    PROVE  StaysFor(v, moved)
<1>1. heap \in Heap /\ heap' \in Heap
  BY DEF IInv, TypeOK
<1>2. CASE root[v] = Null
  <2>1. Nodes(v) = {}
    BY <1>2, LiveIs
  <2> QED BY <2>1, NothingStays DEF Staying
<1>3. CASE root[v] # Null
  <2>1. IsTree(heap, Nodes(v), root[v])
    BY <1>3, LiveIs
  <2>2. Nodes(v) \subseteq Nodes(v)'
    OBVIOUS
  <2>3. OrderStays(heap, Nodes(v), heap', Nodes(v)', Nodes(v))
    <3> DEFINE X == Nodes(v)
               Y == Nodes(v)'
               h == heap
               g == heap'
    <3>1. h \in Heap /\ g \in Heap /\ IsTree(h, X, root[v]) /\ X \subseteq Y
      BY <1>1, <2>1, <2>2
    <3>2. \A m \in X : \A i \in DOMAIN h[m].children :
            i \in DOMAIN g[m].children /\ g[m].children[i] = h[m].children[i]
      OBVIOUS
    <3> HIDE DEF X, Y, h, g
    <3>3. OrderStays(h, X, g, Y, X)
      BY <3>1, <3>2, GrowingStays
    <3> QED BY <3>3 DEF X, Y, h, g
  <2> QED BY <2>3 DEF StaysFor, OrderStays, Staying
<1> QED BY <1>2, <1>3

(* ... one that leaves their children alone does ...                       *)
LEMMA SameStays ==
    ASSUME IInv, IInv', NEW v \in Tree, NEW moved,
           \A m \in Nodes(v) : store'[m] = v /\ heap'[m].children = heap[m].children
    PROVE  StaysFor(v, moved)
<1>1. \A m \in Nodes(v) : m \in Nodes(v)'
  BY DEF Nodes
<1> QED BY <1>1, GrowthStays

(* ... and so do the operations: a new tree, ...                           *)
LEMMA ConstructStays ==
    ASSUME IInv, IInv', NEW v \in Tree, NEW moved, UNCHANGED <<heap, store>>
    PROVE  StaysFor(v, moved)
<1>1. \A m \in Nodes(v) : store'[m] = v /\ heap'[m].children = heap[m].children
  BY DEF Nodes
<1> QED BY <1>1, SameStays

(* ... clear and the destructor, ...                                       *)
LEMMA EmptyStays ==
    ASSUME IInv, IInv', NEW v \in Tree, NEW moved, NEW t \in Tree, Destroyed(Nodes(t))
    PROVE  StaysFor(v, moved)
<1>1. CASE v = t
  <2>1. \A m \in Nodes(v) : store'[m] # v
    BY <1>1, TreeAssumption DEF Destroyed, Give, Nodes
  <2>2. Staying(v, moved) = {}
    BY <2>1 DEF Staying, Nodes
  <2> QED BY <2>2, NothingStays
<1>2. CASE v # t
  <2>1. \A m \in Nodes(v) : store'[m] = v /\ heap'[m] = heap[m]
    BY <1>2 DEF Destroyed, Give, Nodes, Free
  <2> QED BY <2>1, SameStays
<1> QED BY <1>1, <1>2

(* ... the moves, which take a tree's nodes along, ...                     *)
LEMMA StealStays ==
    ASSUME IInv, IInv', NEW v \in Tree, NEW moved, NEW t \in Tree, NEW u \in Tree, t # u,
           Steal(t, u)
    PROVE  StaysFor(v, moved)
<1>1. CASE v \in {t, u}
  <2>1. \A m \in Nodes(v) : store'[m] # v
    BY <1>1, TreeAssumption DEF Steal, Nodes
  <2>2. Staying(v, moved) = {}
    BY <2>1 DEF Staying, Nodes
  <2> QED BY <2>2, NothingStays
<1>2. CASE v \notin {t, u}
  <2>1. \A m \in Nodes(v) : store'[m] = v /\ heap'[m] = heap[m]
    BY <1>2 DEF Steal, Nodes, Free
  <2> QED BY <2>1, SameStays
<1> QED BY <1>1, <1>2

(* ... swap, ...                                                           *)
LEMMA SwapStays ==
    ASSUME IInv, IInv', NEW v \in Tree, NEW moved, NEW t \in Tree, NEW u \in Tree, Swap(t, u)
    PROVE  StaysFor(v, moved)
<1>1. CASE v \in {t, u}
  <2>1. \A m \in Nodes(v) : store'[m] # v
    BY <1>1 DEF Swap, Nodes
  <2>2. Staying(v, moved) = {}
    BY <2>1 DEF Staying, Nodes
  <2> QED BY <2>2, NothingStays
<1>2. CASE v \notin {t, u}
  <2>1. \A m \in Nodes(v) : store'[m] = v /\ heap'[m] = heap[m]
    BY <1>2 DEF Swap, Nodes
  <2> QED BY <2>1, SameStays
<1> QED BY <1>1, <1>2

(* ... and a copy, which may reuse the addresses of the nodes it replaces, *)
(* so that these count as moved.                                           *)
LEMMA CopyStays ==
    ASSUME IInv, IInv', NEW v \in Tree, NEW moved, NEW t \in Tree, NEW from, CopyContents(t, from),
           Nodes(t) \subseteq moved
    PROVE  StaysFor(v, moved)
<1>1. CASE v = t
  <2>1. Staying(v, moved) = {}
    BY <1>1 DEF Staying
  <2> QED BY <2>1, NothingStays
<1>2. CASE v # t
  <2>1. PICK copy \in [Subtree(heap, from) -> FreeNodes \union Nodes(t)] :
          /\ heap' = Copies(Free(heap, Nodes(t)), from, copy)
          /\ store' = [n \in Node |-> IF \E m \in Subtree(heap, from) : copy[m] = n THEN t
                                      ELSE IF store[n] = t THEN Null ELSE store[n]]
    BY DEF CopyContents
  <2>2. ASSUME NEW m \in Nodes(v) PROVE store'[m] = v /\ heap'[m] = heap[m]
    <3>1. m \in Node /\ m \notin FreeNodes \union Nodes(t)
      BY <1>2, TreeAssumption DEF Nodes, FreeNodes
    <3>2. \A n \in Subtree(heap, from) : copy[n] # m
      BY <2>1, <3>1
    <3>3. store'[m] = v
      BY <1>2, <2>1, <3>1, <3>2 DEF Nodes
    <3>4. DOMAIN copy = Subtree(heap, from)
      OBVIOUS
    <3>5. heap'[m] = Free(heap, Nodes(t))[m]
      BY <2>1, <3>1, <3>2, <3>4 DEF Copies
    <3>6. heap'[m] = heap[m]
      BY <3>1, <3>5 DEF Free
    <3> QED BY <3>3, <3>6
  <2> QED BY <2>2, SameStays
<1> QED BY <1>1, <1>2

(* insert_child leaves the children a node had in their places.            *)
LEMMA InsertedIs ==
    ASSUME NEW h \in Heap, NEW p \in Node, NEW c \in Node, p # c, NEW m \in Node,
           NEW i \in DOMAIN h[m].children
    PROVE  LET g == InsertChild(h, p, c)
           IN  i \in DOMAIN g[m].children /\ g[m].children[i] = h[m].children[i]
<1> DEFINE g == InsertChild(h, p, c)
           q == h[m].children
<1>1. q \in Seq(Node) /\ DOMAIN q = 1..Len(q) /\ Len(q) \in Nat
  BY HeapFields
<1>2. /\ m # p => g[m].children = q
      /\ m = p => g[m].children = Append(q, c)
  BY InsertChildIs
<1> HIDE DEF g
<1>3. CASE m # p
  BY <1>2, <1>3 DEF g
<1>4. CASE m = p
  <2>1. i \in 1..(Len(q) + 1) /\ i # Len(q) + 1
    BY <1>1
  <2>2. /\ DOMAIN Append(q, c) = 1..(Len(q) + 1)
        /\ Append(q, c)[i] = q[i]
    BY <1>1, <2>1, AppendProperties
  <2> QED BY <1>2, <1>4, <2>1, <2>2 DEF g
<1> QED BY <1>3, <1>4

(* emplace_node under a node, ...                                          *)
LEMMA EmplaceStays ==
    ASSUME IInv, IInv', NEW v \in Tree, NEW moved,
           NEW t \in Tree, NEW where \in Node, NEW n \in Node, Emplace(t, where, n)
    PROVE  StaysFor(v, moved)
<1>1. /\ heap \in Heap /\ heap' = InsertChild(heap, where, n) /\ n \in FreeNodes
      /\ store' = Give({n}, t) /\ store[where] = t
  BY DEF Emplace, IInv, TypeOK
<1>2. where # n
  BY <1>1, TreeAssumption DEF FreeNodes
<1>3. ASSUME NEW m \in Nodes(v)
      PROVE  /\ m \in Nodes(v)'
             /\ \A i \in DOMAIN heap[m].children :
                  i \in DOMAIN heap'[m].children /\ heap'[m].children[i] = heap[m].children[i]
  <2>1. m \in Node /\ m # n /\ store[m] = v
    BY <1>1, TreeAssumption DEF Nodes, FreeNodes
  <2>2. m \in Nodes(v)'
    BY <1>1, <2>1 DEF Give, Nodes
  <2> QED BY <1>1, <1>2, <2>1, <2>2, InsertedIs
<1> QED BY <1>3, GrowthStays

(* ... and above the root, ...                                             *)
LEMMA EmplaceRootStays ==
    ASSUME IInv, IInv', NEW v \in Tree, NEW moved,
           NEW t \in Tree, NEW n \in Node, EmplaceRoot(t, n)
    PROVE  StaysFor(v, moved)
<1>1. /\ heap \in Heap /\ n \in FreeNodes /\ store' = Give({n}, t)
  BY DEF EmplaceRoot, IInv, TypeOK
<1>2. ASSUME NEW m \in Nodes(v)
      PROVE  /\ m \in Nodes(v)'
             /\ \A i \in DOMAIN heap[m].children :
                  i \in DOMAIN heap'[m].children /\ heap'[m].children[i] = heap[m].children[i]
  <2>1. m \in Node /\ m # n /\ store[m] = v
    BY <1>1, TreeAssumption DEF Nodes, FreeNodes
  <2>2. m \in Nodes(v)'
    BY <1>1, <2>1 DEF Give, Nodes
  <2>3. CASE heap' = heap
    BY <2>2, <2>3
  <2>4. CASE root[t] # Null /\ heap' = InsertChild(heap, n, root[t])
    <3>1. root[t] \in Node /\ store[root[t]] = t
      BY <2>4, LiveIs DEF IsTree, Nodes
    <3>2. n # root[t]
      BY <1>1, <3>1, TreeAssumption DEF FreeNodes
    <3> QED BY <1>1, <2>1, <2>2, <2>4, <3>1, <3>2, InsertedIs
  <2> QED BY <2>3, <2>4 DEF EmplaceRoot
<1> QED BY <1>2, GrowthStays

(* ... adopt_subtree.                                                      *)
LEMMA AdoptStays ==
    ASSUME IInv, IInv', NEW v \in Tree, NEW moved,
           NEW t \in Tree, NEW where \in Node, NEW u \in Tree, Adopt(t, where, u)
    PROVE  StaysFor(v, moved)
<1> DEFINE c == root[u]
           Y == Nodes(u)
           g == InsertChild(heap, where, c)
<1>1. heap \in Heap /\ store[where] = t /\ t # Null /\ u # t /\ c # Null
  BY DEF IInv, TypeOK, Adopt
<1>2. Y = Subtree(heap, c) /\ c \in Y /\ c \in Node /\ store[c] = u /\ c # where
  BY <1>1, LiveIs DEF IsTree, Nodes
<1>3. /\ heap' = Free(g, {})
      /\ store' = [n \in Node |-> IF n \in Y THEN t ELSE IF n \in {} THEN Null ELSE store[n]]
  BY <1>2 DEF Adopt
<1>4. g \in Heap
  BY <1>1, <1>2, InsertChildIs
<1>5. CASE v = u
  <2>1. \A m \in Nodes(v) : store'[m] # v
    BY <1>1, <1>3, <1>5 DEF Nodes
  <2>2. Staying(v, moved) = {}
    BY <2>1 DEF Staying, Nodes
  <2> QED BY <2>2, NothingStays
<1>6. CASE v # u
  <2>1. ASSUME NEW m \in Nodes(v)
        PROVE  /\ m \in Nodes(v)'
               /\ \A i \in DOMAIN heap[m].children :
                    i \in DOMAIN heap'[m].children /\ heap'[m].children[i] = heap[m].children[i]
    <3>1. m \in Node /\ m \notin Y /\ store[m] = v
      BY <1>6 DEF Nodes
    <3>2. m \in Nodes(v)'
      BY <1>3, <3>1 DEF Nodes
    <3>3. heap'[m] = g[m]
      <4> HIDE DEF g
      <4> QED BY <1>3, <1>4, <3>1, FreeIs
    <3> HIDE DEF c
    <3> QED BY <1>1, <1>2, <3>1, <3>2, <3>3, InsertedIs
  <2> QED BY <2>1, GrowthStays
<1> QED BY <1>5, <1>6

(* A subtree of tree t is taken out: the rest stays in order.              *)
LEMMA RemovedStays ==
    ASSUME IInv, NEW t \in Tree, NEW s \in Node, store[s] = t, s # root[t],
           NEW S, S = Subtree(heap, s), NEW k \in Heap,
           \A n \in Nodes(t) \ S :
             k[n].children = RemoveChild(heap, heap[s].parent, heap[s].index)[n].children
    PROVE  OrderStays(heap, Nodes(t), k, Nodes(t) \ S, Nodes(t) \ S)
<1> DEFINE X == Nodes(t)
           p == heap[s].parent
           i == heap[s].index
           q == heap[p].children
           g == RemoveChild(heap, p, i)
<1>1. /\ heap \in Heap /\ IsTree(heap, X, root[t]) /\ X \subseteq Node
      /\ s \in X \ {root[t]} /\ p \in X \ S /\ s \in S
  <2>1. heap \in Heap /\ s \in X
    BY DEF IInv, TypeOK, Nodes
  <2> QED BY <2>1, RemovalIs
<1>2. p \in Node /\ i \in Nat /\ i + 1 \in DOMAIN q /\ Len(q) \in Nat /\ DOMAIN q = 1..Len(q)
  BY <1>1, HeapFields DEF IsTree
<1>3. \A j \in DOMAIN q : heap[q[j]].index = j - 1
  BY <1>1 DEF IsTree
<1>4. /\ g \in Heap
      /\ \A n \in Node \ {p} : g[n].children = heap[n].children
      /\ Len(g[p].children) = Len(q) - 1
      /\ \A j \in 1..(Len(q) - 1) : g[p].children[j] = IF j < i + 1 THEN q[j] ELSE q[j + 1]
  <2> HIDE DEF p, i
  <2>1. heap \in Heap /\ p \in Node /\ i \in Nat /\ i + 1 \in DOMAIN heap[p].children
        /\ \A j \in DOMAIN heap[p].children : heap[heap[p].children[j]].index = j - 1
    BY <1>1, <1>2, <1>3
  <2> QED BY <2>1, RemoveChildIs
<1>5. DOMAIN g[p].children = 1..(Len(q) - 1)
  BY <1>2, <1>4, HeapFields
<1>6. \A n \in (X \ S) \ {p} : k[n].children = heap[n].children
  BY <1>1, <1>4
<1>7. k[p].children = g[p].children
  BY <1>1
<1>8. \A j \in DOMAIN q :
        /\ j < i + 1 => j \in DOMAIN k[p].children /\ k[p].children[j] = q[j]
        /\ j > i + 1 => j - 1 \in DOMAIN k[p].children /\ k[p].children[j - 1] = q[j]
  <2>1. SUFFICES ASSUME NEW j \in 1..Len(q)
        PROVE /\ j < i + 1 => j \in DOMAIN k[p].children /\ k[p].children[j] = q[j]
              /\ j > i + 1 => j - 1 \in DOMAIN k[p].children /\ k[p].children[j - 1] = q[j]
    BY <1>2
  <2>2. ASSUME j < i + 1 PROVE j \in DOMAIN k[p].children /\ k[p].children[j] = q[j]
    <3>1. j \in 1..(Len(q) - 1)
      BY <1>2, <2>2
    <3> HIDE DEF g, q, p, i
    <3> QED BY <1>4, <1>5, <1>7, <2>2, <3>1
  <2>3. ASSUME j > i + 1 PROVE j - 1 \in DOMAIN k[p].children /\ k[p].children[j - 1] = q[j]
    <3>1. j - 1 \in 1..(Len(q) - 1) /\ ~(j - 1 < i + 1) /\ (j - 1) + 1 = j
      BY <1>2, <2>3
    <3> HIDE DEF g, q, p, i
    <3> QED BY <1>4, <1>5, <1>7, <3>1
  <2> QED BY <2>2, <2>3
<1> HIDE DEF X, q, g
<1>9. OrderStays(heap, X, k, X \ S, X \ S)
  BY <1>1, <1>6, <1>8, RemovingStays DEF q
<1> QED BY <1>9 DEF X

(* What taking the subtree of s out of tree t leaves, with names for both. *)
LEMMA TakenOut ==
    ASSUME IInv, NEW t \in Tree, NEW s \in Node, store[s] = t, s # root[t],
           NEW S, S = Subtree(heap, s),
           NEW g, g = RemoveChild(heap, heap[s].parent, heap[s].index)
    PROVE  /\ g \in Heap /\ S \subseteq Nodes(t) /\ Nodes(t) \subseteq Node
           /\ t # Null /\ s \in S /\ t \in live
           /\ IsTree(g, Nodes(t) \ S, root[t])
           /\ \A n \in Node \ Nodes(t) : g[n] = heap[n]
           /\ \A n \in Nodes(t) : InSubtree(n, s) <=> n \in S
BY RemovalIs

(* erase_subtree, ...                                                      *)
LEMMA EraseStays ==
    ASSUME IInv, IInv', NEW v \in Tree, NEW moved, NEW t \in Tree, NEW s \in Node, Erase(t, s)
    PROVE  StaysFor(v, moved)
<1> DEFINE S == Subtree(heap, s)
           X == Nodes(t)
           g == RemoveChild(heap, heap[s].parent, heap[s].index)
<1>1. /\ store[s] = t /\ s # root[t] /\ heap' = Free(g, S) /\ store' = Give(S, Null)
  BY DEF Erase
<1>2. /\ g \in Heap /\ S \subseteq X /\ X \subseteq Node /\ t # Null /\ s \in S /\ t \in live
      /\ IsTree(g, X \ S, root[t])
      /\ \A n \in Node \ X : g[n] = heap[n]
      /\ \A n \in X : InSubtree(n, s) <=> n \in S
  <2>1. /\ store[s] = t /\ s # root[t] /\ S = Subtree(heap, s)
        /\ g = RemoveChild(heap, heap[s].parent, heap[s].index)
    BY <1>1
  <2> HIDE DEF S, g
  <2> QED BY <2>1, TakenOut
<1>3. heap' \in Heap /\ \A n \in Node \ S : heap'[n] = g[n]
  <2> HIDE DEF g, S
  <2> QED BY <1>1, <1>2, FreeIs
<1>4. CASE v = t
  <2>1. Nodes(v)' = X \ S
    BY <1>1, <1>2, <1>4 DEF Give, Nodes
  <2>2. OrderStays(heap, X, heap', X \ S, X \ S)
    BY <1>1, <1>2, <1>3, RemovedStays
  <2> QED BY <1>4, <2>1, <2>2 DEF StaysFor, OrderStays, Staying
<1>5. CASE v # t
  <2>1. ASSUME NEW m \in Nodes(v) PROVE store'[m] = v /\ heap'[m] = heap[m]
    <3>1. m \in Node /\ m \notin X /\ store[m] = v
      BY <1>5 DEF Nodes
    <3> HIDE DEF X, S, g
    <3> QED BY <1>1, <1>2, <1>3, <3>1 DEF Give
  <2> QED BY <2>1, SameStays
<1> QED BY <1>4, <1>5

(* ... chop_subtree, ...                                                   *)
LEMMA ChopStays ==
    ASSUME IInv, IInv', NEW v \in Tree, NEW moved,
           NEW t \in Tree, NEW s \in Node, NEW u \in Tree, Chop(t, s, u)
    PROVE  StaysFor(v, moved)
<1> DEFINE S == Subtree(heap, s)
           X == Nodes(t)
           g == RemoveChild(heap, heap[s].parent, heap[s].index)
<1>1. /\ store[s] = t /\ s # root[t] /\ heap' = ClearParentMetadata(g, s)
      /\ store' = Give(S, u) /\ u \notin live
  BY DEF Chop
<1>2. /\ g \in Heap /\ S \subseteq X /\ X \subseteq Node /\ t # Null /\ s \in S /\ t \in live
      /\ IsTree(g, X \ S, root[t])
      /\ \A n \in Node \ X : g[n] = heap[n]
      /\ \A n \in X : InSubtree(n, s) <=> n \in S
  <2>1. /\ store[s] = t /\ s # root[t] /\ S = Subtree(heap, s)
        /\ g = RemoveChild(heap, heap[s].parent, heap[s].index)
    BY <1>1
  <2> HIDE DEF S, g
  <2> QED BY <2>1, TakenOut
<1>3. /\ heap' \in Heap /\ heap'[s].children = g[s].children
      /\ \A n \in Node \ {s} : heap'[n] = g[n]
  <2> HIDE DEF g, S
  <2> QED BY <1>1, <1>2, ClearMetadataIs
<1>4. CASE v = t
  <2>1. Nodes(v)' = X \ S
    BY <1>1, <1>2, <1>4 DEF Give, Nodes
  <2>2. OrderStays(heap, X, heap', X \ S, X \ S)
    BY <1>1, <1>2, <1>3, RemovedStays
  <2> QED BY <1>4, <2>1, <2>2 DEF StaysFor, OrderStays, Staying
<1>5. CASE v # t
  <2>1. ASSUME NEW m \in Nodes(v) PROVE store'[m] = v /\ heap'[m] = heap[m]
    <3>1. m \in Node /\ m \notin X /\ store[m] = v
      BY <1>5 DEF Nodes
    <3> HIDE DEF X, S, g
    <3> QED BY <1>1, <1>2, <1>3, <3>1 DEF Give
  <2> QED BY <2>1, SameStays
<1> QED BY <1>4, <1>5

(* ... merge_with_parent, ...                                              *)
LEMMA MergeStays ==
    ASSUME IInv, IInv', NEW v \in Tree, NEW moved, NEW t \in Tree, NEW n \in Node, Merge(t, n)
    PROVE  StaysFor(v, moved)
<1> DEFINE X == Nodes(t)
           p == heap[n].parent
           i == heap[n].index
           q == heap[p].children
           a == heap[n].children
           g == MergeChild(heap, p, i)
<1>1. /\ store[n] = t /\ t # Null /\ p # Null /\ heap' = Free(g, {n}) /\ store' = Give({n}, Null)
  BY DEF Merge
<1>2. /\ heap \in Heap /\ IsTree(heap, X, root[t]) /\ X \subseteq Node /\ n \in X
  BY <1>1, OwnerIs, LiveIs
<1>3. n \in X \ {root[t]} /\ p \in X /\ p # n
  <2>1. n # root[t]
    BY <1>1, <1>2 DEF IsTree
  <2>2. p \in X \ Subtree(heap, n) /\ n \in Subtree(heap, n)
    BY <1>2, <2>1, ParentIsOutside, SubtreeIn
  <2> QED BY <1>2, <2>1, <2>2
<1>4. g \in Heap /\ SameOutside(g, heap, X)
  BY <1>2, <1>3, MergeKeepsTrees
<1>5. heap' \in Heap /\ \A m \in Node \ {n} : heap'[m] = g[m]
  <2> HIDE DEF g
  <2> QED BY <1>1, <1>4, FreeIs
<1>6. CASE v = t
  <2>1. Nodes(v)' = X \ {n}
    BY <1>1, <1>6 DEF Give, Nodes
  <2>2. /\ p \in Node /\ i \in Nat /\ i + 1 \in DOMAIN q /\ q[i + 1] = n
        /\ Len(q) \in Nat /\ DOMAIN q = 1..Len(q) /\ Len(a) \in Nat
    BY <1>2, <1>3, HeapFields DEF IsTree
  <2>3. IsMerge(heap, g, p, n, i)
    <3>1. \A m \in {p, n} : \A j \in DOMAIN heap[m].children :
             heap[heap[m].children[j]].parent = m /\ heap[heap[m].children[j]].index = j - 1
      BY <1>2, <1>3 DEF IsTree
    <3> QED BY <1>2, <1>3, <2>2, <3>1, MergeChildIs
  <2> DEFINE w == g[p].children
  <2>4. /\ Len(w) = Len(q) + Len(a) - 1
        /\ \A j \in 1..i : w[j] = q[j]
        /\ \A j \in 1..Len(a) : w[i + j] = a[j]
        /\ \A j \in (i + 2)..Len(q) : w[j + Len(a) - 1] = q[j]
        /\ \A m \in Node \ {p, n} : g[m].children = heap[m].children
        /\ DOMAIN w = 1..Len(w)
    <3> HIDE DEF g
    <3> QED BY <1>4, <2>2, <2>3, HeapFields DEF IsMerge
  <2>5. /\ heap'[p].children = w
        /\ \A m \in X \ {n, p} : heap'[m].children = heap[m].children
    <3> HIDE DEF w, p, X
    <3> QED BY <1>2, <1>3, <1>5, <2>2, <2>4 DEF w
  <2> DEFINE k == i + 1
             z == Len(a)
             f == heap'
  <2>6. ASSUME NEW j \in 1..Len(q)
        PROVE  /\ j < k => j \in DOMAIN w /\ w[j] = q[j]
               /\ j > k => (j + z) - 1 \in DOMAIN w /\ w[(j + z) - 1] = q[j]
    <3> HIDE DEF w, q, a, i
    <3>1. ASSUME j < k PROVE j \in DOMAIN w /\ w[j] = q[j]
      <4>1. j \in 1..i /\ i + 1 \in 1..Len(q)
        BY <2>2, <3>1
      <4>2. j \in 1..(Len(q) + Len(a) - 1)
        BY <2>2, <4>1
      <4> QED BY <2>4, <4>1, <4>2
    <3>2. ASSUME j > k PROVE (j + z) - 1 \in DOMAIN w /\ w[(j + z) - 1] = q[j]
      <4>1. j \in (i + 2)..Len(q)
        BY <2>2, <3>2
      <4>2. (j + z) - 1 \in 1..(Len(q) + Len(a) - 1) /\ (j + z) - 1 = j + Len(a) - 1
        BY <2>2, <4>1
      <4> QED BY <2>4, <4>1, <4>2
    <3> QED BY <3>1, <3>2
  <2>7. ASSUME NEW j \in 1..z
        PROVE  (k + j) - 1 \in DOMAIN w /\ w[(k + j) - 1] = a[j]
    <3> HIDE DEF w, q, a, i
    <3>1. (k + j) - 1 = i + j /\ i + j \in 1..(Len(q) + Len(a) - 1)
      BY <2>2
    <3> QED BY <2>4, <3>1
  <2>8. /\ \A j \in DOMAIN q :
             /\ j < k => j \in DOMAIN f[p].children /\ f[p].children[j] = q[j]
             /\ j > k => /\ (j + z) - 1 \in DOMAIN f[p].children
                         /\ f[p].children[(j + z) - 1] = q[j]
        /\ \A j \in 1..z : /\ (k + j) - 1 \in DOMAIN f[p].children
                           /\ f[p].children[(k + j) - 1] = a[j]
    <3> HIDE DEF w, q, a, i, p
    <3> QED BY <2>2, <2>5, <2>6, <2>7
  <2>9. f \in Heap /\ \A m \in X \ {n, p} : f[m].children = heap[m].children
    BY <1>5, <2>5
  <2>10. OrderStays(heap, X, f, X \ {n}, X \ {n})
    <3>1. p = heap[n].parent /\ k = heap[n].index + 1 /\ z = Len(heap[n].children)
      OBVIOUS
    <3>2. TakesPlace(heap, f, n, p, k, z)
      BY <2>8 DEF TakesPlace
    <3> HIDE DEF f, X, w, p, k, z, q, a, i
    <3> QED BY <1>2, <1>3, <2>9, <3>1, <3>2, MergingStays
  <2> QED BY <1>6, <2>1, <2>10 DEF StaysFor, OrderStays, Staying
<1>7. CASE v # t
  <2>1. ASSUME NEW m \in Nodes(v) PROVE store'[m] = v /\ heap'[m] = heap[m]
    <3>1. m \in Node /\ m \notin X /\ store[m] = v
      BY <1>7 DEF Nodes
    <3>2. m # n
      BY <1>2, <3>1
    <3> HIDE DEF X, g
    <3> QED BY <1>1, <1>4, <1>5, <3>1, <3>2 DEF Give, SameOutside
  <2> QED BY <2>1, SameStays
<1> QED BY <1>6, <1>7

(* ... and move_subtree, which takes a subtree out and appends it          *)
(* elsewhere, keep the order of the nodes that are not moved.              *)
LEMMA MoveStays ==
    ASSUME IInv, IInv', "move" \notin Wild, NEW v \in Tree,
           NEW t \in Tree, NEW where \in Node, NEW s \in Node, Move(t, where, s),
           NEW moved, moved = Subtree(heap, s)
    PROVE  StaysFor(v, moved)
<1> DEFINE S == Subtree(heap, s)
           X == Nodes(t)
           g == RemoveChild(heap, heap[s].parent, heap[s].index)
<1>1. /\ store[s] = t /\ store[where] = t /\ s # root[t] /\ where # s /\ ~HasParent(heap, where, s)
      /\ heap' = InsertChild(g, where, s) /\ store' = store
  BY DEF Move
<1>2. /\ g \in Heap /\ S \subseteq X /\ X \subseteq Node /\ s \in S
      /\ IsTree(g, X \ S, root[t])
      /\ \A n \in Node \ X : g[n] = heap[n]
      /\ \A n \in X : InSubtree(n, s) <=> n \in S
  <2>1. /\ store[s] = t /\ s # root[t] /\ S = Subtree(heap, s)
        /\ g = RemoveChild(heap, heap[s].parent, heap[s].index)
    BY <1>1
  <2> HIDE DEF S, g
  <2> QED BY <2>1, TakenOut
<1>3. where \in X \ S
  BY <1>1, <1>2 DEF InSubtree, Nodes
<1>4. heap' \in Heap
  BY DEF IInv, TypeOK
<1>5. CASE v = t
  <2>1. Nodes(v)' = X /\ Nodes(v) = X
    BY <1>1, <1>5 DEF Nodes
  <2>2. OrderStays(heap, X, g, X \ S, X \ S)
    BY <1>1, <1>2, RemovedStays
  <2>3. ASSUME NEW m \in X \ S, NEW i \in DOMAIN g[m].children
        PROVE  i \in DOMAIN heap'[m].children /\ heap'[m].children[i] = g[m].children[i]
    <3>1. m \in Node /\ where \in Node
      BY <1>2, <1>3
    <3> HIDE DEF g
    <3> QED BY <1>1, <1>2, <3>1, InsertedIs
  <2> DEFINE f == heap'
             Y == X \ S
  <2>4. OrderStays(g, Y, f, X, Y)
    <3>1. /\ g \in Heap /\ f \in Heap /\ IsTree(g, Y, root[t]) /\ Y \subseteq X
          /\ \A m \in Y : \A i \in DOMAIN g[m].children :
               i \in DOMAIN f[m].children /\ f[m].children[i] = g[m].children[i]
      BY <1>2, <1>4, <2>3
    <3> HIDE DEF g, f, X, Y
    <3> QED BY <3>1, GrowingStays
  <2>5. OrderStays(heap, X, f, X, Y)
    <3> HIDE DEF g, f, X
    <3> QED BY <2>2, <2>4 DEF OrderStays
  <2>6. Staying(v, moved) = Y
    BY <2>1 DEF Staying
  <2> QED BY <2>1, <2>5, <2>6 DEF StaysFor
<1>6. CASE v # t
  <2>1. ASSUME NEW m \in Nodes(v) PROVE store'[m] = v /\ heap'[m].children = heap[m].children
    <3>1. m \in Node /\ m \notin X /\ store[m] = v
      BY <1>6 DEF Nodes
    <3>2. m # where /\ m # s /\ where # s /\ where \in Node
      BY <1>2, <1>3, <3>1
    <3>3. heap'[m] = g[m]
      <4> HIDE DEF g
      <4> QED BY <1>1, <1>2, <3>1, <3>2, InsertChildIs
    <3> QED BY <1>1, <1>2, <3>1, <3>3
  <2> QED BY <2>1, SameStays
<1> QED BY <1>5, <1>6

(* The steps OrderKept names keep the order of every tree.                 *)
LEMMA OrderKeptStays ==
    ASSUME IInv, IInv', NEW v \in Tree, OrderKept PROVE StaysFor(v, {})
<1>1. PICK t \in Tree :
        \/ Construct(t) \/ Clear(t) \/ Destroy(t)
        \/ \E u \in Tree : \/ MoveConstruct(t, u) \/ MoveAssign(t, u)
                           \/ Swap(t, u) \/ ChopRoot(t, u)
        \/ \E n \in Node : \/ CopyConstruct(t, n) \/ EmplaceRoot(t, n)
                           \/ Erase(t, n) \/ Merge(t, n)
        \/ \E n, m \in Node : Emplace(t, n, m)
        \/ \E n \in Node, u \in Tree : Chop(t, n, u) \/ Adopt(t, n, u)
  BY DEF OrderKept
<1>2. CASE Construct(t)
  BY <1>2, ConstructStays DEF Construct
<1>3. CASE Clear(t) \/ Destroy(t)
  BY <1>3, EmptyStays DEF Clear, Destroy
<1>4. ASSUME NEW u \in Tree, MoveConstruct(t, u) \/ MoveAssign(t, u) PROVE StaysFor(v, {})
  BY <1>4, StealStays DEF MoveConstruct, MoveAssign
<1>5. ASSUME NEW u \in Tree, Swap(t, u) PROVE StaysFor(v, {})
  BY <1>5, SwapStays
<1>6. ASSUME NEW u \in Tree, ChopRoot(t, u) PROVE StaysFor(v, {})
  <2>1. u # t /\ Steal(u, t)
    BY <1>6 DEF ChopRoot, MoveConstruct
  <2> QED BY <2>1, StealStays
<1>7. ASSUME NEW n \in Node, CopyConstruct(t, n) PROVE StaysFor(v, {})
  <2>1. CopyContents(t, n) /\ Nodes(t) \subseteq {}
    BY <1>7, LiveIs DEF CopyConstruct
  <2> QED BY <2>1, CopyStays
<1>8. ASSUME NEW n \in Node, EmplaceRoot(t, n) \/ Erase(t, n) \/ Merge(t, n) PROVE StaysFor(v, {})
  BY <1>8, EmplaceRootStays, EraseStays, MergeStays
<1>9. ASSUME NEW n \in Node, NEW m \in Node, Emplace(t, n, m) PROVE StaysFor(v, {})
  BY <1>9, EmplaceStays
<1>10. ASSUME NEW n \in Node, NEW u \in Tree, Chop(t, n, u) \/ Adopt(t, n, u) PROVE StaysFor(v, {})
  BY <1>10, ChopStays, AdoptStays
<1> QED BY <1>1, <1>2, <1>3, <1>4, <1>5, <1>6, <1>7, <1>8, <1>9, <1>10

-----------------------------------------------------------------------------
(* Loops.                                                                  *)

(* The records of loops.                                                   *)
Loops == [tree : Tree, order : Order, forward : BOOLEAN, pos : Node \union {Null},
          end : Node \union {Null}, due : SUBSET Node, seen : SUBSET Node]

(* Loop l stands at element e of a tree of nodes X, which L has in order.  *)
StandsAt(l, X, L, e) ==
    /\ e \in X
    /\ l.forward =>
         /\ l.pos = e
         /\ \A z \in l.due : z \in L[e]
         /\ \A z \in l.seen : z = e \/ e \in L[z]
    /\ ~l.forward =>
         /\ l.end \in X /\ (l.pos # Null => l.pos \in X /\ l.pos \in L[l.end])
         /\ \A z \in l.due : e \in L[z] /\ (z = l.end \/ z \in L[l.end])
         /\ \A z \in l.seen : z = e \/ z \in L[e]

(* Loop l runs over a tree of nodes X: as long as it is not over it stands *)
(* at element e, and when it is over nothing is due.                       *)
Runs(l, X, L, e, alive) ==
    /\ l \in Loops /\ l.tree \in alive /\ l.due \subseteq X /\ l.seen \subseteq X
    /\ l.forward => l.end = Null
    /\ Ended(l) => l.due = {}
    /\ ~Ended(l) => StandsAt(l, X, L, e)

(* Loop l runs over its tree as it is now.                                 *)
Tracks(l) == Runs(l, Nodes(l.tree), Later(heap, Nodes(l.tree), l.order), Element(l), live)

(* The inductive invariant of the loop: what is due lies ahead of its      *)
(* element and what it has seen behind.                                    *)
LoopInv == loop # Idle => Tracks(loop)

(* What Enter changes of a loop.                                           *)
LEMMA EnterIs ==
    ASSUME NEW n \in Loops, ~Ended(n) => Element(n) \in Node
    PROVE  LET m == Enter(n)
           IN  /\ m \in Loops
               /\ m.tree = n.tree /\ m.order = n.order /\ m.forward = n.forward
               /\ m.pos = n.pos /\ m.end = n.end
               /\ Element(m) = Element(n) /\ (Ended(m) <=> Ended(n))
               /\ Ended(n) => m.due = n.due /\ m.seen = n.seen
               /\ ~Ended(n) => m.due = n.due \ {Element(n)} /\ m.seen = n.seen \union {Element(n)}
<1> DEFINE m == Enter(n)
           e == Element(n)
<1>1. CASE Ended(n)
  BY <1>1 DEF Enter
<1>2. CASE ~Ended(n)
  <2>1. m = [n EXCEPT !.due = @ \ {e}, !.seen = @ \union {e}]
    BY <1>2 DEF Enter
  <2>2. e \in Node
    BY <1>2
  <2> HIDE DEF e
  <2>3. /\ m.tree = n.tree /\ m.order = n.order /\ m.forward = n.forward
        /\ m.pos = n.pos /\ m.end = n.end
        /\ m.due = n.due \ {e} /\ m.seen = n.seen \union {e}
    BY <2>1 DEF Loops
  <2>4. m \in Loops
    <3>1. n.due \ {e} \in SUBSET Node /\ n.seen \union {e} \in SUBSET Node
      BY <2>2 DEF Loops
    <3> DEFINE d == n.due \ {e}
               s == n.seen \union {e}
    <3>2. m = [n EXCEPT !.due = d, !.seen = s] /\ d \in SUBSET Node /\ s \in SUBSET Node
      BY <2>1, <3>1
    <3> HIDE DEF d, s, m
    <3> QED BY <3>2 DEF Loops
  <2>5. Element(m) = Element(n) /\ (Ended(m) <=> Ended(n))
    <3> HIDE DEF m
    <3> QED BY <2>3 DEF Element, Ended
  <2> HIDE DEF m
  <2> QED BY <1>2, <2>3, <2>4, <2>5 DEF m, e
<1> QED BY <1>1, <1>2

(* A loop that begins has everything ahead, but the node it begins at.     *)
LEMMA BeginRuns ==
    ASSUME IInv, ExtremaAreExtreme, NEW t \in live, NEW o \in Order, NEW forward \in BOOLEAN,
           NEW n, n = [tree |-> t, order |-> o, forward |-> forward,
                         pos |-> IF forward THEN DfsBegin(t, o) ELSE Null,
                         end |-> IF forward THEN Null ELSE DfsBegin(t, o),
                         due |-> Nodes(t), seen |-> {}]
    PROVE  Tracks(Enter(n))
<1> DEFINE X == Nodes(t)
           L == Later(heap, X, o)
           b == DfsBegin(t, o)
           m == Enter(n)
           e == Element(n)
<1>1. t \in Tree /\ X \subseteq Node /\ b \in Node \union {Null}
  BY DEF IInv, TypeOK, Nodes, DfsBegin
<1>2. /\ n \in Loops /\ n.tree = t /\ n.order = o /\ n.forward = forward
      /\ n.due = X /\ n.seen = {}
      /\ n.pos = IF forward THEN b ELSE Null
      /\ n.end = IF forward THEN Null ELSE b
  <2> HIDE DEF b, X
  <2> QED BY <1>1 DEF Loops, b, X
<1>3. CASE root[t] = Null
  <2>1. b = Null /\ X = {}
    BY <1>1, <1>3, LiveIs DEF DfsBegin
  <2>2. Ended(n)
    <3> HIDE DEF b, X
    <3> QED BY <1>2, <2>1 DEF Ended
  <2>3. m = n
    BY <2>2 DEF Enter
  <2> HIDE DEF b, X, m
  <2> QED BY <1>2, <2>1, <2>2, <2>3 DEF Tracks, Runs, X, m
<1>4. CASE root[t] # Null
  <2>1. PICK w : IsWalk(w, t, o)
    BY <1>1, <1>4, WalkIs
  <2>2. /\ Len(w) \in Nat \ {0}
        /\ \A x : x \in X <=> \E i \in 1..Len(w) : w[i] = x
        /\ \A i, j \in 1..Len(w) : w[j] \in L[w[i]] <=> i < j
        /\ b = w[1] /\ Decrement(t, Null, o) = w[Len(w)]
    BY <2>1 DEF IsWalk
  <2>3. b \in X /\ w[Len(w)] \in X /\ 1 \in 1..Len(w) /\ Len(w) \in 1..Len(w)
    BY <2>2
  <2>4. b # Null /\ b \in Node
    BY <1>1, <2>3, NodeAssumption
  <2>5. ~Ended(n) /\ e \in X /\ e = IF forward THEN b ELSE w[Len(w)]
    <3> HIDE DEF b, X, L
    <3> QED BY <1>2, <2>2, <2>3, <2>4 DEF Ended, Element
  <2>6. /\ m \in Loops /\ m.tree = t /\ m.order = o /\ m.forward = forward
        /\ m.pos = n.pos /\ m.end = n.end /\ Element(m) = e /\ ~Ended(m)
        /\ m.due = X \ {e} /\ m.seen = {e}
    <3>1. e \in Node
      BY <1>1, <2>5
    <3> HIDE DEF b, X, L
    <3> QED BY <1>2, <2>5, <3>1, EnterIs
  <2> HIDE DEF b, X, L, m, e
  <2>7. StandsAt(m, X, L, e)
    <3>1. CASE forward
      <4>1. ASSUME NEW z \in X \ {e} PROVE z \in L[e]
        <5>1. PICK i \in 1..Len(w) : w[i] = z
          BY <2>2
        <5>2. 1 < i
          BY <2>2, <2>5, <3>1, <5>1
        <5> QED BY <2>2, <2>3, <2>5, <3>1, <5>1, <5>2
      <4> QED BY <1>2, <2>5, <2>6, <3>1, <4>1 DEF StandsAt
    <3>2. CASE ~forward
      <4>1. ASSUME NEW z \in X \ {e} PROVE e \in L[z] /\ (z = b \/ z \in L[b])
        <5>1. PICK i \in 1..Len(w) : w[i] = z
          BY <2>2
        <5>2. i < Len(w)
          BY <2>2, <2>5, <3>2, <5>1
        <5>3. e \in L[z]
          BY <2>2, <2>3, <2>5, <3>2, <5>1, <5>2
        <5>4. i = 1 \/ 1 < i
          BY <2>2
        <5> QED BY <2>2, <2>3, <5>1, <5>3, <5>4
      <4>2. m.pos = Null /\ m.end = b
        BY <1>2, <2>6, <3>2
      <4> QED BY <2>3, <2>5, <2>6, <3>2, <4>1, <4>2 DEF StandsAt
    <3> QED BY <3>1, <3>2
  <2>8. m.forward => m.end = Null
    BY <1>2, <2>6
  <2> QED BY <2>5, <2>6, <2>7, <2>8 DEF Tracks, Runs, X, L, m
<1> QED BY <1>3, <1>4

(* ++ takes the loop to the next node, so that nothing is left out in      *)
(* between and the node was not seen; from the last one it takes it to its *)
(* end.                                                                    *)
LEMMA AdvanceRuns ==
    ASSUME IInv, ExtremaAreExtreme, NEW l, Tracks(l), ~Ended(l),
           NEW n, n = [l EXCEPT !.pos =
                         IF l.forward THEN Increment(@, l.order) ELSE Element(l)]
    PROVE  /\ Tracks(Enter(n)) /\ Enter(n).pos = n.pos
           /\ ~Ended(Enter(n)) => Element(Enter(n)) \notin l.seen
<1> DEFINE t == l.tree
           o == l.order
           X == Nodes(t)
           L == Later(heap, X, o)
           e == Element(l)
           m == Enter(n)
           f == Element(n)
<1>1. /\ l \in Loops /\ t \in live /\ l.due \subseteq X /\ l.seen \subseteq X
      /\ l.forward => l.end = Null
      /\ StandsAt(l, X, L, e)
  BY DEF Tracks, Runs
<1>2. /\ t \in Tree /\ o \in Order /\ l.forward \in BOOLEAN /\ X \subseteq Node
      /\ e \in X /\ e \in Node /\ e # Null
  <2>1. t \in Tree /\ o \in Order /\ l.forward \in BOOLEAN
    BY <1>1 DEF Loops
  <2>2. X \subseteq Node
    BY DEF Nodes
  <2>3. e \in X
    <3> HIDE DEF X, L, e
    <3> QED BY <1>1 DEF StandsAt
  <2> HIDE DEF X, e
  <2> QED BY <2>1, <2>2, <2>3, NodeAssumption
<1>3. root[t] # Null
  BY <1>2, LiveIs
<1>4. PICK w : IsWalk(w, t, o)
  BY <1>2, <1>3, WalkIs
<1>5. /\ Len(w) \in Nat \ {0}
      /\ \A x : x \in X <=> \E i \in 1..Len(w) : w[i] = x
      /\ \A i, j \in 1..Len(w) : w[j] \in L[w[i]] <=> i < j
      /\ \A i \in 1..(Len(w) - 1) : Increment(w[i], o) = w[i + 1] /\ Decrement(t, w[i + 1], o) = w[i]
      /\ Increment(w[Len(w)], o) = Null /\ Decrement(t, Null, o) = w[Len(w)]
  BY <1>4 DEF IsWalk
<1>6. PICK k \in 1..Len(w) : w[k] = e
  BY <1>2, <1>5
<1> DEFINE p == IF l.forward THEN Increment(l.pos, o) ELSE e
<1>7. n = [l EXCEPT !.pos = p]
  OBVIOUS
<1>8. CASE l.forward
  <2>1. l.pos = e /\ (\A z \in l.due : z \in L[e]) /\ \A z \in l.seen : z = e \/ e \in L[z]
    <3> HIDE DEF X, L, e
    <3> QED BY <1>1, <1>8 DEF StandsAt
  <2>2. p = Increment(e, o)
    BY <1>8, <2>1
  <2>3. p = IF k = Len(w) THEN Null ELSE w[k + 1]
    <3>1. k # Len(w) => k \in 1..(Len(w) - 1)
      BY <1>5
    <3> HIDE DEF p, e, X, L
    <3> QED BY <1>5, <1>6, <2>2, <3>1
  <2>4. k # Len(w) => k + 1 \in 1..Len(w) /\ w[k + 1] \in X
    BY <1>5
  <2>5. p \in Node \union {Null} /\ (k # Len(w) => p \in X /\ p # Null)
    <3> HIDE DEF p, X
    <3> QED BY <1>2, <2>3, <2>4, NodeAssumption
  <2>6. /\ n \in Loops /\ n.tree = t /\ n.order = o /\ n.forward /\ n.pos = p /\ n.end = Null
        /\ n.due = l.due /\ n.seen = l.seen
    <3> HIDE DEF p
    <3> QED BY <1>1, <1>7, <1>8, <2>5 DEF Loops
  <2> HIDE DEF p, X, L, e
  <2>7. (Ended(n) <=> k = Len(w)) /\ f = p
    BY <2>3, <2>5, <2>6 DEF Ended, Element
  <2>8. /\ m \in Loops /\ m.tree = t /\ m.order = o /\ m.forward /\ m.pos = p /\ m.end = Null
        /\ Element(m) = p /\ (Ended(m) <=> k = Len(w))
        /\ k = Len(w) => m.due = l.due /\ m.seen = l.seen
        /\ k # Len(w) => m.due = l.due \ {p} /\ m.seen = l.seen \union {p}
    <3>1. ~Ended(n) => Element(n) \in Node
      BY <1>2, <2>5, <2>7
    <3> HIDE DEF f
    <3> QED BY <2>6, <2>7, <3>1, EnterIs DEF f
  <2> HIDE DEF m
  <2>9. CASE k = Len(w)
    <3>1. ASSUME NEW z \in l.due PROVE FALSE
      <4>1. PICK i \in 1..Len(w) : w[i] = z
        BY <1>1, <1>5
      <4>2. k < i
        BY <1>5, <1>6, <2>1, <4>1
      <4> QED BY <1>5, <2>9, <4>2
    <3>2. m.due = {}
      BY <2>8, <2>9, <3>1
    <3> QED BY <1>1, <2>6, <2>8, <2>9, <3>2 DEF Tracks, Runs, X, m
  <2>10. CASE k # Len(w)
    <3>1. p = w[k + 1] /\ k + 1 \in 1..Len(w) /\ p \in X
      BY <2>3, <2>4, <2>10
    <3>2. ASSUME NEW z \in l.due \ {p} PROVE z \in L[p]
      <4>1. PICK i \in 1..Len(w) : w[i] = z
        BY <1>1, <1>5
      <4>2. k < i /\ i # k + 1
        BY <1>5, <1>6, <2>1, <3>1, <4>1
      <4>3. k + 1 < i
        BY <1>5, <4>2
      <4> QED BY <1>5, <3>1, <4>1, <4>3
    <3>3. ASSUME NEW z \in l.seen PROVE p \in L[z] /\ z # p
      <4>1. PICK i \in 1..Len(w) : w[i] = z
        BY <1>1, <1>5
      <4>2. i < k \/ i = k
        <5>1. z = e \/ e \in L[z]
          BY <2>1
        <5>2. CASE e \in L[z]
          BY <1>5, <1>6, <4>1, <5>2
        <5>3. CASE z = e
          <6>1. ~(i < k) /\ ~(k < i)
            <7>1. ~(i < i) /\ ~(k < k)
              BY <1>5
            <7> QED BY <1>5, <1>6, <4>1, <5>3, <7>1
          <6> QED BY <1>5, <6>1
        <5> QED BY <5>1, <5>2, <5>3
      <4>3. i < k + 1
        BY <1>5, <4>2
      <4>4. p \in L[z]
        BY <1>5, <3>1, <4>1, <4>3
      <4>5. ~(k + 1 < k + 1)
        BY <1>5
      <4> QED BY <1>5, <3>1, <4>1, <4>4, <4>5
    <3>4. StandsAt(m, X, L, p)
      <4>1. \A z \in m.due : z \in L[p]
        BY <2>8, <2>10, <3>2
      <4>2. \A z \in m.seen : z = p \/ p \in L[z]
        BY <2>8, <2>10, <3>3
      <4> QED BY <2>8, <3>1, <4>1, <4>2 DEF StandsAt
    <3>5. m.due \subseteq X /\ m.seen \subseteq X /\ p \notin l.seen
      BY <1>1, <2>8, <2>10, <3>1, <3>3
    <3>6. Runs(m, X, L, p, live)
      BY <1>1, <2>8, <2>10, <3>4, <3>5 DEF Runs
    <3>7. Tracks(m)
      BY <2>8, <3>6 DEF Tracks, X, L
    <3> QED BY <2>6, <2>8, <3>5, <3>7 DEF m
  <2> QED BY <2>9, <2>10
<1>9. CASE ~l.forward
  <2>1. /\ l.end \in X /\ (l.pos # Null => l.pos \in X /\ l.pos \in L[l.end])
        /\ \A z \in l.due : e \in L[z] /\ (z = l.end \/ z \in L[l.end])
        /\ \A z \in l.seen : z = e \/ z \in L[e]
        /\ l.pos # l.end
    <3> HIDE DEF X, L, e
    <3> QED BY <1>1, <1>9 DEF StandsAt, Ended
  <2>2. PICK b \in 1..Len(w) : w[b] = l.end
    BY <1>5, <2>1
  <2>3. p = e /\ e = Decrement(t, l.pos, o)
    BY <1>9 DEF Element
  <2>4. l.pos \in Node \union {Null} /\ l.end \in Node \union {Null} /\ l.end # Null
    <3>1. l.pos \in Node \union {Null} /\ l.end \in Node \union {Null}
      BY <1>1 DEF Loops
    <3> HIDE DEF X
    <3> QED BY <1>2, <2>1, <3>1, NodeAssumption
  <2>5. /\ n \in Loops /\ n.tree = t /\ n.order = o /\ ~n.forward /\ n.pos = e /\ n.end = l.end
        /\ n.due = l.due /\ n.seen = l.seen
    <3> HIDE DEF p, e, X
    <3> QED BY <1>1, <1>2, <1>7, <1>9, <2>3 DEF Loops
  <2> HIDE DEF p, X, L, e
  <2>6. e = l.end \/ e \in L[l.end]
    <3>1. CASE l.pos = Null
      <4>1. e = w[Len(w)] /\ Len(w) \in 1..Len(w)
        BY <1>5, <2>3, <3>1
      <4>2. b = Len(w) \/ b < Len(w)
        BY <1>5
      <4> QED BY <1>5, <2>2, <4>1, <4>2
    <3>2. CASE l.pos # Null
      <4>1. PICK j \in 1..Len(w) : w[j] = l.pos
        BY <1>5, <2>1, <3>2
      <4>2. b < j
        BY <1>5, <2>1, <2>2, <3>2, <4>1
      <4>3. j - 1 \in 1..(Len(w) - 1) /\ (j - 1) + 1 = j /\ j - 1 \in 1..Len(w)
        BY <1>5, <4>2
      <4>4. e = w[j - 1]
        BY <1>5, <2>3, <4>1, <4>3
      <4>5. b = j - 1 \/ b < j - 1
        BY <4>2, <4>3
      <4> QED BY <1>5, <2>2, <4>3, <4>4, <4>5
    <3> QED BY <3>1, <3>2
  <2>7. CASE e = l.end
    <3>1. Ended(n)
      BY <2>5, <2>7 DEF Ended
    <3>2. m = n
      BY <3>1 DEF Enter
    <3>3. l.due = {}
      <4>1. SUFFICES ASSUME NEW z \in l.due PROVE FALSE
        OBVIOUS
      <4>2. PICK i \in 1..Len(w) : w[i] = z
        BY <1>1, <1>5
      <4>3. i < k /\ (z = e \/ k < i)
        BY <1>5, <1>6, <2>1, <2>7, <4>2
      <4>4. z = e
        BY <1>5, <4>3
      <4>5. k < k
        BY <1>5, <1>6, <2>1, <4>4
      <4> QED BY <1>5, <4>5
    <3> HIDE DEF m
    <3>4. Runs(m, X, L, Element(m), live)
      BY <1>1, <2>5, <3>1, <3>2, <3>3 DEF Runs
    <3> QED BY <2>5, <3>1, <3>2, <3>4 DEF Tracks, X, L, m
  <2>8. CASE e # l.end
    <3>1. ~Ended(n) /\ b < k
      BY <1>5, <1>6, <2>2, <2>5, <2>6, <2>8 DEF Ended
    <3>2. k - 1 \in 1..(Len(w) - 1) /\ (k - 1) + 1 = k /\ k - 1 \in 1..Len(w)
      BY <1>5, <3>1
    <3>3. f = w[k - 1] /\ f \in X /\ f \in Node
      <4>1. f = Decrement(t, e, o)
        BY <2>5 DEF Element
      <4> HIDE DEF f
      <4> QED BY <1>2, <1>5, <1>6, <3>2, <4>1
    <3>4. /\ m \in Loops /\ m.tree = t /\ m.order = o /\ ~m.forward /\ m.pos = e /\ m.end = l.end
          /\ Element(m) = f /\ ~Ended(m)
          /\ m.due = l.due \ {f} /\ m.seen = l.seen \union {f}
      BY <2>5, <3>1, <3>3, EnterIs
    <3> HIDE DEF m, f
    <3>5. ASSUME NEW z \in l.due \ {f} PROVE f \in L[z]
      <4>1. PICK i \in 1..Len(w) : w[i] = z
        BY <1>1, <1>5
      <4>2. i < k /\ i # k - 1
        BY <1>5, <1>6, <2>1, <3>3, <4>1
      <4>3. i < k - 1
        BY <1>5, <4>2
      <4> QED BY <1>5, <3>2, <3>3, <4>1, <4>3
    <3>6. ASSUME NEW z \in l.seen PROVE z \in L[f] /\ z # f
      <4>1. PICK i \in 1..Len(w) : w[i] = z
        BY <1>1, <1>5
      <4>2. i = k \/ k < i
        <5>1. z = e \/ z \in L[e]
          BY <2>1
        <5>2. CASE z \in L[e]
          BY <1>5, <1>6, <4>1, <5>2
        <5>3. CASE z = e
          <6>1. ~(i < k) /\ ~(k < i)
            <7>1. ~(i < i) /\ ~(k < k)
              BY <1>5
            <7> QED BY <1>5, <1>6, <4>1, <5>3, <7>1
          <6> QED BY <1>5, <6>1
        <5> QED BY <5>1, <5>2, <5>3
      <4>3. k - 1 < i /\ ~(k - 1 < k - 1)
        BY <1>5, <4>2
      <4>4. z \in L[f]
        BY <1>5, <3>2, <3>3, <4>1, <4>3
      <4> QED BY <1>5, <3>2, <3>3, <4>1, <4>3, <4>4
    <3>7. StandsAt(m, X, L, f)
      <4>1. \A z \in m.due : f \in L[z] /\ (z = m.end \/ z \in L[m.end])
        BY <2>1, <3>4, <3>5
      <4>2. \A z \in m.seen : z = f \/ z \in L[f]
        BY <3>4, <3>6
      <4>3. m.pos \in X /\ m.pos \in L[m.end]
        BY <1>2, <2>6, <2>8, <3>4
      <4> QED BY <2>1, <3>3, <3>4, <4>1, <4>2, <4>3 DEF StandsAt
    <3>8. m.due \subseteq X /\ m.seen \subseteq X /\ f \notin l.seen
      BY <1>1, <3>3, <3>4, <3>6
    <3>9. Runs(m, X, L, f, live)
      BY <1>1, <3>4, <3>7, <3>8 DEF Runs
    <3>10. Tracks(m)
      BY <3>4, <3>9 DEF Tracks, X, L
    <3> QED BY <2>5, <3>4, <3>8, <3>10 DEF m
  <2> QED BY <2>7, <2>8
<1> QED BY <1>2, <1>8, <1>9

(* What is left of loop l's due and seen when only the nodes of stay do.   *)
Thinned(l, stay) == [l EXCEPT !.due = @ \intersect stay, !.seen = @ \intersect stay]

(* A step that keeps the order of the nodes of K, the iterators' and the   *)
(* element among them, leaves ahead what was ahead, and behind what was    *)
(* behind.                                                                 *)
LEMMA RunsOn ==
    ASSUME NEW l, NEW X, NEW L, NEW e, NEW alive, Runs(l, X, L, e, alive), ~Ended(l),
           NEW Y, NEW M, NEW living, l.tree \in living,
           NEW K, K \subseteq X, K \subseteq Y, \A x, y \in K : y \in L[x] => y \in M[x],
           e \in K, l.pos # Null => l.pos \in K, l.end # Null => l.end \in K,
           Null \notin X,
           NEW stay, X \intersect stay \subseteq K,
           NEW m, m = Thinned(l, stay)
    PROVE  Runs(m, Y, M, e, living)
<1>1. l \in Loops /\ l.due \subseteq X /\ l.seen \subseteq X /\ (l.forward => l.end = Null)
      /\ StandsAt(l, X, L, e)
  BY DEF Runs
<1> DEFINE d == l.due \intersect stay
           s == l.seen \intersect stay
<1>2. d \in SUBSET Node /\ s \in SUBSET Node /\ m = [l EXCEPT !.due = d, !.seen = s]
  BY <1>1 DEF Loops, Thinned
<1>3. d \subseteq K /\ s \subseteq K /\ d \subseteq l.due /\ s \subseteq l.seen
  BY <1>1
<1> HIDE DEF d, s
<1>4. /\ m \in Loops /\ m.tree = l.tree /\ m.forward = l.forward /\ m.pos = l.pos /\ m.end = l.end
      /\ m.due = d /\ m.seen = s
  BY <1>1, <1>2 DEF Loops
<1>5. ~Ended(m)
  BY <1>4 DEF Ended
<1>6. StandsAt(m, Y, M, e)
  <2>1. CASE l.forward
    <3>1. l.pos = e /\ (\A z \in l.due : z \in L[e]) /\ \A z \in l.seen : z = e \/ e \in L[z]
      BY <1>1, <2>1 DEF StandsAt
    <3>2. (\A z \in d : z \in M[e]) /\ \A z \in s : z = e \/ e \in M[z]
      BY <1>3, <3>1
    <3> QED BY <1>4, <2>1, <3>1, <3>2 DEF StandsAt
  <2>2. CASE ~l.forward
    <3>1. /\ l.end \in X /\ (l.pos # Null => l.pos \in X /\ l.pos \in L[l.end])
          /\ \A z \in l.due : e \in L[z] /\ (z = l.end \/ z \in L[l.end])
          /\ \A z \in l.seen : z = e \/ z \in L[e]
      BY <1>1, <2>2 DEF StandsAt
    <3>2. l.end \in K /\ (l.pos # Null => l.pos \in K /\ l.pos \in M[l.end])
      BY <3>1
    <3>3. \A z \in d : e \in M[z] /\ (z = l.end \/ z \in M[l.end])
      BY <1>3, <3>1, <3>2
    <3>4. \A z \in s : z = e \/ z \in M[e]
      BY <1>3, <3>1
    <3> QED BY <1>4, <2>2, <3>2, <3>3, <3>4 DEF StandsAt
  <2> QED BY <2>1, <2>2
<1>7. m.due \subseteq Y /\ m.seen \subseteq Y
  BY <1>3, <1>4
<1> QED BY <1>1, <1>4, <1>5, <1>6, <1>7 DEF Runs

-----------------------------------------------------------------------------
(* Steps of a loop and of its body.                                        *)

(* Every tree has its list.                                                *)
Walks == \A t \in Tree, o \in Order : root[t] # Null => \E w : IsWalk(w, t, o)

(* This holds in every state of the invariants of the trees.               *)
LEMMA WalksAre == IInv /\ ExtremaAreExtreme => Walks
BY WalkIs DEF Walks

(* A step that keeps the order of what it does not move keeps LoopInv.     *)
(* That the element of a reverse loop is still in the tree comes from the  *)
(* list of the new tree: it is what -- comes to from a node behind end.    *)
LEMMA FollowKeeps ==
    ASSUME IInv, IInv', Walks', NEW moved, \A v \in Tree : StaysFor(v, moved),
           LoopInv, Follow(moved)
    PROVE  LoopInv'
<1>1. CASE loop = Idle
  BY <1>1 DEF Follow, LoopInv, Idle
<1>2. CASE loop # Idle
  <2>1. PICK l : l = loop
    OBVIOUS
  <2>2. PICK m : m = loop'
    OBVIOUS
  <2> DEFINE t == l.tree
             o == l.order
             X == Nodes(t)
             L == Later(heap, X, o)
             e == Element(l)
             Y == {n \in Node : store'[n] = t}
             M == Later(heap', Y, o)
             stay == {n \in Node \ moved : store'[n] = t}
             K == Staying(t, moved)
             goesOn == /\ t \in live'
                       /\ l.pos # Null => store'[l.pos] = t
                       /\ l.end # Null => store'[l.end] = t
                       /\ l.pos \notin moved /\ l.end \notin moved
                       /\ ~l.forward => Element(l)' = e /\ e \notin moved
  <2>3. Runs(l, X, L, e, live)
    BY <1>2, <2>1 DEF LoopInv, Tracks
  <2>4. /\ ~Ended(l)
        /\ m = IF goesOn THEN [l EXCEPT !.due = @ \intersect stay, !.seen = @ \intersect stay]
               ELSE Idle
    BY <1>2, <2>1, <2>2 DEF Follow
  <2>5. CASE ~goesOn
    <3>1. m = Idle
      BY <2>4, <2>5
    <3> QED BY <2>2, <3>1 DEF LoopInv, Idle
  <2>6. CASE goesOn
    <3>1. l \in Loops /\ StandsAt(l, X, L, e) /\ (l.forward => l.end = Null)
      BY <2>3, <2>4 DEF Runs
    <3>2. t \in Tree /\ o \in Order /\ X \subseteq Node /\ Y \subseteq Node /\ Null \notin Node
      BY <3>1, NodeAssumption DEF Loops, Nodes
    <3>3. Nodes(t)' = Y
      BY DEF Nodes
    <3>4. K = (X \intersect Y) \ moved /\ stay = Y \ moved
      BY <3>3 DEF Staying
    <3>5. \A x, y \in K : y \in L[x] => y \in M[x]
      <4>1. StaysFor(t, moved)
        BY <3>2
      <4>2. OrderStays(heap, X, heap', Y, K)
        BY <3>3, <4>1 DEF StaysFor
      <4>3. K \subseteq Node
        BY <3>2, <3>4
      <4> HIDE DEF X, Y, K, o
      <4> QED BY <3>2, <4>2, <4>3, LaterIs DEF OrderStays
    <3>6. (l.pos # Null => l.pos \in X) /\ (l.end # Null => l.end \in X) /\ e \in X
      <4> HIDE DEF X, L, e
      <4> QED BY <3>1 DEF StandsAt
    <3>7. (l.pos # Null => l.pos \in K) /\ (l.end # Null => l.end \in K)
      <4>1. (l.pos # Null => store'[l.pos] = t) /\ (l.end # Null => store'[l.end] = t)
            /\ l.pos \notin moved /\ l.end \notin moved
        BY <2>6
      <4>2. (l.pos # Null => l.pos \in Y) /\ (l.end # Null => l.end \in Y)
        BY <3>2, <3>6, <4>1
      <4> HIDE DEF X, Y, K
      <4> QED BY <3>4, <3>6, <4>1, <4>2
    <3>8. e \in K /\ Element(l)' = e
      <4>1. CASE l.forward
        <5>1. e = l.pos /\ Element(l)' = l.pos /\ l.pos # Null
          <6>1. e = l.pos /\ Element(l)' = l.pos
            BY <4>1 DEF Element
          <6> HIDE DEF X, e
          <6> QED BY <3>2, <3>6, <6>1
        <5> HIDE DEF K, e
        <5> QED BY <3>7, <5>1
      <4>2. CASE ~l.forward
        <5>1. Element(l)' = e /\ e \notin moved
          BY <2>6, <4>2
        <5>2. e = Decrement(t, l.pos, o)'
          <6>1. Element(l)' = Decrement(t, l.pos, o)'
            BY <4>2 DEF Element
          <6> QED BY <5>1, <6>1
        <5>3. /\ l.end \in X /\ l.end # Null /\ l.end \in K
              /\ l.pos # Null => l.pos \in X /\ l.pos \in L[l.end]
          <6>1. l.end \in X /\ (l.pos # Null => l.pos \in X /\ l.pos \in L[l.end])
            <7> HIDE DEF X, L, e
            <7> QED BY <3>1, <4>2 DEF StandsAt
          <6> HIDE DEF X, K, L
          <6> QED BY <3>2, <3>7, <6>1
        <5>4. l.pos # Null => l.pos \in K /\ l.pos \in M[l.end]
          <6> HIDE DEF X, K, L, M
          <6> QED BY <3>5, <3>7, <5>3
        <5>5. root'[t] # Null
          <6>1. l.end \in Y
            BY <3>4, <5>3
          <6>2. \A n \in Node : store'[n] = t => root'[t] # Null
            BY <3>2 DEF IInv, Owns, Owned, Nodes
          <6> QED BY <6>1, <6>2
        <5>6. PICK w : IsWalk(w, t, o)'
          BY <3>2, <5>5 DEF Walks
        <5>7. /\ Len(w) \in Nat \ {0}
              /\ \A x : x \in Y <=> \E i \in 1..Len(w) : w[i] = x
              /\ \A i, j \in 1..Len(w) : w[j] \in M[w[i]] <=> i < j
              /\ \A i \in 1..(Len(w) - 1) : Decrement(t, w[i + 1], o)' = w[i]
              /\ Decrement(t, Null, o)' = w[Len(w)]
          BY <3>3, <5>6 DEF IsWalk
        <5>8. \E i \in 1..Len(w) : e = w[i]
          <6>1. CASE l.pos = Null
            <7>1. Decrement(t, l.pos, o)' = Decrement(t, Null, o)'
              BY <6>1
            <7>2. Len(w) \in 1..Len(w)
              BY <5>7
            <7> QED BY <5>2, <5>7, <7>1, <7>2
          <6>2. CASE l.pos # Null
            <7>1. l.pos \in Y /\ l.end \in Y
              BY <3>4, <5>3, <5>4, <6>2
            <7>2. PICK j \in 1..Len(w), b \in 1..Len(w) : w[j] = l.pos /\ w[b] = l.end
              <8> HIDE DEF Y
              <8> QED BY <5>7, <7>1
            <7>3. b < j
              <8> HIDE DEF M
              <8> QED BY <5>4, <5>7, <6>2, <7>2
            <7>4. j - 1 \in 1..(Len(w) - 1) /\ (j - 1) + 1 = j /\ j - 1 \in 1..Len(w)
              BY <5>7, <7>3
            <7>5. Decrement(t, w[j], o)' = w[j - 1]
              BY <5>7, <7>4
            <7>6. Decrement(t, w[j], o)' = Decrement(t, l.pos, o)'
              BY <7>2
            <7> QED BY <5>2, <7>4, <7>5, <7>6
          <6> QED BY <6>1, <6>2
        <5>9. e \in Y
          <6> HIDE DEF Y, e
          <6> QED BY <5>7, <5>8
        <5> HIDE DEF X, Y, K, e
        <5> QED BY <3>4, <3>6, <5>1, <5>9
      <4> QED BY <4>1, <4>2
    <3>9. m = Thinned(l, stay) /\ t \in live'
      BY <2>4, <2>6 DEF Thinned
    <3>10. Runs(m, Y, M, e, live')
      <4>1. K \subseteq X /\ K \subseteq Y /\ X \intersect stay \subseteq K /\ Null \notin X
        BY <3>2, <3>4
      <4> HIDE DEF X, Y, K, L, M, e, stay
      <4> QED BY <2>3, <2>4, <3>5, <3>7, <3>8, <3>9, <4>1, RunsOn
    <3>11. m.tree = t /\ m.order = o /\ m.forward = l.forward /\ m.pos = l.pos
      <4> HIDE DEF stay
      <4> QED BY <3>1, <3>9 DEF Loops, Thinned
    <3>12. Element(m)' = e
      <4>1. Element(m)' = Element(l)'
        BY <3>11 DEF Element
      <4> QED BY <3>8, <4>1
    <3>13. Element(loop)' = Element(m)'
      BY <2>2 DEF Element
    <3>14. Nodes(loop.tree)' = Y
      BY <2>2, <3>11 DEF Nodes
    <3>15. Tracks(loop)'
      <4>1. Runs(loop', Nodes(loop.tree)', Later(heap', Nodes(loop.tree)', loop'.order),
                 Element(loop)', live')
        <5> HIDE DEF Y, e
        <5> QED BY <2>2, <3>10, <3>11, <3>12, <3>13, <3>14 DEF M
      <4> QED BY <4>1 DEF Tracks
    <3> QED BY <3>15 DEF LoopInv
  <2> QED BY <2>5, <2>6
<1> QED BY <1>1, <1>2

(* Without a step of the trees, loops stand where they stood, ...          *)
LEMMA ElementStays ==
    ASSUME UNCHANGED vars, NEW m, loop' = m PROVE Element(loop)' = Element(m)
BY DEF vars, pointers, Element, Decrement, DfsLast, PreviousInPreOrder, PreviousInPostOrder,
       IsLeftmost, OnTheLeft, Climb, TopParent

(* ... and run on as they did.                                             *)
LEMMA TracksOn ==
    ASSUME UNCHANGED vars, NEW m, Tracks(m), loop' = m PROVE LoopInv'
<1>1. Element(loop)' = Element(m)
  BY ElementStays
<1>2. heap' = heap /\ store' = store /\ live' = live
  BY DEF vars
<1>3. Nodes(loop.tree)' = Nodes(m.tree)
  BY <1>2 DEF Nodes
<1>4. Runs(m, Nodes(m.tree), Later(heap, Nodes(m.tree), m.order), Element(m), live)
  BY DEF Tracks
<1>5. Tracks(loop)'
  <2>1. Runs(loop', Nodes(loop.tree)', Later(heap', Nodes(loop.tree)', loop'.order),
             Element(loop)', live')
    BY <1>1, <1>2, <1>3, <1>4
  <2> QED BY <2>1 DEF Tracks
<1> QED BY <1>5 DEF LoopInv

(* What the steps of a loop and of its body come from and go on with.      *)
LoopsAreRight == IInv /\ ExtremaAreExtreme /\ LoopInv

(* A step of a loop or of its body is a step of the trees, or none.        *)
LEMMA LoopStepIs == ASSUME [LoopNext]_<<vars, loop>> PROVE [Next]_vars
<1>1. CASE UNCHANGED <<vars, loop>>
  BY <1>1
<1>2. CASE (\E t \in Tree, o \in Order : BeginLoop(t, o)) \/ Advance \/ EndLoop
  BY <1>2 DEF BeginLoop, Advance, EndLoop
<1>3. CASE OrderKept /\ Follow({})
  BY <1>3 DEF Next
<1>4. CASE \E t, u \in Tree : CopyTree(t, u)
  BY <1>4 DEF CopyTree, Next
<1>5. CASE \E t \in Tree, where, s \in Node : MoveInTree(t, where, s)
  BY <1>5 DEF MoveInTree, Next
<1> QED BY <1>1, <1>2, <1>3, <1>4, <1>5 DEF LoopNext

(* Advance keeps LoopInv, and comes to nothing seen.                       *)
LEMMA AdvanceIs ==
    ASSUME LoopsAreRight, Advance
    PROVE  LoopInv' /\ (~Ended(loop') => Element(loop)' \notin loop.seen)
<1>1. PICK l : l = loop
  OBVIOUS
<1>2. PICK n : n = [l EXCEPT !.pos = IF l.forward THEN Increment(@, l.order) ELSE Element(l)]
  OBVIOUS
<1>3. loop # Idle /\ ~Ended(l) /\ loop' = Enter(n) /\ UNCHANGED vars
  BY <1>1, <1>2 DEF Advance
<1>4. IInv /\ ExtremaAreExtreme /\ Tracks(l)
  BY <1>1, <1>3 DEF LoopsAreRight, LoopInv
<1>5. Tracks(Enter(n)) /\ (~Ended(Enter(n)) => Element(Enter(n)) \notin l.seen)
  BY <1>2, <1>3, <1>4, AdvanceRuns
<1>6. PICK m : m = loop'
  OBVIOUS
<1>7. Tracks(m) /\ (~Ended(m) => Element(m) \notin l.seen)
  BY <1>3, <1>5, <1>6
<1> QED BY <1>1, <1>3, <1>6, <1>7, TracksOn, ElementStays

(* Every step keeps LoopInv.                                               *)
LEMMA LoopStepKeeps ==
    ASSUME Wild = {}, LoopsAreRight, IInv', Walks', [LoopNext]_<<vars, loop>>
    PROVE  LoopInv'
<1>0. IInv /\ ExtremaAreExtreme /\ LoopInv
  BY DEF LoopsAreRight
<1>1. CASE UNCHANGED <<vars, loop>>
  <2>1. CASE loop = Idle
    BY <1>1, <2>1 DEF LoopInv, Idle
  <2>2. CASE loop # Idle
    <3>1. PICK m : m = loop
      OBVIOUS
    <3>2. Tracks(m) /\ loop' = m /\ UNCHANGED vars
      BY <1>0, <1>1, <2>2, <3>1 DEF LoopInv
    <3> QED BY <3>2, TracksOn
  <2> QED BY <2>1, <2>2
<1>2. ASSUME NEW t \in Tree, NEW o \in Order, BeginLoop(t, o) PROVE LoopInv'
  <2>1. PICK forward \in BOOLEAN :
          loop' = Enter([tree |-> t, order |-> o, forward |-> forward,
                         pos |-> IF forward THEN DfsBegin(t, o) ELSE Null,
                         end |-> IF forward THEN Null ELSE DfsBegin(t, o),
                         due |-> Nodes(t), seen |-> {}])
    BY <1>2 DEF BeginLoop
  <2>2. PICK n : n = [tree |-> t, order |-> o, forward |-> forward,
                         pos |-> IF forward THEN DfsBegin(t, o) ELSE Null,
                         end |-> IF forward THEN Null ELSE DfsBegin(t, o),
                         due |-> Nodes(t), seen |-> {}]
    OBVIOUS
  <2>3. t \in live /\ UNCHANGED vars
    BY <1>2 DEF BeginLoop
  <2>4. Tracks(Enter(n))
    BY <1>0, <2>2, <2>3, BeginRuns
  <2>5. PICK m : m = loop'
    OBVIOUS
  <2>6. Tracks(m)
    BY <2>1, <2>2, <2>4, <2>5
  <2> QED BY <2>3, <2>5, <2>6, TracksOn
<1>3. CASE Advance
  BY <1>3, AdvanceIs
<1>4. CASE EndLoop
  BY <1>4 DEF EndLoop, LoopInv, Idle
<1>5. CASE OrderKept /\ Follow({})
  <2>1. \A v \in Tree : StaysFor(v, {})
    BY <1>0, <1>5, OrderKeptStays
  <2> QED BY <1>0, <1>5, <2>1, FollowKeeps
<1>6. ASSUME NEW t \in Tree, NEW u \in Tree, CopyTree(t, u) PROVE LoopInv'
  <2>1. CopyContents(t, root[u]) /\ Follow(Nodes(t))
    BY <1>6 DEF CopyTree, CopyAssign
  <2>2. PICK moved : moved = Nodes(t)
    OBVIOUS
  <2>3. ASSUME NEW v \in Tree PROVE StaysFor(v, moved)
    <3>1. PICK from : from = root[u]
      OBVIOUS
    <3>2. CopyContents(t, from) /\ Nodes(t) \subseteq moved
      BY <2>1, <2>2, <3>1
    <3> QED BY <1>0, <3>2, CopyStays
  <2>4. Follow(moved)
    BY <2>1, <2>2
  <2> QED BY <1>0, <2>3, <2>4, FollowKeeps
<1>7. ASSUME NEW t \in Tree, NEW where \in Node, NEW s \in Node, MoveInTree(t, where, s)
      PROVE  LoopInv'
  <2>1. Move(t, where, s) /\ Follow(Subtree(heap, s))
    BY <1>7 DEF MoveInTree
  <2>2. PICK moved : moved = Subtree(heap, s)
    OBVIOUS
  <2>3. \A v \in Tree : StaysFor(v, moved)
    <3>1. "move" \notin Wild
      OBVIOUS
    <3> QED BY <1>0, <2>1, <2>2, <3>1, MoveStays
  <2>4. Follow(moved)
    BY <2>1, <2>2
  <2> QED BY <1>0, <2>3, <2>4, FollowKeeps
<1> QED BY <1>1, <1>2, <1>3, <1>4, <1>5, <1>6, <1>7 DEF LoopNext

-----------------------------------------------------------------------------
(* What loops do.                                                          *)

(* So it holds, with the invariants of the trees, as long as the           *)
(* operations are used within what they handle well.                       *)
LEMMA LoopsStayRight == ASSUME Wild = {} PROVE LoopSpec => []LoopsAreRight
<1>1. LoopInit => LoopsAreRight
  BY InitIInv, InitExtrema DEF LoopInit, LoopsAreRight, LoopInv
<1>2. IInv /\ [LoopNext]_<<vars, loop>> => IInv'
  BY LoopStepIs, NextKeeps
<1>3. IInv /\ IInv' /\ ExtremaAreExtreme /\ [LoopNext]_<<vars, loop>> => ExtremaAreExtreme'
  BY LoopStepIs, NextKeepsExtrema
<1>4. LoopsAreRight /\ IInv' /\ Walks' /\ [LoopNext]_<<vars, loop>> => LoopInv'
  BY LoopStepKeeps
<1>5. LoopsAreRight <=> IInv /\ ExtremaAreExtreme /\ LoopInv
  BY DEF LoopsAreRight
<1> QED BY <1>1, <1>2, <1>3, <1>4, <1>5, WalksAre, PTL DEF LoopSpec

(* A loop over a tree, forward or reverse, in either order, whatever its   *)
(* body inserts, erases, merges, cuts off, copies or moves, comes to every *)
(* node that was in the tree from the start and stayed in its place: the   *)
(* climbs of dfs_next and dfs_previous, which look only at the node they   *)
(* start from, make up for all of it.                                      *)
THEOREM LoopsMissNothing == ASSUME Wild = {} PROVE LoopSpec => []MissesNothing
<1>1. LoopsAreRight => MissesNothing
  BY DEF LoopsAreRight, LoopInv, Tracks, Runs, MissesNothing
<1> QED BY <1>1, LoopsStayRight, PTL

(* Such a loop comes to no node a second time unless the node was moved.   *)
THEOREM LoopsComeTwiceNowhere == ASSUME Wild = {} PROVE LoopSpec => NothingTwice
<1>1. ASSUME LoopsAreRight, [LoopNext]_<<vars, loop>>
      PROVE  [loop # Idle /\ loop' # Idle /\ loop'.pos # loop.pos /\ ~Ended(loop')
                => Element(loop)' \notin loop.seen]_<<vars, loop>>
  <2>1. SUFFICES ASSUME loop # Idle, loop' # Idle, loop'.pos # loop.pos, ~Ended(loop')
                 PROVE  Element(loop)' \notin loop.seen
    OBVIOUS
  <2>2. CASE UNCHANGED <<vars, loop>>
    BY <2>1, <2>2
  <2>3. CASE Advance
    BY <1>1, <2>1, <2>3, AdvanceIs
  <2>4. CASE (\E t \in Tree, o \in Order : BeginLoop(t, o)) \/ EndLoop
    BY <2>1, <2>4 DEF BeginLoop, EndLoop, Idle
  <2>5. ASSUME NEW moved, Follow(moved) PROVE FALSE
    <3>1. loop \in Loops
      BY <1>1, <2>1 DEF LoopsAreRight, LoopInv, Tracks, Runs
    <3>2. \E stay : loop' = Thinned(loop, stay)
      BY <2>1, <2>5 DEF Follow, Idle, Thinned
    <3>3. loop'.pos = loop.pos
      BY <3>1, <3>2 DEF Loops, Thinned
    <3> QED BY <2>1, <3>3
  <2>6. CASE \/ OrderKept /\ Follow({})
             \/ \E t, u \in Tree : CopyTree(t, u)
             \/ \E t \in Tree, where, s \in Node : MoveInTree(t, where, s)
    BY <2>5, <2>6 DEF CopyTree, MoveInTree
  <2> QED BY <1>1, <2>2, <2>3, <2>4, <2>6 DEF LoopNext
<1> QED BY <1>1, LoopsStayRight, PTL DEF LoopSpec, NothingTwice
==============================================================================
