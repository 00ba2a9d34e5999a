----------------------------- MODULE NodeProofs ------------------------------
(***************************************************************************)
(* Lemmas about the operators of Node, for any finite set of nodes: what the*)
(* recursive functions that climb up and down a heap reach, and what the   *)
(* operations of node.hpp do.  Inserting a tree as a child, taking a subtree*)
(* out and merging a node into its parent turn parts of the heap whose     *)
(* pointers agree and that hang on one root into such parts again.         *)
(***************************************************************************)
EXTENDS Node, SequenceTheorems, FiniteSetTheorems, WellFoundedInduction, TLAPS

(* Induction over the naturals, for a set instead of a predicate.          *)
LEMMA SetInduction ==
    ASSUME NEW T, 0 \in T, \A n \in Nat : n \in T => n + 1 \in T
    PROVE  Nat \subseteq T
<1> DEFINE R == {p \in Nat \X Nat : p[1] < p[2]}
           U == Nat \ T
<1>1. IsWellFoundedOn(R, Nat)
  BY NatLessThanWellFounded DEF OpToRel
<1>2. ASSUME U # {} PROVE FALSE
  <2>1. PICK x \in U : \A y \in U : ~(<<y, x>> \in R)
    <3> HIDE DEF R
    <3> QED BY <1>1, <1>2, WFMin
  <2>2. x \in Nat /\ x # 0
    OBVIOUS
  <2>3. x - 1 \in Nat /\ x - 1 \notin T
    BY <2>2
  <2>4. <<x - 1, x>> \in R
    BY <2>2, <2>3
  <2> QED BY <2>1, <2>3, <2>4
<1> QED BY <1>2

(* d[k] is x after k applications of step.                                 *)
IsIteration(d, V, step, x, n) ==
    d \in [0..n -> V] /\ d[0] = x /\ \A k \in 1..n : d[k] = step[d[k - 1]]

LEMMA IterationExists ==
    ASSUME NEW V, NEW step, step \in [V -> V], NEW x, x \in V, NEW m \in Nat
    PROVE  \E d : IsIteration(d, V, step, x, m)
<1> DEFINE Iterates(d, n) == IsIteration(d, V, step, x, n)
           T == {n \in Nat : \E d : Iterates(d, n)}
<1>1. 0 \in T
  <2>1. Iterates([k \in 0..0 |-> x], 0)
    BY DEF IsIteration
  <2> QED BY <2>1
<1>2. ASSUME NEW n \in Nat, n \in T PROVE n + 1 \in T
  <2>1. PICK d : Iterates(d, n)
    BY <1>2
  <2> DEFINE e == [k \in 0..(n + 1) |-> IF k = n + 1 THEN step[d[n]] ELSE d[k]]
  <2>2. e \in [0..(n + 1) -> V]
    BY <2>1 DEF IsIteration
  <2>3. ASSUME NEW k \in 1..(n + 1)
        PROVE  e[k] = step[e[k - 1]]
    <3>1. CASE k = n + 1
      BY <3>1
    <3>2. CASE k # n + 1
      <4>1. k \in 1..n /\ k - 1 \in 0..n /\ e[k] = d[k] /\ e[k - 1] = d[k - 1]
        BY <3>2
      <4> QED BY <4>1, <2>1 DEF IsIteration
    <3> QED BY <3>1, <3>2
  <2>4. e[0] = x
    BY <2>1 DEF IsIteration
  <2> HIDE DEF e
  <2>5. Iterates(e, n + 1)
    BY <2>2, <2>3, <2>4 DEF IsIteration
  <2> HIDE DEF Iterates
  <2> QED BY <2>5
<1> HIDE DEF T
<1>3. Nat \subseteq T
  BY <1>1, <1>2, SetInduction
<1> QED BY <1>3 DEF T

(* A function on 0..m is such an iteration as soon as each value follows   *)
(* from the one before, provided that one is in V.                         *)
LEMMA IterationIs ==
    ASSUME NEW V, NEW step, step \in [V -> V], NEW x, x \in V, NEW m \in Nat,
           NEW f, f = [k \in 0..m |-> f[k]], f[0] = x,
           \A k \in 1..m : f[k - 1] \in V => f[k] = step[f[k - 1]]
    PROVE  IsIteration(f, V, step, x, m)
<1> DEFINE T == {k \in Nat : k <= m => f[k] \in V}
<1>1. 0 \in T
  OBVIOUS
<1>2. ASSUME NEW k \in Nat, k \in T PROVE k + 1 \in T
  <2>1. CASE k + 1 <= m
    <3>1. k + 1 \in 1..m /\ (k + 1) - 1 = k /\ f[k] \in V
      BY <1>2, <2>1
    <3>2. f[k + 1] = step[f[k]]
      BY <3>1
    <3> QED BY <3>1, <3>2
  <2>2. CASE ~(k + 1 <= m)
    BY <2>2
  <2> QED BY <2>1, <2>2
<1>3. Nat \subseteq T
  <2> HIDE DEF T
  <2> QED BY <1>1, <1>2, SetInduction
<1>4. \A k \in 0..m : f[k] \in V
  BY <1>3
<1>5. f \in [0..m -> V]
  BY <1>4
<1>6. \A k \in 1..m : f[k - 1] \in V
  BY <1>4
<1> QED BY <1>5, <1>6 DEF IsIteration

(* The sets reached in 0, 1, 2... steps along succ: once there are as many *)
(* of them as elements, their union is closed under succ.                  *)
AreLevels(d, S, succ, x, m) ==
    /\ d \in [0..m -> SUBSET S] /\ d[0] = {x}
    /\ \A k \in 1..m : d[k] = UNION {succ[y] : y \in d[k - 1]}

Reached(d, m) == UNION {d[k] : k \in 0..m}
IsShut(X, succ) == \A y \in X : succ[y] \subseteq X

LEMMA LevelsAreClosed ==
    ASSUME NEW S, IsFiniteSet(S), NEW succ, succ \in [S -> SUBSET S], NEW x, x \in S,
           NEW M \in Nat, Cardinality(S) <= M + 1,
           NEW d, AreLevels(d, S, succ, x, M)
    PROVE  IsShut(Reached(d, M), succ)
<1> USE DEF AreLevels, Reached, IsShut
<1> DEFINE C(m)     == UNION {d[k] : k \in 0..m}
           Shut(m) == \A z \in C(m) : succ[z] \subseteq C(m)
           T == {m \in Nat : m <= M => Shut(m) \/ Cardinality(C(m)) >= m + 1}
<1>1. \A m \in 0..M : C(m) \subseteq S
  OBVIOUS
<1>2. 0 \in T
  <2>1. C(0) = {x}
    OBVIOUS
  <2>2. Cardinality(C(0)) = 1
    BY <2>1, FS_Singleton
  <2> QED BY <2>2
<1>3. ASSUME NEW m \in Nat, m \in T, m + 1 <= M PROVE m + 1 \in T
  <2>1. /\ m \in 0..M /\ m + 1 \in 1..M
        /\ d[m + 1] = UNION {succ[z] : z \in d[m]}
    BY <1>3
  <2>2. C(m + 1) = C(m) \union d[m + 1]
    <3>1. 0..(m + 1) = 0..m \union {m + 1}
      OBVIOUS
    <3> QED BY <3>1
  <2>3. CASE Shut(m)
    <3>1. d[m + 1] \subseteq C(m)
      BY <2>1, <2>3
    <3>2. C(m + 1) = C(m)
      BY <2>2, <3>1
    <3> HIDE DEF C
    <3> QED BY <2>3, <3>2
  <2>4. CASE ~Shut(m)
    <3>1. Cardinality(C(m)) >= m + 1
      BY <1>3, <2>1, <2>4
    <3>11. PICK z \in C(m) : ~(succ[z] \subseteq C(m))
      BY <2>4
    <3>2. PICK c \in succ[z] : c \notin C(m)
      BY <3>11
    <3>3. PICK j \in 0..m : z \in d[j]
      BY <3>2
    <3>4. c \in d[j + 1]
      <4>1. j + 1 \in 1..M /\ (j + 1) - 1 = j
        BY <2>1
      <4> QED BY <3>2, <3>3, <4>1
    <3>5. j = m
      <4>1. j + 1 \notin 0..m
        BY <3>2, <3>4
      <4> QED BY <4>1
    <3>6. C(m) \union {c} \subseteq C(m + 1)
      BY <2>2, <3>4, <3>5
    <3>7. IsFiniteSet(C(m)) /\ IsFiniteSet(C(m + 1))
      BY <1>1, <2>1, FS_Subset
    <3> HIDE DEF C
    <3>8. IsFiniteSet(C(m) \union {c}) /\ Cardinality(C(m) \union {c}) = Cardinality(C(m)) + 1
      BY <3>2, <3>7, FS_AddElement
    <3>9. Cardinality(C(m) \union {c}) <= Cardinality(C(m + 1))
      BY <3>6, <3>7, FS_Subset
    <3>10. /\ Cardinality(C(m)) \in Nat /\ Cardinality(C(m + 1)) \in Nat
           /\ Cardinality(C(m) \union {c}) \in Nat
      BY <3>7, <3>8, FS_CardinalityType
    <3> QED BY <3>1, <3>8, <3>9, <3>10
  <2> QED BY <2>3, <2>4
<1>4. \A m \in Nat : m \in T => m + 1 \in T
  <2> SUFFICES ASSUME NEW m \in Nat, m \in T PROVE m + 1 \in T
    OBVIOUS
  <2>1. CASE m + 1 <= M
    BY <1>3, <2>1
  <2>2. CASE ~(m + 1 <= M)
    BY <2>2
  <2> QED BY <2>1, <2>2
<1>5. M \in T
  <2> HIDE DEF T
  <2> QED BY <1>2, <1>4, SetInduction
<1>6. CASE Shut(M)
  BY <1>6
<1>7. CASE Cardinality(C(M)) >= M + 1
  <2>1. C(M) \subseteq S
    BY <1>1
  <2>2. IsFiniteSet(C(M)) /\ Cardinality(C(M)) \in Nat /\ Cardinality(S) \in Nat
        /\ Cardinality(C(M)) <= Cardinality(S)
    <3> HIDE DEF C
    <3> QED BY <2>1, FS_Subset, FS_CardinalityType
  <2>3. C(M) = S
    <3> HIDE DEF C
    <3>1. Cardinality(C(M)) = Cardinality(S)
      BY <1>7, <2>2
    <3> QED BY <2>1, <3>1, FS_Subset
  <2> QED BY <2>3
<1> QED BY <1>5, <1>6, <1>7

-----------------------------------------------------------------------------
(* Subtree.                                                                *)

NodeCount == Cardinality(Node)

LEMMA NodeCountType == NodeCount \in Nat
BY NodeAssumption, FS_CardinalityType DEF NodeCount

LEMMA ChildrenAreNodes == ASSUME NEW h \in Heap, NEW n \in Node PROVE Children(h, n) \subseteq Node
<1>1. h[n].children \in Seq(Node)
  BY DEF Heap
<1> QED BY <1>1 DEF Children, ToSet

LEMMA SubtreeLevels ==
    ASSUME NEW h \in Heap, NEW n \in Node
    PROVE  \E d \in [0..NodeCount -> SUBSET Node] :
             /\ d[0] = {n}
             /\ \A k \in 1..NodeCount : d[k] = UNION {Children(h, m) : m \in d[k - 1]}
             /\ Subtree(h, n) = UNION {d[k] : k \in 0..NodeCount}
<1> DEFINE Below(X) == UNION {Children(h, m) : m \in X}
           step == [X \in SUBSET Node |-> Below(X)]
           Body(d) == [k \in 0..NodeCount |-> IF k = 0 THEN {n} ELSE Below(d[k - 1])]
           down == CHOOSE d : d = Body(d)
<1>1. step \in [SUBSET Node -> SUBSET Node]
  BY ChildrenAreNodes
<1>2. PICK d : IsIteration(d, SUBSET Node, step, {n}, NodeCount)
  <2> HIDE DEF step
  <2>1. {n} \in SUBSET Node
    OBVIOUS
  <2> QED BY <1>1, <2>1, NodeCountType, IterationExists, Zenon
<1>3. d = Body(d)
  <2>1. ASSUME NEW k \in 0..NodeCount
        PROVE  d[k] = IF k = 0 THEN {n} ELSE Below(d[k - 1])
    <3>1. CASE k = 0
      BY <3>1, <1>2 DEF IsIteration
    <3>2. CASE k # 0
      <4>1. k - 1 \in 0..NodeCount /\ k \in 1..NodeCount
        BY <3>2, NodeCountType
      <4>2. d[k - 1] \in SUBSET Node /\ d[k] = step[d[k - 1]]
        BY <1>2, <4>1 DEF IsIteration
      <4> QED BY <3>2, <4>2
    <3> QED BY <3>1, <3>2
  <2> HIDE DEF Below
  <2>2. d = [k \in 0..NodeCount |-> d[k]]
    BY <1>2 DEF IsIteration
  <2> QED BY <2>1, <2>2
<1>4. down = Body(down)
  <2> HIDE DEF Body
  <2> QED BY <1>3
<1>5. Subtree(h, n) = UNION {down[k] : k \in 0..NodeCount}
  BY DEF Subtree, NodeCount
<1> HIDE DEF down
<1>6. /\ down = [k \in 0..NodeCount |-> down[k]]
      /\ \A k \in 0..NodeCount : down[k] = IF k = 0 THEN {n} ELSE Below(down[k - 1])
  <2> HIDE DEF Below
  <2> QED BY <1>4
<1>7. down[0] = {n} /\ \A k \in 1..NodeCount : down[k] = Below(down[k - 1])
  <2> HIDE DEF Below
  <2>1. 0 \in 0..NodeCount /\ \A k \in 1..NodeCount : k \in 0..NodeCount /\ k # 0
    BY NodeCountType
  <2> QED BY <1>6, <2>1
<1>8. IsIteration(down, SUBSET Node, step, {n}, NodeCount)
  <2>1. {n} \in SUBSET Node
    OBVIOUS
  <2>2. \A k \in 1..NodeCount : down[k - 1] \in SUBSET Node => down[k] = step[down[k - 1]]
    BY <1>7
  <2> HIDE DEF step
  <2> QED BY <1>1, <1>6, <1>7, <2>1, <2>2, NodeCountType, IterationIs
<1> QED BY <1>5, <1>7, <1>8 DEF IsIteration

LEMMA SubtreeIn ==
    ASSUME NEW h \in Heap, NEW n \in Node
    PROVE  n \in Subtree(h, n) /\ Subtree(h, n) \subseteq Node
BY SubtreeLevels, NodeCountType

(* Nothing below a node of the subtree is left out by the bound on depths. *)
LEMMA SubtreeClosed ==
    ASSUME NEW h \in Heap, NEW n \in Node, NEW m \in Subtree(h, n)
    PROVE  Children(h, m) \subseteq Subtree(h, n)
<1> DEFINE succ == [y \in Node |-> Children(h, y)]
<1>1. PICK d \in [0..NodeCount -> SUBSET Node] :
             /\ d[0] = {n}
             /\ \A k \in 1..NodeCount : d[k] = UNION {Children(h, y) : y \in d[k - 1]}
             /\ Subtree(h, n) = UNION {d[k] : k \in 0..NodeCount}
  BY SubtreeLevels
<1>2. succ \in [Node -> SUBSET Node]
  BY ChildrenAreNodes
<1>3. \A k \in 1..NodeCount : d[k] = UNION {succ[y] : y \in d[k - 1]}
  <2> SUFFICES ASSUME NEW k \in 1..NodeCount PROVE d[k] = UNION {succ[y] : y \in d[k - 1]}
    OBVIOUS
  <2>1. d[k - 1] \subseteq Node
    BY NodeCountType
  <2>2. UNION {succ[y] : y \in d[k - 1]} = UNION {Children(h, y) : y \in d[k - 1]}
    BY <2>1
  <2> QED BY <1>1, <2>2
<1>4. m \in Node /\ Children(h, m) = succ[m]
  BY SubtreeIn
<1>5. Cardinality(Node) <= NodeCount + 1
  BY NodeCountType DEF NodeCount
<1>6. AreLevels(d, Node, succ, n, NodeCount)
  <2> HIDE DEF succ
  <2> QED BY <1>1, <1>3 DEF AreLevels
<1>7. IsShut(Reached(d, NodeCount), succ)
  <2> HIDE DEF succ
  <2> QED BY <1>2, <1>5, <1>6, NodeCountType, NodeAssumption, LevelsAreClosed, Zenon
<1> QED BY <1>1, <1>4, <1>7 DEF IsShut, Reached

(* The subtree is the least set with the node that is closed downwards.    *)
LEMMA SubtreeLeast ==
    ASSUME NEW h \in Heap, NEW n \in Node, NEW X, n \in X,
           \A m \in X \intersect Node : Children(h, m) \subseteq X
    PROVE  Subtree(h, n) \subseteq X
<1>1. PICK d \in [0..NodeCount -> SUBSET Node] :
             /\ d[0] = {n}
             /\ \A k \in 1..NodeCount : d[k] = UNION {Children(h, y) : y \in d[k - 1]}
             /\ Subtree(h, n) = UNION {d[k] : k \in 0..NodeCount}
  BY SubtreeLevels
<1> DEFINE T == {k \in Nat : k <= NodeCount => d[k] \subseteq X}
<1>2. 0 \in T
  BY <1>1
<1>3. ASSUME NEW k \in Nat, k \in T PROVE k + 1 \in T
  <2>1. CASE k + 1 <= NodeCount
    <3>1. k + 1 \in 1..NodeCount /\ k \in 0..NodeCount /\ (k + 1) - 1 = k
      BY <2>1, NodeCountType
    <3>2. d[k] \subseteq X \intersect Node
      BY <1>3, <3>1
    <3>3. d[k + 1] = UNION {Children(h, y) : y \in d[k]}
      BY <1>1, <3>1
    <3> QED BY <3>2, <3>3
  <2>2. CASE ~(k + 1 <= NodeCount)
    BY <2>2
  <2> QED BY <2>1, <2>2
<1>4. Nat \subseteq T
  <2> HIDE DEF T
  <2> QED BY <1>2, <1>3, SetInduction
<1> QED BY <1>1, <1>4

-----------------------------------------------------------------------------
(* Ancestors.                                                              *)

NodeOrNull == Node \union {Null}
ParentOf(h) == [m \in NodeOrNull |-> IF m = Null THEN Null ELSE h[m].parent]

LEMMA ParentOfType == ASSUME NEW h \in Heap PROVE ParentOf(h) \in [NodeOrNull -> NodeOrNull]
BY DEF ParentOf, NodeOrNull, Heap

LEMMA AncestorIs ==
    ASSUME NEW h \in Heap, NEW n \in NodeOrNull
    PROVE  IsIteration(Ancestor(h, n), NodeOrNull, ParentOf(h), n, NodeCount)
<1> DEFINE Parent(m) == IF m = Null THEN Null ELSE h[m].parent
           Body(u) == [k \in 0..NodeCount |-> IF k = 0 THEN n ELSE Parent(u[k - 1])]
           up == CHOOSE u : u = Body(u)
<1>1. \A m \in NodeOrNull : ParentOf(h)[m] = Parent(m)
  BY DEF ParentOf
<1>2. PICK u : IsIteration(u, NodeOrNull, ParentOf(h), n, NodeCount)
  BY ParentOfType, NodeCountType, IterationExists, Zenon
<1>3. u = Body(u)
  <2>1. ASSUME NEW k \in 0..NodeCount
        PROVE  u[k] = IF k = 0 THEN n ELSE Parent(u[k - 1])
    <3>1. CASE k = 0
      BY <3>1, <1>2 DEF IsIteration
    <3>2. CASE k # 0
      <4>1. k - 1 \in 0..NodeCount /\ k \in 1..NodeCount
        BY <3>2, NodeCountType
      <4>2. u[k - 1] \in NodeOrNull /\ u[k] = ParentOf(h)[u[k - 1]]
        BY <1>2, <4>1 DEF IsIteration
      <4> QED BY <1>1, <3>2, <4>2
    <3> QED BY <3>1, <3>2
  <2> HIDE DEF Parent
  <2>2. u = [k \in 0..NodeCount |-> u[k]]
    BY <1>2 DEF IsIteration
  <2> QED BY <2>1, <2>2
<1>4. up = Body(up)
  <2> HIDE DEF Body
  <2> QED BY <1>3
<1>5. Ancestor(h, n) = up
  BY DEF Ancestor, NodeCount
<1> HIDE DEF up
<1>6. /\ up = [k \in 0..NodeCount |-> up[k]]
      /\ \A k \in 0..NodeCount : up[k] = IF k = 0 THEN n ELSE Parent(up[k - 1])
  <2> HIDE DEF Parent
  <2> QED BY <1>4
<1>7. up[0] = n /\ \A k \in 1..NodeCount : up[k - 1] \in NodeOrNull => up[k] = ParentOf(h)[up[k - 1]]
  <2> HIDE DEF Parent
  <2>1. 0 \in 0..NodeCount /\ \A k \in 1..NodeCount : k \in 0..NodeCount /\ k # 0
    BY NodeCountType
  <2> QED BY <1>1, <1>6, <2>1
<1> QED BY <1>5, <1>6, <1>7, ParentOfType, NodeCountType, IterationIs

Ancestors(h, n) == {Ancestor(h, n)[k] : k \in 0..NodeCount}

LEMMA SelfIsAncestor == ASSUME NEW h \in Heap, NEW n \in NodeOrNull PROVE n \in Ancestors(h, n)
<1>1. 0 \in 0..NodeCount
  BY NodeCountType
<1> QED BY <1>1, AncestorIs DEF Ancestors, IsIteration

(* The bound on the length of a climb leaves out no ancestor.              *)
LEMMA AncestorsClosed ==
    ASSUME NEW h \in Heap, NEW n \in NodeOrNull, NEW a \in Ancestors(h, n)
    PROVE  ParentOf(h)[a] \in Ancestors(h, n)
<1> DEFINE up == Ancestor(h, n)
           succ == [y \in NodeOrNull |-> {ParentOf(h)[y]}]
           d == [k \in 0..NodeCount |-> {up[k]}]
<1>1. IsIteration(up, NodeOrNull, ParentOf(h), n, NodeCount)
  BY AncestorIs
<1>2. succ \in [NodeOrNull -> SUBSET NodeOrNull]
  BY ParentOfType
<1>3. IsFiniteSet(NodeOrNull) /\ Cardinality(NodeOrNull) <= NodeCount + 1
  <2>1. IsFiniteSet(Node \union {Null}) /\ Cardinality(Node \union {Null}) = Cardinality(Node) + 1
    BY NodeAssumption, FS_AddElement
  <2> QED BY <2>1, NodeCountType DEF NodeOrNull, NodeCount
<1>4. AreLevels(d, NodeOrNull, succ, n, NodeCount)
  <2>1. d \in [0..NodeCount -> SUBSET NodeOrNull] /\ d[0] = {n}
    BY <1>1, NodeCountType DEF IsIteration
  <2>2. ASSUME NEW k \in 1..NodeCount
        PROVE  d[k] = UNION {succ[y] : y \in d[k - 1]}
    <3>1. k \in 0..NodeCount /\ k - 1 \in 0..NodeCount
      BY NodeCountType
    <3>2. up[k - 1] \in NodeOrNull /\ up[k] = ParentOf(h)[up[k - 1]]
      BY <1>1, <3>1 DEF IsIteration
    <3>3. d[k - 1] = {up[k - 1]} /\ d[k] = {up[k]} /\ succ[up[k - 1]] = {up[k]}
      BY <3>1, <3>2
    <3> HIDE DEF up, succ, d
    <3> QED BY <3>3
  <2> HIDE DEF d, succ
  <2> QED BY <2>1, <2>2 DEF AreLevels
<1>5. IsShut(Reached(d, NodeCount), succ)
  <2> HIDE DEF d, succ
  <2> QED BY <1>2, <1>3, <1>4, NodeCountType, LevelsAreClosed, Zenon
<1>6. Reached(d, NodeCount) = Ancestors(h, n)
  BY DEF Reached, Ancestors
<1>7. a \in NodeOrNull
  BY <1>1 DEF Ancestors, IsIteration
<1> QED BY <1>5, <1>6, <1>7 DEF IsShut

LEMMA AncestorsLeast ==
    ASSUME NEW h \in Heap, NEW n \in NodeOrNull, NEW X, n \in X,
           \A m \in X \intersect NodeOrNull : ParentOf(h)[m] \in X
    PROVE  Ancestors(h, n) \subseteq X
<1> DEFINE T == {k \in Nat : k <= NodeCount => Ancestor(h, n)[k] \in X}
<1>1. IsIteration(Ancestor(h, n), NodeOrNull, ParentOf(h), n, NodeCount)
  BY AncestorIs
<1>2. 0 \in T
  BY <1>1 DEF IsIteration
<1>3. ASSUME NEW k \in Nat, k \in T PROVE k + 1 \in T
  <2>1. CASE k + 1 <= NodeCount
    <3>1. k + 1 \in 1..NodeCount /\ k \in 0..NodeCount /\ (k + 1) - 1 = k
      BY <2>1, NodeCountType
    <3>2. Ancestor(h, n)[k] \in X \intersect NodeOrNull
      BY <1>1, <1>3, <3>1 DEF IsIteration
    <3>3. Ancestor(h, n)[k + 1] = ParentOf(h)[Ancestor(h, n)[k]]
      BY <1>1, <3>1 DEF IsIteration
    <3> QED BY <3>2, <3>3
  <2>2. CASE ~(k + 1 <= NodeCount)
    BY <2>2
  <2> QED BY <2>1, <2>2
<1>4. Nat \subseteq T
  <2> HIDE DEF T
  <2> QED BY <1>2, <1>3, SetInduction
<1> QED BY <1>4 DEF Ancestors

(* n is s or below it, found by climbing.                                  *)
IsUnder(h, n, s) == n = s \/ HasParent(h, n, s)

LEMMA UnderIsAncestor ==
    ASSUME NEW h \in Heap, NEW n \in NodeOrNull, NEW s
    PROVE  IsUnder(h, n, s) <=> s \in Ancestors(h, n)
<1>1. 0 \in 0..NodeCount /\ \A k \in 0..NodeCount : k = 0 \/ k \in 1..NodeCount
  BY NodeCountType
<1>2. \A k \in 1..NodeCount : k \in 0..NodeCount
  BY NodeCountType
<1>3. Ancestor(h, n)[0] = n
  BY AncestorIs DEF IsIteration
<1> QED BY <1>1, <1>2, <1>3 DEF IsUnder, HasParent, Ancestors, NodeCount

LEMMA UnderParent ==
    ASSUME NEW h \in Heap, NEW n \in Node, NEW s \in Node,
           h[n].parent # Null, IsUnder(h, h[n].parent, s)
    PROVE  IsUnder(h, n, s)
<1> DEFINE p == h[n].parent
<1>1. p \in Node /\ ParentOf(h)[n] = p /\ n \in NodeOrNull /\ p \in NodeOrNull
  BY NodeAssumption DEF Heap, ParentOf, NodeOrNull
<1>2. p \in Ancestors(h, n)
  BY <1>1, SelfIsAncestor, AncestorsClosed
<1>3. Ancestors(h, p) \subseteq Ancestors(h, n)
  BY <1>1, <1>2, AncestorsClosed, AncestorsLeast
<1> QED BY <1>1, <1>3, UnderIsAncestor

LEMMA ParentUnder ==
    ASSUME NEW h \in Heap, NEW n \in Node, NEW s \in Node, n # s, IsUnder(h, n, s)
    PROVE  h[n].parent \in Node /\ IsUnder(h, h[n].parent, s)
<1> DEFINE p == h[n].parent
<1>1. p \in NodeOrNull /\ ParentOf(h)[n] = p /\ n \in NodeOrNull
  BY NodeAssumption DEF Heap, ParentOf, NodeOrNull
<1>2. Ancestors(h, n) \subseteq {n} \union Ancestors(h, p)
  <2> DEFINE X == {n} \union Ancestors(h, p)
  <2>1. n \in X /\ \A m \in X \intersect NodeOrNull : ParentOf(h)[m] \in X
    BY <1>1, SelfIsAncestor, AncestorsClosed
  <2> HIDE DEF X
  <2>2. Ancestors(h, n) \subseteq X
    BY <1>1, <2>1, AncestorsLeast
  <2> QED BY <2>2 DEF X
<1>3. s \in Ancestors(h, p)
  BY <1>1, <1>2, UnderIsAncestor
<1>4. p # Null
  <2> SUFFICES ASSUME p = Null PROVE FALSE
    OBVIOUS
  <2> DEFINE U == {Null}
  <2>1. Null \in U /\ Null \in NodeOrNull /\ \A m \in U \intersect NodeOrNull : ParentOf(h)[m] \in U
    BY DEF ParentOf, NodeOrNull
  <2>2. Ancestors(h, Null) \subseteq U
    <3> HIDE DEF U
    <3> QED BY <2>1, AncestorsLeast
  <2> QED BY <1>3, <2>2, NodeAssumption
<1> QED BY <1>1, <1>3, <1>4, UnderIsAncestor DEF NodeOrNull

-----------------------------------------------------------------------------
(* Climbing and descending agree where parents and children do.            *)

LEMMA SubtreeIsUnder ==
    ASSUME NEW h \in Heap, NEW s \in Node,
           \A m \in Subtree(h, s) : \A c \in Children(h, m) : h[c].parent = m,
           NEW n \in Subtree(h, s)
    PROVE  IsUnder(h, n, s)
<1> DEFINE X == {m \in Subtree(h, s) : IsUnder(h, m, s)}
<1>1. s \in X
  BY SubtreeIn DEF IsUnder
<1>2. ASSUME NEW m \in X, NEW c \in Children(h, m) PROVE c \in X
  <2>1. m \in Node /\ c \in Node /\ c \in Subtree(h, s)
    BY SubtreeIn, SubtreeClosed, ChildrenAreNodes
  <2>2. h[c].parent = m /\ m # Null
    BY <2>1, NodeAssumption
  <2> QED BY <2>1, <2>2, UnderParent
<1>3. Subtree(h, s) \subseteq X
  <2> HIDE DEF X
  <2> QED BY <1>1, <1>2, SubtreeLeast
<1> QED BY <1>3

LEMMA UnderIsSubtree ==
    ASSUME NEW h \in Heap, NEW s \in Node, NEW L, L \subseteq Node,
           \A m \in L : h[m].parent # Null =>
             h[m].parent \in L /\ m \in Children(h, h[m].parent),
           NEW n \in L, IsUnder(h, n, s)
    PROVE  n \in Subtree(h, s)
<1> DEFINE X == {a \in NodeOrNull : a \in L \union {Null} /\ (a \in Subtree(h, s) => n \in Subtree(h, s))}
<1>1. n \in X
  BY DEF NodeOrNull
<1>2. ASSUME NEW m \in X PROVE ParentOf(h)[m] \in X
  <2>1. CASE m = Null
    BY <2>1 DEF ParentOf, NodeOrNull
  <2>2. CASE m # Null
    <3>1. m \in L /\ ParentOf(h)[m] = h[m].parent
      BY <2>2 DEF ParentOf, NodeOrNull
    <3>2. CASE h[m].parent = Null
      <4>1. Null \notin Subtree(h, s)
        BY SubtreeIn, NodeAssumption
      <4> QED BY <3>1, <3>2, <4>1 DEF NodeOrNull
    <3>3. CASE h[m].parent # Null
      <4>1. h[m].parent \in L /\ m \in Children(h, h[m].parent)
        BY <3>1, <3>3
      <4>2. h[m].parent \in Subtree(h, s) => m \in Subtree(h, s)
        BY <4>1, SubtreeClosed
      <4> QED BY <3>1, <4>1, <4>2 DEF NodeOrNull
    <3> QED BY <3>2, <3>3
  <2> QED BY <2>1, <2>2
<1>3. Ancestors(h, n) \subseteq X
  <2>1. n \in NodeOrNull
    BY DEF NodeOrNull
  <2> HIDE DEF X
  <2> QED BY <1>1, <1>2, <2>1, AncestorsLeast
<1>4. s \in X
  BY <1>3, UnderIsAncestor DEF NodeOrNull
<1> QED BY <1>4, SubtreeIn

-----------------------------------------------------------------------------
(* The walks to the first and to the last leaf.                            *)

Sides == {"left", "right"}
Pick(side, q) == IF side = "left" THEN Head(q) ELSE Last(q)
End(h, side, n) == IF side = "left" THEN LeftmostChildOrThis(h, n)
                                    ELSE RightmostChildOrThis(h, n)
Down(h, side) == [m \in Node |-> IF IsLeaf(h, m) THEN m ELSE Pick(side, h[m].children)]

LEMMA PickIs ==
    ASSUME NEW h \in Heap, NEW side \in Sides, NEW n \in Node, ~IsLeaf(h, n)
    PROVE  /\ Pick(side, h[n].children) \in Children(h, n)
           /\ Pick(side, h[n].children) \in Node
           /\ h[n].children # <<>> /\ Len(h[n].children) \in Nat \ {0}
           /\ DOMAIN h[n].children = 1..Len(h[n].children)
           /\ Pick(side, h[n].children)
                = h[n].children[IF side = "left" THEN 1 ELSE Len(h[n].children)]
<1>1. h[n].children \in Seq(Node) /\ h[n].children # <<>>
  BY DEF IsLeaf, Heap
<1>2. Len(h[n].children) \in Nat \ {0} /\ DOMAIN h[n].children = 1..Len(h[n].children)
  BY <1>1, EmptySeq
<1>3. Pick(side, h[n].children)
        = h[n].children[IF side = "left" THEN 1 ELSE Len(h[n].children)]
  BY <1>1 DEF Pick, Last, Sides
<1>4. Pick(side, h[n].children) \in Children(h, n)
  <2> HIDE DEF Pick
  <2> QED BY <1>2, <1>3 DEF Children, ToSet
<1> QED BY <1>1, <1>2, <1>3, <1>4, ChildrenAreNodes

LEMMA DownType == ASSUME NEW h \in Heap, NEW side \in Sides PROVE Down(h, side) \in [Node -> Node]
BY PickIs DEF Down

LEMMA LeftmostIs ==
    ASSUME NEW h \in Heap, NEW n \in Node
    PROVE  \E d : /\ IsIteration(d, Node, Down(h, "left"), n, NodeCount)
                  /\ LeftmostChildOrThis(h, n) = d[NodeCount]
<1> DEFINE Step(m) == IF IsLeaf(h, m) THEN m ELSE Head(h[m].children)
           step == Down(h, "left")
           Body(u) == [k \in 0..NodeCount |-> IF k = 0 THEN n ELSE Step(u[k - 1])]
           down == CHOOSE u : u = Body(u)
<1>1. step \in [Node -> Node]
  BY DownType DEF Sides
<1>2. \A m \in Node : step[m] = Step(m)
  BY DEF Down, Pick
<1> HIDE DEF step, Step
<1>3. PICK u : IsIteration(u, Node, step, n, NodeCount)
  BY <1>1, NodeCountType, IterationExists, Zenon
<1>4. u = Body(u)
  <2>1. ASSUME NEW k \in 0..NodeCount
        PROVE  u[k] = IF k = 0 THEN n ELSE Step(u[k - 1])
    <3>1. CASE k = 0
      BY <3>1, <1>3 DEF IsIteration
    <3>2. CASE k # 0
      <4>1. k - 1 \in 0..NodeCount /\ k \in 1..NodeCount
        BY <3>2, NodeCountType
      <4>2. u[k - 1] \in Node /\ u[k] = step[u[k - 1]]
        BY <1>3, <4>1 DEF IsIteration
      <4> QED BY <1>2, <3>2, <4>2
    <3> QED BY <3>1, <3>2
  <2>2. u = [k \in 0..NodeCount |-> u[k]]
    BY <1>3 DEF IsIteration
  <2> QED BY <2>1, <2>2
<1>5. down = Body(down)
  <2> HIDE DEF Body
  <2> QED BY <1>4
<1>6. LeftmostChildOrThis(h, n) = down[NodeCount]
  BY DEF LeftmostChildOrThis, Descend, NodeCount, Step
<1> HIDE DEF down
<1>7. /\ down = [k \in 0..NodeCount |-> down[k]]
      /\ \A k \in 0..NodeCount : down[k] = IF k = 0 THEN n ELSE Step(down[k - 1])
  BY <1>5
<1>8. down[0] = n /\ \A k \in 1..NodeCount : down[k - 1] \in Node => down[k] = step[down[k - 1]]
  <2>1. 0 \in 0..NodeCount /\ \A k \in 1..NodeCount : k \in 0..NodeCount /\ k # 0
    BY NodeCountType
  <2> QED BY <1>2, <1>7, <2>1
<1>9. IsIteration(down, Node, step, n, NodeCount)
  BY <1>1, <1>7, <1>8, NodeCountType, IterationIs
<1> QED BY <1>6, <1>9 DEF step

LEMMA RightmostIs ==
    ASSUME NEW h \in Heap, NEW n \in Node
    PROVE  \E d : /\ IsIteration(d, Node, Down(h, "right"), n, NodeCount)
                  /\ RightmostChildOrThis(h, n) = d[NodeCount]
<1> DEFINE Step(m) == IF IsLeaf(h, m) THEN m ELSE Last(h[m].children)
           step == Down(h, "right")
           Body(u) == [k \in 0..NodeCount |-> IF k = 0 THEN n ELSE Step(u[k - 1])]
           down == CHOOSE u : u = Body(u)
<1>1. step \in [Node -> Node]
  BY DownType DEF Sides
<1>2. \A m \in Node : step[m] = Step(m)
  BY DEF Down, Pick
<1> HIDE DEF step, Step
<1>3. PICK u : IsIteration(u, Node, step, n, NodeCount)
  BY <1>1, NodeCountType, IterationExists, Zenon
<1>4. u = Body(u)
  <2>1. ASSUME NEW k \in 0..NodeCount
        PROVE  u[k] = IF k = 0 THEN n ELSE Step(u[k - 1])
    <3>1. CASE k = 0
      BY <3>1, <1>3 DEF IsIteration
    <3>2. CASE k # 0
      <4>1. k - 1 \in 0..NodeCount /\ k \in 1..NodeCount
        BY <3>2, NodeCountType
      <4>2. u[k - 1] \in Node /\ u[k] = step[u[k - 1]]
        BY <1>3, <4>1 DEF IsIteration
      <4> QED BY <1>2, <3>2, <4>2
    <3> QED BY <3>1, <3>2
  <2>2. u = [k \in 0..NodeCount |-> u[k]]
    BY <1>3 DEF IsIteration
  <2> QED BY <2>1, <2>2
<1>5. down = Body(down)
  <2> HIDE DEF Body
  <2> QED BY <1>4
<1>6. RightmostChildOrThis(h, n) = down[NodeCount]
  BY DEF RightmostChildOrThis, Descend, NodeCount, Step
<1> HIDE DEF down
<1>7. /\ down = [k \in 0..NodeCount |-> down[k]]
      /\ \A k \in 0..NodeCount : down[k] = IF k = 0 THEN n ELSE Step(down[k - 1])
  BY <1>5
<1>8. down[0] = n /\ \A k \in 1..NodeCount : down[k - 1] \in Node => down[k] = step[down[k - 1]]
  <2>1. 0 \in 0..NodeCount /\ \A k \in 1..NodeCount : k \in 0..NodeCount /\ k # 0
    BY NodeCountType
  <2> QED BY <1>2, <1>7, <2>1
<1>9. IsIteration(down, Node, step, n, NodeCount)
  BY <1>1, <1>7, <1>8, NodeCountType, IterationIs
<1> QED BY <1>6, <1>9 DEF step

LEMMA EndIs ==
    ASSUME NEW h \in Heap, NEW side \in Sides, NEW n \in Node
    PROVE  \E d : /\ IsIteration(d, Node, Down(h, side), n, NodeCount)
                  /\ End(h, side, n) = d[NodeCount]
BY LeftmostIs, RightmostIs DEF End, Sides

(* The walk stays in every set that it does not leave in one step.         *)
LEMMA EndStays ==
    ASSUME NEW h \in Heap, NEW side \in Sides, NEW T, T \subseteq Node, NEW n \in T,
           \A m \in T : IsLeaf(h, m) \/ Pick(side, h[m].children) \in T
    PROVE  End(h, side, n) \in T
<1>1. PICK d : /\ IsIteration(d, Node, Down(h, side), n, NodeCount)
               /\ End(h, side, n) = d[NodeCount]
  BY EndIs
<1> DEFINE K == {k \in Nat : k <= NodeCount => d[k] \in T}
<1>2. 0 \in K
  BY <1>1 DEF IsIteration
<1>3. ASSUME NEW k \in Nat, k \in K PROVE k + 1 \in K
  <2>1. CASE k + 1 <= NodeCount
    <3>1. k + 1 \in 1..NodeCount /\ (k + 1) - 1 = k /\ d[k] \in T
      BY <1>3, <2>1, NodeCountType
    <3>2. d[k + 1] = Down(h, side)[d[k]]
      BY <1>1, <3>1 DEF IsIteration
    <3> QED BY <3>1, <3>2 DEF Down
  <2>2. CASE ~(k + 1 <= NodeCount)
    BY <2>2
  <2> QED BY <2>1, <2>2
<1>4. Nat \subseteq K
  <2> HIDE DEF K
  <2> QED BY <1>2, <1>3, SetInduction
<1> QED BY <1>1, <1>4, NodeCountType

LEMMA EndStaysBelow ==
    ASSUME NEW h \in Heap, NEW side \in Sides, NEW T, T \subseteq Node, NEW n \in T,
           \A m \in T : Children(h, m) \subseteq T
    PROVE  End(h, side, n) \in T
<1>1. \A m \in T : IsLeaf(h, m) \/ Pick(side, h[m].children) \in T
  BY PickIs
<1> QED BY <1>1, EndStays

LEMMA LeftmostChildOrThisStays ==
    ASSUME NEW h \in Heap, NEW T, T \subseteq Node, NEW n \in T,
           \A m \in T : Children(h, m) \subseteq T
    PROVE  LeftmostChildOrThis(h, n) \in T
<1>1. "left" \in Sides
  BY DEF Sides
<1>2. End(h, "left", n) \in T
  BY <1>1, EndStaysBelow
<1> QED BY <1>2 DEF End

LEMMA RightmostChildOrThisStays ==
    ASSUME NEW h \in Heap, NEW T, T \subseteq Node, NEW n \in T,
           \A m \in T : Children(h, m) \subseteq T
    PROVE  RightmostChildOrThis(h, n) \in T
<1>1. "right" \in Sides
  BY DEF Sides
<1>2. End(h, "right", n) \in T
  BY <1>1, EndStaysBelow
<1> QED BY <1>2 DEF End

-----------------------------------------------------------------------------
(* The nodes of X hang on r, and on nothing else, and what parents,        *)
(* indices and children vectors say of them agrees.                        *)
IsTree(h, X, r) ==
    /\ X \subseteq Node /\ r \in X
    /\ h[r].parent = Null
    /\ X = Subtree(h, r)
    /\ \A n \in X : \A i \in DOMAIN h[n].children :
         h[h[n].children[i]].parent = n /\ h[h[n].children[i]].index = i - 1
    /\ \A n \in X \ {r} :
         /\ h[n].parent \in X /\ h[n].index + 1 \in DOMAIN h[h[n].parent].children
         /\ h[h[n].parent].children[h[n].index + 1] = n

LEMMA HeapFields ==
    ASSUME NEW h \in Heap, NEW n \in Node
    PROVE  /\ h[n].parent \in Node \union {Null} /\ h[n].index \in Nat
           /\ h[n].children \in Seq(Node)
           /\ DOMAIN h[n].children = 1..Len(h[n].children) /\ Len(h[n].children) \in Nat
           /\ \A i \in DOMAIN h[n].children : h[n].children[i] \in Node
BY DEF Heap

LEMMA HeapIs ==
    ASSUME NEW h, h = [n \in Node |-> h[n]],
           \A n \in Node : h[n] \in [parent : Node \union {Null}, index : Nat, children : Seq(Node)]
    PROVE  h \in Heap
BY DEF Heap

LEMMA SameFields ==
    ASSUME NEW h \in Heap, NEW g \in Heap, NEW n \in Node,
           g[n].parent = h[n].parent, g[n].index = h[n].index, g[n].children = h[n].children
    PROVE  g[n] = h[n]
<1>1. h[n] \in [parent : Node \union {Null}, index : Nat, children : Seq(Node)]
  BY DEF Heap
<1>2. g[n] \in [parent : Node \union {Null}, index : Nat, children : Seq(Node)]
  BY DEF Heap
<1> QED BY <1>1, <1>2

LEMMA InChildren ==
    ASSUME NEW h \in Heap, NEW n \in Node, NEW c
    PROVE  c \in Children(h, n) <=> \E i \in DOMAIN h[n].children : h[n].children[i] = c
BY DEF Children, ToSet

(* To hang on r: the set is closed downwards and r reaches all of it.      *)
LEMMA TreeIs ==
    ASSUME NEW h \in Heap, NEW X, NEW r,
           X \subseteq Node, r \in X, h[r].parent = Null,
           X \subseteq Subtree(h, r),
           \A n \in X : \A i \in DOMAIN h[n].children :
             /\ h[n].children[i] \in X
             /\ h[h[n].children[i]].parent = n /\ h[h[n].children[i]].index = i - 1,
           \A n \in X \ {r} :
             /\ h[n].parent \in X /\ h[n].index + 1 \in DOMAIN h[h[n].parent].children
             /\ h[h[n].parent].children[h[n].index + 1] = n
    PROVE  IsTree(h, X, r)
<1>1. \A m \in X \intersect Node : Children(h, m) \subseteq X
  BY InChildren
<1>2. Subtree(h, r) \subseteq X
  BY <1>1, SubtreeLeast
<1> QED BY <1>2 DEF IsTree

LEMMA TreeClosed ==
    ASSUME NEW h \in Heap, NEW X, NEW r, IsTree(h, X, r), NEW n \in X
    PROVE  /\ \A i \in DOMAIN h[n].children : h[n].children[i] \in X
           /\ Children(h, n) \subseteq X
BY SubtreeClosed, InChildren DEF IsTree

(* Everything that r reaches in X is reached by climbing too.              *)
LEMMA TreeUnder ==
    ASSUME NEW h \in Heap, NEW X, NEW r, IsTree(h, X, r), NEW s \in X, NEW n \in X
    PROVE  n \in Subtree(h, s) <=> IsUnder(h, n, s)
<1>1. \A m \in X : \A c \in Children(h, m) : c \in X /\ h[c].parent = m
  BY TreeClosed, InChildren DEF IsTree
<1>2. Subtree(h, s) \subseteq X
  BY <1>1, SubtreeLeast DEF IsTree
<1>3. \A m \in X : h[m].parent # Null => h[m].parent \in X /\ m \in Children(h, h[m].parent)
  BY InChildren DEF IsTree
<1>4. X \subseteq Node
  BY DEF IsTree
<1>5. n \in Subtree(h, s) => IsUnder(h, n, s)
  BY <1>1, <1>2, <1>4, SubtreeIsUnder
<1>6. IsUnder(h, n, s) => n \in Subtree(h, s)
  BY <1>3, <1>4, UnderIsSubtree
<1> QED BY <1>5, <1>6

SameOutside(g, h, X) == \A n \in Node \ X : g[n] = h[n]

(* A heap that is the same on X has the same tree there.                   *)
LEMMA TreeFrame ==
    ASSUME NEW h \in Heap, NEW g \in Heap, NEW X, NEW r, IsTree(h, X, r),
           \A n \in X : g[n] = h[n]
    PROVE  IsTree(g, X, r)
<1>1. X \subseteq Node /\ r \in X /\ X = Subtree(h, r)
  BY DEF IsTree
<1>2. \A n \in X : Children(g, n) = Children(h, n)
  BY DEF Children
<1>3. X \subseteq Subtree(g, r)
  <2> DEFINE Z == {n \in X : n \in Subtree(g, r)}
  <2>1. r \in Z
    BY <1>1, SubtreeIn
  <2>2. \A n \in Z \intersect Node : Children(h, n) \subseteq Z
    BY <1>1, <1>2, SubtreeClosed, TreeClosed
  <2>3. Subtree(h, r) \subseteq Z
    <3> HIDE DEF Z
    <3> QED BY <1>1, <2>1, <2>2, SubtreeLeast
  <2> QED BY <1>1, <2>3
<1>4. \A n \in X : \A i \in DOMAIN g[n].children :
             /\ g[n].children[i] \in X
             /\ g[g[n].children[i]].parent = n /\ g[g[n].children[i]].index = i - 1
  BY TreeClosed DEF IsTree
<1>5. \A n \in X \ {r} :
             /\ g[n].parent \in X /\ g[n].index + 1 \in DOMAIN g[g[n].parent].children
             /\ g[g[n].parent].children[g[n].index + 1] = n
  BY DEF IsTree
<1>6. g[r].parent = Null
  BY DEF IsTree
<1> QED BY <1>1, <1>3, <1>4, <1>5, <1>6, TreeIs

(* A node just allocated is a tree.                                        *)
LEMMA FreshIsTree ==
    ASSUME NEW h \in Heap, NEW n \in Node, h[n] = FreshNode
    PROVE  IsTree(h, {n}, n)
<1>1. /\ DOMAIN h[n].children = {} /\ h[n].parent = Null
  BY DEF FreshNode
<1>2. {n} \subseteq Subtree(h, n)
  BY SubtreeIn
<1> QED BY <1>1, <1>2, TreeIs

-----------------------------------------------------------------------------
(* insert_child.                                                           *)

LEMMA InsertChildIs ==
    ASSUME NEW h \in Heap, NEW p \in Node, NEW c \in Node, p # c
    PROVE  LET g == InsertChild(h, p, c) IN
           /\ g \in Heap
           /\ g[p].children = Append(h[p].children, c)
           /\ \A n \in Node \ {p} : g[n].children = h[n].children
           /\ g[c].parent = p /\ g[c].index = Len(h[p].children)
           /\ \A n \in Node \ {c} : g[n].parent = h[n].parent /\ g[n].index = h[n].index
           /\ \A n \in Node \ {p, c} : g[n] = h[n]
<1> DEFINE g == InsertChild(h, p, c)
           R == [parent : Node \union {Null}, index : Nat, children : Seq(Node)]
<1>1. Append(h[p].children, c) \in Seq(Node) /\ ChildCount(h, p) \in Nat
  BY HeapFields DEF ChildCount
<1>2. h \in [Node -> R]
  BY DEF Heap
<1>3. [h[p] EXCEPT !.children = Append(h[p].children, c)] \in R
  BY <1>1, <1>2
<1>4. [h[c] EXCEPT !.parent = p, !.index = ChildCount(h, p)] \in R
  BY <1>1, <1>2
<1>5. g = [h EXCEPT ![p] = [h[p] EXCEPT !.children = Append(h[p].children, c)],
                    ![c] = [h[c] EXCEPT !.parent = p, !.index = ChildCount(h, p)]]
  BY <1>2 DEF InsertChild
<1>6. g \in Heap
  <2> HIDE DEF R
  <2>1. g \in [Node -> R]
    BY <1>2, <1>3, <1>4, <1>5
  <2> QED BY <2>1 DEF Heap, R
<1>7. g[p].children = Append(h[p].children, c)
  BY DEF InsertChild, Heap
<1>8. \A n \in Node \ {p} : g[n].children = h[n].children
  BY DEF InsertChild, Heap
<1>9. g[c].parent = p /\ g[c].index = Len(h[p].children)
  BY DEF InsertChild, Heap, ChildCount
<1>10. \A n \in Node \ {c} : g[n].parent = h[n].parent /\ g[n].index = h[n].index
  BY DEF InsertChild, Heap
<1>11. \A n \in Node \ {p, c} : g[n] = h[n]
  BY DEF InsertChild, Heap
<1> QED BY <1>6, <1>7, <1>8, <1>9, <1>10, <1>11

LEMMA InsertKeepsTrees ==
    ASSUME NEW h \in Heap, NEW X, NEW r, NEW Y, NEW c, NEW p \in X,
           IsTree(h, X, r), IsTree(h, Y, c), X \intersect Y = {}
    PROVE  IsTree(InsertChild(h, p, c), X \union Y, r)
<1> DEFINE g == InsertChild(h, p, c)
           Z == X \union Y
<1>1. /\ X \subseteq Node /\ Y \subseteq Node /\ r \in X /\ c \in Y /\ p # c /\ r # c
      /\ p \in Node /\ c \in Node /\ r \in Node
  BY DEF IsTree
<1>2. /\ g \in Heap
      /\ g[p].children = Append(h[p].children, c)
      /\ \A n \in Node \ {p} : g[n].children = h[n].children
      /\ g[c].parent = p /\ g[c].index = Len(h[p].children)
      /\ \A n \in Node \ {c} : g[n].parent = h[n].parent /\ g[n].index = h[n].index
  BY <1>1, InsertChildIs
<1> HIDE DEF g
<1>3. /\ h[p].children \in Seq(Node) /\ Len(h[p].children) \in Nat
      /\ DOMAIN h[p].children = 1..Len(h[p].children)
      /\ DOMAIN g[p].children = 1..(Len(h[p].children) + 1)
      /\ \A i \in 1..Len(h[p].children) : g[p].children[i] = h[p].children[i]
      /\ g[p].children[Len(h[p].children) + 1] = c
  BY <1>1, <1>2, HeapFields
<1>4. \A n \in Node : Children(h, n) \subseteq Children(g, n)
  <2> SUFFICES ASSUME NEW n \in Node PROVE Children(h, n) \subseteq Children(g, n)
    OBVIOUS
  <2>1. CASE n = p
    BY <2>1, <1>3 DEF Children, ToSet
  <2>2. CASE n # p
    BY <2>2, <1>2 DEF Children
  <2> QED BY <2>1, <2>2
<1>5. X \subseteq Subtree(g, r)
  <2> DEFINE W == Subtree(g, r)
  <2>1. r \in W /\ \A m \in W \intersect Node : Children(h, m) \subseteq W
    BY <1>1, <1>2, <1>4, SubtreeIn, SubtreeClosed
  <2>2. Subtree(h, r) \subseteq W
    <3> HIDE DEF W
    <3> QED BY <1>1, <2>1, SubtreeLeast
  <2> QED BY <2>2 DEF IsTree
<1>6. Y \subseteq Subtree(g, r)
  <2> DEFINE W == Subtree(g, r)
  <2>1. c \in Children(g, p)
    BY <1>1, <1>2, <1>3, InChildren
  <2>2. c \in W
    BY <1>1, <1>2, <1>5, <2>1, SubtreeClosed
  <2>3. \A m \in W \intersect Node : Children(h, m) \subseteq W
    BY <1>1, <1>2, <1>4, SubtreeClosed
  <2>4. Subtree(h, c) \subseteq W
    <3> HIDE DEF W
    <3> QED BY <1>1, <2>2, <2>3, SubtreeLeast
  <2> QED BY <2>4 DEF IsTree
<1>7. ASSUME NEW n \in Z, NEW i \in DOMAIN g[n].children
      PROVE  /\ g[n].children[i] \in Z
             /\ g[g[n].children[i]].parent = n /\ g[g[n].children[i]].index = i - 1
  <2>1. CASE n = p /\ i = Len(h[p].children) + 1
    BY <1>1, <1>2, <1>3, <2>1
  <2>2. CASE ~(n = p /\ i = Len(h[p].children) + 1)
    <3>1. n \in Node /\ i \in DOMAIN h[n].children /\ g[n].children[i] = h[n].children[i]
      <4>1. CASE n = p
        <5>1. i \in 1..(Len(h[p].children) + 1) /\ i # Len(h[p].children) + 1
          BY <1>3, <2>2, <4>1
        <5>2. i \in 1..Len(h[p].children)
          BY <1>3, <5>1
        <5> QED BY <1>1, <1>3, <4>1, <5>2
      <4>2. CASE n # p
        BY <1>1, <1>2, <4>2
      <4> QED BY <4>1, <4>2
    <3>2. /\ h[n].children[i] \in Z /\ h[n].children[i] \in Node
          /\ h[h[n].children[i]].parent = n /\ h[h[n].children[i]].index = i - 1
      BY <1>1, <3>1, TreeClosed DEF IsTree
    <3>3. h[n].children[i] # c
      <4>1. h[c].parent = Null /\ n # Null
        BY <1>1, NodeAssumption DEF IsTree
      <4> QED BY <3>2, <4>1
    <3> QED BY <1>2, <3>1, <3>2, <3>3
  <2> QED BY <2>1, <2>2
<1>8. ASSUME NEW n \in Z \ {r}
      PROVE  /\ g[n].parent \in Z /\ g[n].index + 1 \in DOMAIN g[g[n].parent].children
             /\ g[g[n].parent].children[g[n].index + 1] = n
  <2>1. CASE n = c
    <3>1. g[n].parent = p /\ g[n].index + 1 = Len(h[p].children) + 1
      BY <1>2, <2>1
    <3>2. Len(h[p].children) + 1 \in DOMAIN g[p].children
      BY <1>3
    <3> QED BY <1>3, <2>1, <3>1, <3>2
  <2>2. CASE n # c
    <3>1. /\ h[n].parent \in Z /\ h[n].index + 1 \in DOMAIN h[h[n].parent].children
          /\ h[h[n].parent].children[h[n].index + 1] = n
      BY <2>2 DEF IsTree
    <3>2. g[n].parent = h[n].parent /\ g[n].index = h[n].index
      BY <1>1, <1>2, <2>2
    <3>3. CASE h[n].parent = p
      <4>1. h[n].index + 1 \in 1..Len(h[p].children) /\ h[p].children[h[n].index + 1] = n
        BY <1>3, <3>1, <3>3
      <4>2. /\ h[n].index + 1 \in DOMAIN g[p].children
            /\ g[p].children[h[n].index + 1] = n
        <5> DEFINE l == Len(h[p].children)
                   k == h[n].index + 1
        <5> HIDE DEF l, k
        <5>1. k \in 1..l /\ l \in Nat /\ h[p].children[k] = n
          BY <1>3, <4>1 DEF l, k
        <5>2. k \in 1..(l + 1)
          BY <5>1
        <5>3. DOMAIN g[p].children = 1..(l + 1) /\ g[p].children[k] = h[p].children[k]
          BY <1>3, <5>1 DEF l
        <5> QED BY <5>1, <5>2, <5>3 DEF k
      <4>3. g[n].parent = p
        BY <3>2, <3>3
      <4> QED BY <3>1, <3>2, <4>2, <4>3
    <3>4. CASE h[n].parent # p
      <4>1. g[h[n].parent].children = h[h[n].parent].children
        BY <1>1, <1>2, <3>1, <3>4
      <4> QED BY <3>1, <3>2, <4>1
    <3> QED BY <3>3, <3>4
  <2> QED BY <2>1, <2>2
<1>9. g[r].parent = Null
  BY <1>1, <1>2 DEF IsTree
<1>10. Z \subseteq Node /\ r \in Z /\ Z \subseteq Subtree(g, r)
  BY <1>1, <1>5, <1>6
<1>11. IsTree(g, Z, r)
  <2> HIDE DEF Z
  <2> QED BY <1>2, <1>7, <1>8, <1>9, <1>10, TreeIs
<1> QED BY <1>11 DEF g

-----------------------------------------------------------------------------
(* Subtrees.                                                               *)

LEMMA SubtreeParents ==
    ASSUME NEW h \in Heap, NEW X, NEW r, IsTree(h, X, r), NEW s \in X
    PROVE  /\ s \in Subtree(h, s) /\ Subtree(h, s) \subseteq X
           /\ \A m \in Subtree(h, s) \ {s} : h[m].parent \in Subtree(h, s)
           /\ \A m \in Subtree(h, s) : Children(h, m) \subseteq Subtree(h, s)
<1> DEFINE S == Subtree(h, s)
           Z == {m \in S : m = s \/ h[m].parent \in S}
<1>1. X \subseteq Node /\ s \in Node /\ s \in S
  BY SubtreeIn DEF IsTree
<1>2. \A m \in X : Children(h, m) \subseteq X
  BY TreeClosed
<1>3. S \subseteq X
  BY <1>1, <1>2, SubtreeLeast
<1>4. \A m \in S : Children(h, m) \subseteq S
  BY <1>1, SubtreeClosed
<1>5. \A m \in X : \A c \in Children(h, m) : h[c].parent = m
  BY <1>1, InChildren DEF IsTree
<1>6. s \in Z /\ \A m \in Z \intersect Node : Children(h, m) \subseteq Z
  BY <1>1, <1>3, <1>4, <1>5
<1>7. Subtree(h, s) \subseteq Z
  <2> HIDE DEF Z
  <2> QED BY <1>1, <1>6, SubtreeLeast
<1> QED BY <1>1, <1>3, <1>4, <1>7

(* No cycles: a node is not below its child.                               *)
LEMMA ParentIsOutside ==
    ASSUME NEW h \in Heap, NEW X, NEW r, IsTree(h, X, r), NEW s \in X \ {r}
    PROVE  r \notin Subtree(h, s) /\ h[s].parent \in X \ Subtree(h, s)
<1> DEFINE S == Subtree(h, s)
<1>1. /\ X \subseteq Node /\ r \in X /\ h[r].parent = Null /\ h[s].parent \in X
      /\ X = Subtree(h, r)
  BY DEF IsTree
<1>2. /\ s \in S /\ S \subseteq X
      /\ \A m \in S \ {s} : h[m].parent \in S
  BY SubtreeParents
<1>3. r \notin S
  BY <1>1, <1>2, NodeAssumption
<1>4. ASSUME h[s].parent \in S PROVE FALSE
  <2>1. ASSUME NEW m \in X \ S, NEW c \in Children(h, m) PROVE c \in X \ S
    <3>1. c \in X /\ h[c].parent = m
      BY <1>1, TreeClosed, InChildren DEF IsTree
    <3> QED BY <1>2, <1>4, <3>1
  <2> DEFINE Z == X \ S
  <2>2. r \in Z /\ \A m \in Z \intersect Node : Children(h, m) \subseteq Z
    BY <1>1, <1>3, <2>1
  <2>3. Subtree(h, r) \subseteq Z
    <3> HIDE DEF Z
    <3> QED BY <1>1, <2>2, SubtreeLeast
  <2> QED BY <1>1, <1>2, <2>3
<1> QED BY <1>1, <1>3, <1>4

(* Two subtrees with a common node are one in the other.                   *)
LEMMA SubtreesNest ==
    ASSUME NEW h \in Heap, NEW X, NEW r, IsTree(h, X, r), NEW s \in X, NEW w \in X,
           NEW m \in Subtree(h, s), m \in Subtree(h, w), w \notin Subtree(h, s)
    PROVE  s \in Subtree(h, w)
<1> SUFFICES ASSUME s \notin Subtree(h, w) PROVE FALSE
  OBVIOUS
<1> DEFINE T == Subtree(h, w) \ Subtree(h, s)
<1>1. X \subseteq Node /\ w \in Subtree(h, w)
  BY SubtreeIn DEF IsTree
<1>2. ASSUME NEW a \in T, NEW c \in Children(h, a) PROVE c \in T
  <2>1. c \in Subtree(h, w) /\ a \in X
    BY SubtreeParents
  <2>2. h[c].parent = a
    BY <1>1, <2>1, InChildren DEF IsTree
  <2>3. c # s
    BY <2>1
  <2>4. c \notin Subtree(h, s)
    BY <2>2, <2>3, SubtreeParents
  <2> QED BY <2>1, <2>4
<1>3. Subtree(h, w) \subseteq T
  <2>1. w \in T /\ \A a \in T \intersect Node : Children(h, a) \subseteq T
    BY <1>1, <1>2
  <2> HIDE DEF T
  <2> QED BY <1>1, <2>1, SubtreeLeast
<1> QED BY <1>3

(* A subtree is the same in a heap that is the same on a tree around it.   *)
LEMMA SubtreeFrame ==
    ASSUME NEW h \in Heap, NEW g \in Heap, NEW X, NEW r, IsTree(h, X, r),
           \A n \in X : g[n] = h[n], NEW s \in X
    PROVE  Subtree(g, s) = Subtree(h, s)
<1> DEFINE S == Subtree(h, s)
           T == Subtree(g, s)
<1>1. /\ X \subseteq Node /\ s \in S /\ S \subseteq X
      /\ \A m \in S : Children(h, m) \subseteq S
  BY SubtreeParents DEF IsTree
<1>2. \A m \in X : Children(g, m) = Children(h, m)
  BY DEF Children
<1>3. s \in T /\ \A m \in T : Children(g, m) \subseteq T
  BY <1>1, SubtreeIn, SubtreeClosed
<1>4. T \subseteq S
  <2>1. \A m \in S \intersect Node : Children(g, m) \subseteq S
    BY <1>1, <1>2
  <2> HIDE DEF S
  <2> QED BY <1>1, <2>1, SubtreeLeast
<1>5. S \subseteq T
  <2>1. \A m \in T \intersect Node : Children(h, m) \subseteq T
    BY <1>1, <1>2, <1>3, <1>4
  <2> HIDE DEF T
  <2> QED BY <1>1, <1>3, <2>1, SubtreeLeast
<1> QED BY <1>4, <1>5

(* A subtree whose root forgets its parent is a tree.                      *)
LEMMA SubtreeIsTree ==
    ASSUME NEW h \in Heap, NEW X, NEW r, IsTree(h, X, r), NEW s \in X, NEW g \in Heap,
           g[s].parent = Null, g[s].children = h[s].children,
           \A n \in Subtree(h, s) \ {s} : g[n] = h[n]
    PROVE  IsTree(g, Subtree(h, s), s)
<1> DEFINE S == Subtree(h, s)
<1>1. /\ s \in S /\ S \subseteq X /\ X \subseteq Node
      /\ \A m \in S \ {s} : h[m].parent \in S
      /\ \A m \in S : Children(h, m) \subseteq S
  BY SubtreeParents DEF IsTree
<1>2. \A n \in S : g[n].children = h[n].children
  OBVIOUS
<1>3. S \subseteq Subtree(g, s)
  <2> DEFINE Z == {n \in S : n \in Subtree(g, s)}
  <2>1. s \in Z
    BY <1>1, SubtreeIn
  <2>2. \A n \in Z : Children(g, n) = Children(h, n)
    BY <1>2 DEF Children
  <2>3. \A n \in Z \intersect Node : Children(h, n) \subseteq Z
    BY <1>1, <2>2, SubtreeClosed
  <2>4. Subtree(h, s) \subseteq Z
    <3> HIDE DEF Z
    <3> QED BY <1>1, <2>1, <2>3, SubtreeLeast
  <2> QED BY <2>4
<1>4. \A n \in S : \A i \in DOMAIN h[n].children : h[n].children[i] \in S \ {s}
  <2> SUFFICES ASSUME NEW n \in S, NEW i \in DOMAIN h[n].children
               PROVE  h[n].children[i] \in S \ {s}
    OBVIOUS
  <2>1. h[n].children[i] \in S /\ h[h[n].children[i]].parent = n
    BY <1>1, InChildren DEF IsTree
  <2>2. h[n].children[i] # s
    BY <1>1, <2>1, ParentIsOutside, NodeAssumption DEF IsTree
  <2> QED BY <2>1, <2>2
<1>5. \A n \in S : \A i \in DOMAIN g[n].children :
             /\ g[n].children[i] \in S
             /\ g[g[n].children[i]].parent = n /\ g[g[n].children[i]].index = i - 1
  BY <1>1, <1>2, <1>4 DEF IsTree
<1>6. s # r \/ r \notin S \ {s}
  OBVIOUS
<1>7. r \notin S \ {s}
  BY <1>6, ParentIsOutside
<1>8. \A n \in S \ {s} :
             /\ g[n].parent \in S /\ g[n].index + 1 \in DOMAIN g[g[n].parent].children
             /\ g[g[n].parent].children[g[n].index + 1] = n
  BY <1>1, <1>2, <1>7 DEF IsTree
<1> HIDE DEF S
<1>9. IsTree(g, S, s)
  BY <1>1, <1>3, <1>5, <1>8, TreeIs DEF S
<1> QED BY <1>9 DEF S

-----------------------------------------------------------------------------
(* remove_child.                                                           *)

LEMMA RemoveAtIs ==
    ASSUME NEW S, NEW q \in Seq(S), NEW i \in 1..Len(q)
    PROVE  /\ RemoveAt(q, i) \in Seq(S)
           /\ Len(RemoveAt(q, i)) = Len(q) - 1
           /\ \A j \in 1..(Len(q) - 1) : RemoveAt(q, i)[j] = IF j < i THEN q[j] ELSE q[j + 1]
<1> DEFINE a == SubSeq(q, 1, i - 1)
           b == SubSeq(q, i + 1, Len(q))
<1>1. /\ a \in Seq(S) /\ Len(a) = i - 1 /\ \A j \in 1..(i - 1) : a[j] = q[j]
  <2>1. \A j \in 1..(i - 1) : q[j] \in S
    BY ElementOfSeq
  <2>2. 1 \in Int /\ i - 1 \in Int
    OBVIOUS
  <2> QED BY <2>1, <2>2, SubSeqProperties
<1>2. /\ b \in Seq(S) /\ Len(b) = Len(q) - i /\ \A j \in 1..(Len(q) - i) : b[j] = q[j + i]
  <2>1. \A j \in (i + 1)..Len(q) : q[j] \in S
    BY ElementOfSeq
  <2>2. i + 1 \in Int /\ Len(q) \in Int
    OBVIOUS
  <2> QED BY <2>1, <2>2, SubSeqProperties
<1>3. RemoveAt(q, i) = a \o b
  BY DEF RemoveAt
<1> HIDE DEF a, b
<1>4. /\ a \o b \in Seq(S) /\ Len(a \o b) = Len(a) + Len(b)
      /\ \A j \in 1..(Len(a) + Len(b)) : (a \o b)[j] = IF j <= Len(a) THEN a[j] ELSE b[j - Len(a)]
  BY <1>1, <1>2, ConcatProperties
<1>5. ASSUME NEW j \in 1..(Len(q) - 1) PROVE (a \o b)[j] = IF j < i THEN q[j] ELSE q[j + 1]
  <2>1. CASE j < i
    BY <1>1, <1>2, <1>4, <2>1
  <2>2. CASE ~(j < i)
    <3>1. j - Len(a) \in 1..(Len(q) - i) /\ (j - Len(a)) + i = j + 1
      BY <1>1, <2>2
    <3>2. j \in 1..(Len(a) + Len(b)) /\ ~(j <= Len(a))
      BY <1>1, <1>2, <2>2
    <3>3. (a \o b)[j] = b[j - Len(a)]
      BY <1>4, <3>2
    <3>4. b[j - Len(a)] = q[j + 1]
      BY <1>2, <3>1
    <3> QED BY <2>2, <3>3, <3>4
  <2> QED BY <2>1, <2>2
<1> QED BY <1>1, <1>2, <1>3, <1>4, <1>5

(* Right siblings get the index before theirs, nothing else changes.       *)
LEMMA RemoveChildIs ==
    ASSUME NEW h \in Heap, NEW p \in Node, NEW i \in Nat, i + 1 \in DOMAIN h[p].children,
           \A j \in DOMAIN h[p].children : h[h[p].children[j]].index = j - 1
    PROVE  LET g == RemoveChild(h, p, i)
               kids == h[p].children
           IN  /\ g \in Heap
               /\ \A n \in Node : g[n].parent = h[n].parent
               /\ \A n \in Node \ {p} : g[n].children = h[n].children
               /\ Len(g[p].children) = Len(kids) - 1
               /\ \A j \in 1..(Len(kids) - 1) :
                    g[p].children[j] = IF j < i + 1 THEN kids[j] ELSE kids[j + 1]
               /\ \A j \in DOMAIN kids : g[kids[j]].index = IF j > i + 1 THEN j - 2 ELSE j - 1
               /\ \A n \in Node \ Children(h, p) : g[n].index = h[n].index
<1> DEFINE g == RemoveChild(h, p, i)
           kids == h[p].children
           right == {kids[j] : j \in (i + 2)..Len(kids)}
           index(n) == IF n \in right THEN h[n].index - 1 ELSE h[n].index
           children(n) == IF n = p THEN RemoveAt(kids, i + 1) ELSE h[n].children
<1>1. /\ kids \in Seq(Node) /\ DOMAIN kids = 1..Len(kids) /\ Len(kids) \in Nat
      /\ \A j \in 1..Len(kids) : kids[j] \in Node
      /\ i + 1 \in 1..Len(kids)
  BY HeapFields
<1>2. g = [n \in Node |-> [parent |-> h[n].parent, index |-> index(n), children |-> children(n)]]
  BY DEF RemoveChild, ChildCount
<1>3. /\ RemoveAt(kids, i + 1) \in Seq(Node) /\ Len(RemoveAt(kids, i + 1)) = Len(kids) - 1
      /\ \A j \in 1..(Len(kids) - 1) :
           RemoveAt(kids, i + 1)[j] = IF j < i + 1 THEN kids[j] ELSE kids[j + 1]
  <2> HIDE DEF kids
  <2> QED BY <1>1, RemoveAtIs
<1>4. ASSUME NEW n \in right PROVE h[n].index \in Nat /\ h[n].index > i
  <2>1. PICK j \in (i + 2)..Len(kids) : n = kids[j]
    OBVIOUS
  <2>2. j \in DOMAIN kids
    BY <1>1, <2>1
  <2>3. h[kids[j]].index = j - 1
    BY <2>2
  <2>4. j \in Nat /\ j > i + 1
    BY <2>1
  <2> HIDE DEF kids
  <2> QED BY <2>1, <2>3, <2>4
<1>5. \A n \in Node : index(n) \in Nat /\ children(n) \in Seq(Node)
                      /\ h[n].parent \in Node \union {Null}
  <2> SUFFICES ASSUME NEW n \in Node
               PROVE  index(n) \in Nat /\ children(n) \in Seq(Node)
                      /\ h[n].parent \in Node \union {Null}
    OBVIOUS
  <2>1. index(n) \in Nat
    <3> HIDE DEF right
    <3> QED BY <1>4, HeapFields
  <2>2. children(n) \in Seq(Node) /\ h[n].parent \in Node \union {Null}
    BY <1>3, HeapFields
  <2> QED BY <2>1, <2>2
<1>6. g \in Heap
  <2> HIDE DEF g, index, children
  <2> QED BY <1>2, <1>5 DEF Heap
<1>7. ASSUME NEW n \in Node
      PROVE  g[n].parent = h[n].parent /\ g[n].index = index(n) /\ g[n].children = children(n)
  <2> HIDE DEF g, index, children
  <2> QED BY <1>2
<1>8. ASSUME NEW j \in DOMAIN kids PROVE kids[j] \in right <=> j > i + 1
  <2>1. j > i + 1 => kids[j] \in right
    BY <1>1
  <2>2. kids[j] \in right => j > i + 1
    <3>1. h[kids[j]].index = j - 1 /\ j \in Nat
      BY <1>1
    <3>2. kids[j] \in right => h[kids[j]].index > i
      BY <1>4
    <3> HIDE DEF kids, right
    <3> QED BY <3>1, <3>2
  <2> QED BY <2>1, <2>2
<1>9. ASSUME NEW j \in DOMAIN kids PROVE g[kids[j]].index = IF j > i + 1 THEN j - 2 ELSE j - 1
  <2>1. kids[j] \in Node /\ h[kids[j]].index = j - 1 /\ j \in Nat
    BY <1>1
  <2> HIDE DEF right
  <2> QED BY <1>7, <1>8, <2>1
<1>10. ASSUME NEW n \in Node \ Children(h, p) PROVE g[n].index = h[n].index
  <2>1. n \notin right
    <3>1. \A j \in DOMAIN kids : kids[j] # n
      BY InChildren
    <3>2. \A j \in (i + 2)..Len(kids) : j \in DOMAIN kids
      BY <1>1
    <3> QED BY <3>1, <3>2
  <2> HIDE DEF right
  <2> QED BY <1>7, <2>1
<1> HIDE DEF g
<1>11. /\ \A n \in Node : g[n].parent = h[n].parent
       /\ \A n \in Node \ {p} : g[n].children = h[n].children
       /\ Len(g[p].children) = Len(kids) - 1
       /\ \A j \in 1..(Len(kids) - 1) :
                    g[p].children[j] = IF j < i + 1 THEN kids[j] ELSE kids[j + 1]
  BY <1>3, <1>7
<1> QED BY <1>6, <1>9, <1>10, <1>11 DEF g

LEMMA ClearMetadataIs ==
    ASSUME NEW h \in Heap, NEW s \in Node
    PROVE  /\ ClearParentMetadata(h, s) \in Heap
           /\ ClearParentMetadata(h, s)[s].parent = Null
           /\ ClearParentMetadata(h, s)[s].children = h[s].children
           /\ \A n \in Node \ {s} : ClearParentMetadata(h, s)[n] = h[n]
<1> DEFINE R == [parent : Node \union {Null}, index : Nat, children : Seq(Node)]
<1>1. h \in [Node -> R] /\ [h[s] EXCEPT !.parent = Null, !.index = 0] \in R
  BY DEF Heap
<1>2. ClearParentMetadata(h, s) = [h EXCEPT ![s] = [h[s] EXCEPT !.parent = Null, !.index = 0]]
  BY DEF ClearParentMetadata, Heap
<1>3. ClearParentMetadata(h, s) \in [Node -> R]
  <2> HIDE DEF R
  <2> QED BY <1>1, <1>2
<1> QED BY <1>1, <1>2, <1>3 DEF Heap

(* Taking a subtree out of a tree leaves two trees.                        *)
LEMMA DetachKeepsTrees ==
    ASSUME NEW h \in Heap, NEW X, NEW r, IsTree(h, X, r), NEW s \in X \ {r}
    PROVE  LET g == RemoveChild(h, h[s].parent, h[s].index)
               S == Subtree(h, s)
           IN  /\ g \in Heap
               /\ SameOutside(g, h, X)
               /\ IsTree(g, X \ S, r)
               /\ IsTree(ClearParentMetadata(g, s), S, s)
<1> DEFINE p == h[s].parent
           i == h[s].index
           g == RemoveChild(h, p, i)
           S == Subtree(h, s)
           kids == h[p].children
           Z == X \ S
<1>1. /\ X \subseteq Node /\ r \in X /\ X = Subtree(h, r) /\ h[r].parent = Null
      /\ p \in X /\ p \in Node /\ s \in Node /\ i \in Nat
      /\ i + 1 \in DOMAIN kids /\ kids[i + 1] = s
  BY HeapFields DEF IsTree
<1>2. /\ s \in S /\ S \subseteq X /\ r \notin S /\ p \notin S
      /\ \A m \in S \ {s} : h[m].parent \in S
      /\ \A m \in S : Children(h, m) \subseteq S
  BY SubtreeParents, ParentIsOutside
<1>3. \A n \in X : \A j \in DOMAIN h[n].children :
        /\ h[n].children[j] \in X
        /\ h[h[n].children[j]].parent = n /\ h[h[n].children[j]].index = j - 1
  BY TreeClosed DEF IsTree
<1>4. /\ g \in Heap
      /\ \A n \in Node : g[n].parent = h[n].parent
      /\ \A n \in Node \ {p} : g[n].children = h[n].children
      /\ Len(g[p].children) = Len(kids) - 1
      /\ \A j \in 1..(Len(kids) - 1) :
           g[p].children[j] = IF j < i + 1 THEN kids[j] ELSE kids[j + 1]
      /\ \A j \in DOMAIN kids : g[kids[j]].index = IF j > i + 1 THEN j - 2 ELSE j - 1
      /\ \A n \in Node \ Children(h, p) : g[n].index = h[n].index
  <2>1. \A j \in DOMAIN h[p].children : h[h[p].children[j]].index = j - 1
    BY <1>1, <1>3
  <2> HIDE DEF i, p
  <2> QED BY <1>1, <2>1, RemoveChildIs
<1> HIDE DEF g
<1>5. /\ DOMAIN kids = 1..Len(kids) /\ Len(kids) \in Nat
      /\ DOMAIN g[p].children = 1..(Len(kids) - 1)
  <2>1. DOMAIN kids = 1..Len(kids) /\ Len(kids) \in Nat
    BY <1>1, HeapFields
  <2>2. DOMAIN g[p].children = 1..Len(g[p].children)
    BY <1>1, <1>4, HeapFields
  <2> QED BY <1>4, <2>1, <2>2
<1>6. \A n \in X : n \in Children(h, p) <=> h[n].parent = p /\ n # r
  BY <1>1, <1>3, InChildren, NodeAssumption DEF IsTree
<1>7. \A n \in X : h[n].parent # p => g[n].index = h[n].index
  BY <1>1, <1>4, <1>6
<1>8. ASSUME NEW n \in Z, NEW j \in DOMAIN g[n].children
      PROVE  /\ g[n].children[j] \in Z
             /\ g[g[n].children[j]].parent = n /\ g[g[n].children[j]].index = j - 1
  <2> DEFINE c == g[n].children[j]
  <2>1. ASSUME NEW k \in DOMAIN h[n].children, h[n].children[k] # s
        PROVE  h[n].children[k] \in Z /\ h[n].children[k] \in Node
               /\ h[h[n].children[k]].parent = n
    BY <1>1, <1>2, <1>3, <2>1
  <2>2. CASE n # p
    <3>1. c = h[n].children[j] /\ j \in DOMAIN h[n].children
      BY <1>1, <1>4, <2>2
    <3>2. c # s
      BY <1>1, <1>3, <2>2, <3>1
    <3>3. c \in Z /\ c \in Node /\ h[c].parent = n /\ h[c].index = j - 1
      BY <1>3, <2>1, <3>1, <3>2
    <3> HIDE DEF c
    <3>4. g[c].parent = n /\ g[c].index = j - 1
      BY <1>4, <1>7, <2>2, <3>3
    <3> QED BY <3>3, <3>4 DEF c
  <2>3. CASE n = p
    <3>1. j \in 1..(Len(kids) - 1)
      BY <1>5, <2>3
    <3> DEFINE k == IF j < i + 1 THEN j ELSE j + 1
    <3>2. /\ k \in DOMAIN kids /\ c = kids[k] /\ k # i + 1
          /\ (IF k > i + 1 THEN k - 2 ELSE k - 1) = j - 1
      <4>1. /\ i \in Nat /\ Len(kids) \in Nat /\ i + 1 \in 1..Len(kids)
            /\ DOMAIN kids = 1..Len(kids)
        BY <1>1, <1>5
      <4>2. c = IF j < i + 1 THEN kids[j] ELSE kids[j + 1]
        BY <1>4, <2>3, <3>1
      <4> HIDE DEF i, kids, c
      <4>3. CASE j < i + 1
        BY <3>1, <4>1, <4>2, <4>3
      <4>4. CASE ~(j < i + 1)
        BY <3>1, <4>1, <4>2, <4>4
      <4> QED BY <4>3, <4>4
    <3> HIDE DEF k, c
    <3>3. c # s
      <4>1. p \in X /\ k \in DOMAIN h[p].children
        BY <1>1, <3>2
      <4>2. h[h[p].children[k]].index = k - 1
        BY <1>3, <4>1
      <4>3. h[c].index = k - 1
        BY <3>2, <4>2
      <4>4. h[s].index = i /\ i \in Nat /\ k \in Nat /\ k # i + 1
        BY <1>1, <1>5, <3>2
      <4> HIDE DEF i
      <4> QED BY <4>3, <4>4
    <3>4. c \in Z /\ c \in Node /\ h[c].parent = p
      BY <2>1, <2>3, <3>2, <3>3
    <3>5. g[c].parent = p /\ g[c].index = j - 1
      BY <1>4, <3>2, <3>4
    <3> QED BY <2>3, <3>4, <3>5 DEF c
  <2> QED BY <2>2, <2>3
<1>9. ASSUME NEW n \in Z \ {r}
      PROVE  /\ g[n].parent \in Z /\ g[n].index + 1 \in DOMAIN g[g[n].parent].children
             /\ g[g[n].parent].children[g[n].index + 1] = n
  <2> DEFINE q == h[n].parent
             k == h[n].index
  <2>1. /\ q \in X /\ q \in Node /\ n \in Node /\ k \in Nat
        /\ k + 1 \in DOMAIN h[q].children /\ h[q].children[k + 1] = n
    BY <1>1, HeapFields DEF IsTree
  <2>2. q \in Z /\ n # s /\ g[n].parent = q
    <3>1. n \in Children(h, q) /\ n \notin S
      BY <2>1, InChildren
    <3>2. q \notin S
      BY <1>2, <3>1
    <3> HIDE DEF g, S
    <3> QED BY <1>2, <1>4, <2>1, <3>1, <3>2
  <2>3. CASE q # p
    <3>1. g[n].index = k /\ g[q].children = h[q].children
      BY <1>4, <1>7, <2>1, <2>3
    <3> QED BY <2>1, <2>2, <3>1
  <2>4. CASE q = p
    <3>1. k + 1 \in DOMAIN kids /\ kids[k + 1] = n /\ k # i
      BY <1>1, <2>1, <2>2, <2>4
    <3>2. g[n].index = IF k + 1 > i + 1 THEN k - 1 ELSE k
      <4>1. g[kids[k + 1]].index = IF k + 1 > i + 1 THEN (k + 1) - 2 ELSE (k + 1) - 1
        BY <1>4, <3>1
      <4> QED BY <2>1, <3>1, <4>1
    <3>3. g[n].index + 1 \in 1..(Len(kids) - 1)
      <4>1. /\ i \in Nat /\ Len(kids) \in Nat /\ i + 1 \in 1..Len(kids)
            /\ k \in Nat /\ k + 1 \in 1..Len(kids) /\ k # i
        BY <1>1, <1>5, <2>1, <3>1
      <4> HIDE DEF i, k, kids
      <4> QED BY <3>2, <4>1
    <3>4. g[p].children[g[n].index + 1] = n
      <4> DEFINE x == g[n].index
      <4>1. /\ i \in Nat /\ k \in Nat /\ k # i /\ x = IF k + 1 > i + 1 THEN k - 1 ELSE k
        BY <1>1, <2>1, <3>1, <3>2
      <4>2. g[p].children[x + 1] = IF x + 1 < i + 1 THEN kids[x + 1] ELSE kids[x + 2]
        <5>1. x + 1 \in 1..(Len(kids) - 1)
          BY <3>3
        <5>2. (x + 1) + 1 = x + 2
          <6> HIDE DEF x, k, i
          <6> QED BY <4>1
        <5> HIDE DEF x
        <5>3. g[p].children[x + 1] = IF x + 1 < i + 1 THEN kids[x + 1] ELSE kids[(x + 1) + 1]
          BY <1>4, <5>1
        <5> QED BY <5>2, <5>3
      <4> HIDE DEF i, k, kids, x
      <4>3. (IF x + 1 < i + 1 THEN x + 1 ELSE x + 2) = k + 1
        BY <4>1
      <4>4. g[p].children[x + 1] = kids[k + 1]
        BY <4>2, <4>3
      <4> QED BY <3>1, <4>4 DEF x
    <3> QED BY <1>5, <2>2, <2>4, <3>3, <3>4
  <2> QED BY <2>3, <2>4
<1>10. Z \subseteq Subtree(g, r)
  <2> DEFINE W == Subtree(g, r) \union S
  <2>1. r \in W
    BY <1>1, <1>4, SubtreeIn
  <2>2. ASSUME NEW m \in W, m \in Node, NEW c \in Children(h, m) PROVE c \in W
    <3>1. CASE m \in S
      BY <1>2, <3>1
    <3>2. CASE m \in Subtree(g, r) /\ m # p
      <4>1. Children(g, m) = Children(h, m)
        BY <1>4, <2>2, <3>2 DEF Children
      <4> QED BY <1>1, <1>4, <3>2, <4>1, SubtreeClosed
    <3>3. CASE m \in Subtree(g, r) /\ m = p /\ c # s
      <4>1. PICK k \in DOMAIN kids : kids[k] = c
        BY <1>1, <2>2, <3>3, InChildren
      <4>2. k # i + 1
        BY <1>1, <3>3, <4>1
      <4> DEFINE j == IF k < i + 1 THEN k ELSE k - 1
      <4>3. j \in 1..(Len(kids) - 1) /\ (IF j < i + 1 THEN j ELSE j + 1) = k
        <5>1. i \in Nat /\ Len(kids) \in Nat /\ k \in 1..Len(kids) /\ i + 1 \in 1..Len(kids)
          BY <1>1, <1>5, <4>1
        <5> HIDE DEF i, kids
        <5> QED BY <4>2, <5>1
      <4>4. g[p].children[j] = c
        BY <1>4, <4>1, <4>3
      <4>5. c \in Children(g, p)
        BY <1>1, <1>4, <1>5, <4>3, <4>4, InChildren
      <4> QED BY <1>1, <1>4, <3>3, <4>5, SubtreeClosed
    <3> QED BY <1>2, <2>2, <3>1, <3>2, <3>3
  <2>3. Subtree(h, r) \subseteq W
    <3> HIDE DEF W
    <3> QED BY <1>1, <2>1, <2>2, SubtreeLeast
  <2> QED BY <1>1, <2>3
<1>11. IsTree(g, Z, r)
  <2>1. Z \subseteq Node /\ r \in Z /\ g[r].parent = Null
    BY <1>1, <1>2, <1>4
  <2> HIDE DEF Z
  <2> QED BY <1>4, <1>8, <1>9, <1>10, <2>1, TreeIs
<1>12. IsTree(ClearParentMetadata(g, s), S, s)
  <2> DEFINE f == ClearParentMetadata(g, s)
  <2>1. /\ f \in Heap /\ f[s].parent = Null /\ f[s].children = g[s].children
        /\ \A n \in Node \ {s} : f[n] = g[n]
    BY <1>1, <1>4, ClearMetadataIs
  <2>2. g[s].children = h[s].children
    BY <1>1, <1>2, <1>4
  <2>3. ASSUME NEW n \in S \ {s} PROVE f[n] = h[n]
    <3>1. n \in Node /\ n \in X /\ n # p /\ h[n].parent # p
      BY <1>1, <1>2
    <3>2. g[n].parent = h[n].parent /\ g[n].index = h[n].index /\ g[n].children = h[n].children
      BY <1>4, <1>7, <3>1
    <3>3. g[n] = h[n]
      BY <1>4, <3>1, <3>2, SameFields
    <3> QED BY <2>1, <3>1, <3>3
  <2> HIDE DEF f
  <2>4. IsTree(f, S, s)
    BY <2>1, <2>2, <2>3, SubtreeIsTree
  <2> QED BY <2>4 DEF f
<1>13. ASSUME NEW n \in Node \ X PROVE g[n] = h[n]
  <2>1. n # p /\ n \notin Children(h, p)
    BY <1>1, <1>3, InChildren
  <2> QED BY <1>4, <2>1, SameFields
<1> QED BY <1>4, <1>11, <1>12, <1>13 DEF g, SameOutside

-----------------------------------------------------------------------------
(* merge_child.                                                            *)

(* Free: the addresses are fresh again, the rest is as it was.             *)
LEMMA FreeIs ==
    ASSUME NEW h \in Heap, NEW S
    PROVE  /\ Free(h, S) \in Heap
           /\ \A n \in Node \ S : Free(h, S)[n] = h[n]
           /\ \A n \in Node \intersect S : Free(h, S)[n] = FreshNode
<1> DEFINE R == [parent : Node \union {Null}, index : Nat, children : Seq(Node)]
<1>1. FreshNode \in R
  BY EmptySeq DEF FreshNode
<1>2. \A n \in Node : h[n] \in R
  BY DEF Heap
<1>3. Free(h, S) \in [Node -> R]
  <2> HIDE DEF R
  <2> QED BY <1>1, <1>2 DEF Free
<1> QED BY <1>3 DEF Free, Heap

(* The child number i of q gives its place to the elements of a.           *)
Replaced(q, i, a) == SubSeq(q, 1, i) \o a \o SubSeq(q, i + 2, Len(q))

LEMMA ReplaceIs ==
    ASSUME NEW S, NEW q \in Seq(S), NEW a \in Seq(S), NEW i \in Nat, i + 1 \in 1..Len(q)
    PROVE  /\ Replaced(q, i, a) \in Seq(S)
           /\ DOMAIN Replaced(q, i, a) = 1..Len(Replaced(q, i, a))
           /\ Len(Replaced(q, i, a)) = Len(q) + Len(a) - 1
           /\ \A j \in 1..i : Replaced(q, i, a)[j] = q[j]
           /\ \A j \in 1..Len(a) : Replaced(q, i, a)[i + j] = a[j]
           /\ \A j \in (i + 2)..Len(q) : Replaced(q, i, a)[j + Len(a) - 1] = q[j]
<1> DEFINE b == SubSeq(q, 1, i)
           c == SubSeq(q, i + 2, Len(q))
<1>0. Len(q) \in Nat /\ Len(a) \in Nat
  OBVIOUS
<1>1. /\ b \in Seq(S) /\ Len(b) = i /\ \A j \in 1..i : b[j] = q[j]
  <2>1. \A j \in 1..i : q[j] \in S
    BY ElementOfSeq
  <2>2. 1 \in Int /\ i \in Int
    OBVIOUS
  <2> QED BY <2>1, <2>2, SubSeqProperties
<1>2. /\ c \in Seq(S) /\ Len(c) = Len(q) - i - 1
      /\ \A j \in 1..(Len(q) - i - 1) : c[j] = q[j + i + 1]
  <2>1. \A j \in (i + 2)..Len(q) : q[j] \in S
    BY ElementOfSeq
  <2>2. i + 2 \in Int /\ Len(q) \in Int
    OBVIOUS
  <2> QED BY <2>1, <2>2, SubSeqProperties
<1> HIDE DEF b, c
<1>3. /\ b \o a \in Seq(S) /\ Len(b \o a) = i + Len(a)
      /\ \A j \in 1..(i + Len(a)) : (b \o a)[j] = IF j <= i THEN b[j] ELSE a[j - i]
  BY <1>1, ConcatProperties
<1> DEFINE d == b \o a
           w == d \o c
<1> HIDE DEF d
<1>4. /\ w \in Seq(S) /\ Len(w) = Len(d) + Len(c)
      /\ \A j \in 1..(Len(d) + Len(c)) : w[j] = IF j <= Len(d) THEN d[j] ELSE c[j - Len(d)]
  <2>1. d \in Seq(S)
    BY <1>3 DEF d
  <2> QED BY <1>2, <2>1, ConcatProperties
<1> HIDE DEF w
<1>5. /\ Len(d) = i + Len(a)
      /\ \A j \in 1..(i + Len(a)) : d[j] = IF j <= i THEN b[j] ELSE a[j - i]
  BY <1>3 DEF d
<1>6. Len(w) = Len(q) + Len(a) - 1
  BY <1>0, <1>2, <1>4, <1>5
<1>7. ASSUME NEW j \in 1..i PROVE w[j] = q[j]
  <2>1. j \in 1..(Len(d) + Len(c)) /\ j <= Len(d) /\ j \in 1..(i + Len(a)) /\ j <= i
    BY <1>0, <1>2, <1>5
  <2> QED BY <1>1, <1>4, <1>5, <2>1
<1>8. ASSUME NEW j \in 1..Len(a) PROVE w[i + j] = a[j]
  <2>1. /\ i + j \in 1..(Len(d) + Len(c)) /\ i + j <= Len(d) /\ i + j \in 1..(i + Len(a))
        /\ ~(i + j <= i) /\ (i + j) - i = j
    BY <1>0, <1>2, <1>5
  <2> QED BY <1>4, <1>5, <2>1
<1>9. ASSUME NEW j \in (i + 2)..Len(q) PROVE w[j + Len(a) - 1] = q[j]
  <2> DEFINE k == j + Len(a) - 1
  <2>1. /\ k \in 1..(Len(d) + Len(c)) /\ ~(k <= Len(d))
        /\ k - Len(d) \in 1..(Len(q) - i - 1) /\ (k - Len(d)) + i + 1 = j
    BY <1>0, <1>2, <1>5
  <2> HIDE DEF k
  <2>2. w[k] = c[k - Len(d)]
    BY <1>4, <2>1
  <2>3. w[k] = q[j]
    BY <1>2, <2>1, <2>2
  <2> QED BY <2>3 DEF k
<1>10. DOMAIN w = 1..Len(w)
  BY <1>4
<1> QED BY <1>4, <1>6, <1>7, <1>8, <1>9, <1>10 DEF w, d, b, c, Replaced

(* g is h after p's child number i, m, gave its place to its children.     *)
IsMerge(h, g, p, m, i) ==
    LET q == h[p].children
        a == h[m].children
        w == g[p].children
    IN  /\ g \in Heap
        /\ Len(w) = Len(q) + Len(a) - 1
        /\ \A j \in 1..i : w[j] = q[j]
        /\ \A j \in 1..Len(a) : w[i + j] = a[j]
        /\ \A j \in (i + 2)..Len(q) : w[j + Len(a) - 1] = q[j]
        /\ \A j \in DOMAIN w : g[w[j]].parent = p /\ g[w[j]].index = j - 1
        /\ \A n \in Node \ {p, m} : g[n].children = h[n].children
        /\ g[m].children = <<>>
        /\ \A n \in Node \ Children(h, m) : g[n].parent = h[n].parent
        /\ \A n \in Node : (\A j \in DOMAIN w : w[j] # n) => g[n].index = h[n].index

(* The children of p's child m take its place, and every child of p knows  *)
(* its new index.                                                          *)
LEMMA MergeChildIs ==
    ASSUME NEW h \in Heap, NEW p \in Node, NEW m \in Node, NEW i \in Nat,
           i + 1 \in DOMAIN h[p].children, h[p].children[i + 1] = m, m # p,
           \A n \in {p, m} : \A j \in DOMAIN h[n].children :
             h[h[n].children[j]].parent = n /\ h[h[n].children[j]].index = j - 1
    PROVE  IsMerge(h, MergeChild(h, p, i), p, m, i)
<1> DEFINE q == h[p].children
           a == h[m].children
           w == Replaced(q, i, a)
           first == IF i = 0 THEN Len(a) ELSE i
           end == IF Len(a) = 1 THEN i + 1 ELSE Len(w)
           updated == first..(end - 1)
           parent(n) == IF n \in ToSet(a) THEN p ELSE h[n].parent
           index(n) == IF \E k \in updated : w[k + 1] = n
                       THEN CHOOSE k \in updated : w[k + 1] = n ELSE h[n].index
           children(n) == IF n = p THEN w ELSE IF n = m THEN <<>> ELSE h[n].children
           g == MergeChild(h, p, i)
<1>1. g = [n \in Node |-> [parent |-> parent(n), index |-> index(n), children |-> children(n)]]
  BY DEF MergeChild, Child, ChildCount, Replaced
<1>2. /\ q \in Seq(Node) /\ Len(q) \in Nat /\ DOMAIN q = 1..Len(q) /\ i + 1 \in 1..Len(q)
      /\ a \in Seq(Node) /\ Len(a) \in Nat /\ DOMAIN a = 1..Len(a)
      /\ \A j \in 1..Len(q) : q[j] \in Node /\ h[q[j]].parent = p /\ h[q[j]].index = j - 1
      /\ \A j \in 1..Len(a) : a[j] \in Node /\ h[a[j]].parent = m /\ h[a[j]].index = j - 1
  BY HeapFields
<1>3. /\ w \in Seq(Node) /\ DOMAIN w = 1..Len(w)
      /\ Len(w) = Len(q) + Len(a) - 1
      /\ \A j \in 1..i : w[j] = q[j]
      /\ \A j \in 1..Len(a) : w[i + j] = a[j]
      /\ \A j \in (i + 2)..Len(q) : w[j + Len(a) - 1] = q[j]
  <2> HIDE DEF q, a
  <2> QED BY <1>2, ReplaceIs
<1> HIDE DEF w, g, q, a
<1>4. DOMAIN w = 1..Len(w) /\ Len(w) \in Nat /\ \A j \in DOMAIN w : w[j] \in Node
  <2>1. \A j \in 1..Len(w) : w[j] \in Node
    BY <1>3, ElementOfSeq
  <2>2. Len(w) \in Nat
    BY <1>3
  <2> QED BY <1>3, <2>1, <2>2
<1>0. /\ first = (IF i = 0 THEN Len(a) ELSE i) /\ end = (IF Len(a) = 1 THEN i + 1 ELSE Len(w))
      /\ first \in Nat /\ end \in Nat /\ end <= Len(w) /\ i <= first
  BY <1>2, <1>3, <1>4
<1> HIDE DEF first, end
(* Every position of w holds a child of p to the left of m, a child of m, or a*)
(* child of p to the right of m.                                           *)
<1> DEFINE Left(j)  == j <= i /\ h[w[j]].parent = p /\ h[w[j]].index = j - 1
           Mid(j)   == i < j /\ j <= i + Len(a) /\ h[w[j]].parent = m
                       /\ h[w[j]].index = j - i - 1
           Right(j) == i + Len(a) < j /\ h[w[j]].parent = p
                       /\ h[w[j]].index = j - Len(a)
<1>5. ASSUME NEW j \in 1..Len(w) PROVE Left(j) \/ Mid(j) \/ Right(j)
  <2>1. CASE j <= i
    <3>1. j \in 1..i /\ j \in 1..Len(q)
      BY <1>2, <2>1
    <3>2. h[q[j]].parent = p /\ h[q[j]].index = j - 1
      BY <1>2, <3>1
    <3> QED BY <1>3, <2>1, <3>1, <3>2
  <2>2. CASE i < j /\ j <= i + Len(a)
    <3> DEFINE k == j - i
    <3>1. k \in 1..Len(a) /\ j = i + k /\ k - 1 = j - i - 1
      BY <1>2, <2>2
    <3> HIDE DEF k
    <3>2. w[j] = a[k]
      BY <1>3, <3>1
    <3>3. h[a[k]].parent = m /\ h[a[k]].index = k - 1
      BY <1>2, <3>1
    <3> QED BY <2>2, <3>1, <3>2, <3>3
  <2>3. CASE i + Len(a) < j
    <3> DEFINE k == j - Len(a) + 1
    <3>1. k \in (i + 2)..Len(q) /\ k \in 1..Len(q) /\ j = k + Len(a) - 1 /\ k - 1 = j - Len(a)
      <4>1. i \in Nat /\ Len(q) \in Nat /\ Len(a) \in Nat /\ j \in Nat /\ j <= Len(q) + Len(a) - 1
        BY <1>2, <1>3
      <4> HIDE DEF q, a, w
      <4> QED BY <2>3, <4>1
    <3> HIDE DEF k
    <3>2. w[j] = q[k]
      BY <1>3, <3>1
    <3>3. h[q[k]].parent = p /\ h[q[k]].index = k - 1
      BY <1>2, <3>1
    <3> QED BY <2>3, <3>1, <3>2, <3>3
  <2>4. j \in Nat /\ Len(a) \in Nat
    BY <1>2
  <2> QED BY <2>1, <2>2, <2>3, <2>4
<1>6. ASSUME NEW j \in 1..Len(w), NEW k \in 1..Len(w), w[j] = w[k] PROVE j = k
  <2>1. (Left(j) \/ Mid(j) \/ Right(j)) /\ (Left(k) \/ Mid(k) \/ Right(k))
    BY <1>5
  <2>2. h[w[j]] = h[w[k]]
    BY <1>6
  <2> DEFINE x == h[w[j]]
  <2>3. \/ j <= i /\ x.parent = p /\ x.index = j - 1
        \/ i < j /\ j <= i + Len(a) /\ x.parent = m /\ x.index = j - i - 1
        \/ i + Len(a) < j /\ x.parent = p /\ x.index = j - Len(a)
    BY <2>1
  <2>4. \/ k <= i /\ x.parent = p /\ x.index = k - 1
        \/ i < k /\ k <= i + Len(a) /\ x.parent = m /\ x.index = k - i - 1
        \/ i + Len(a) < k /\ x.parent = p /\ x.index = k - Len(a)
    BY <2>1, <2>2
  <2> HIDE DEF x
  <2>5. j \in Nat /\ k \in Nat /\ Len(a) \in Nat
    BY <1>2
  <2> QED BY <2>3, <2>4, <2>5
<1>7. ASSUME NEW k \in updated PROVE k \in Nat /\ k + 1 \in 1..Len(w) /\ i <= k
  <2>1. k \in Int /\ first <= k /\ k <= end - 1
    BY <1>0
  <2> HIDE DEF updated
  <2>2. first \in Nat /\ end \in Nat /\ Len(w) \in Nat /\ end <= Len(w) /\ i <= first
    BY <1>0, <1>4
  <2> QED BY <2>1, <2>2
<1>8. ASSUME NEW j \in 1..Len(w) PROVE index(w[j]) = j - 1
  <2>1. CASE j - 1 \in updated
    <3>1. (j - 1) + 1 = j
      BY <1>4
    <3>2. \A k \in updated : w[k + 1] = w[j] => k = j - 1
      <4> SUFFICES ASSUME NEW k \in updated, w[k + 1] = w[j] PROVE k = j - 1
        OBVIOUS
      <4>1. k + 1 \in 1..Len(w) /\ k \in Nat
        BY <1>7
      <4>2. k + 1 = j
        BY <1>6, <4>1
      <4> QED BY <4>1, <4>2
    <3> HIDE DEF updated
    <3>3. \E k \in updated : w[k + 1] = w[j]
      BY <2>1, <3>1
    <3>4. (CHOOSE k \in updated : w[k + 1] = w[j]) = j - 1
      BY <2>1, <3>1, <3>2
    <3> QED BY <3>3, <3>4
  <2>2. CASE j - 1 \notin updated
    <3>1. ~\E k \in updated : w[k + 1] = w[j]
      <4> SUFFICES ASSUME NEW k \in updated, w[k + 1] = w[j] PROVE FALSE
        OBVIOUS
      <4>1. k + 1 \in 1..Len(w) /\ k \in Nat
        BY <1>7
      <4>2. k + 1 = j
        BY <1>6, <4>1
      <4> HIDE DEF updated
      <4>3. k = j - 1
        BY <4>1, <4>2
      <4> QED BY <2>2, <4>3
    <3>2. h[w[j]].index = j - 1
      <4>1. Left(j) \/ Mid(j) \/ Right(j)
        BY <1>5
      <4>2. j \in Nat /\ Len(a) \in Nat /\ Len(w) \in Nat /\ j <= Len(w) /\ 1 <= j
        BY <1>2, <1>4
      <4>3. ~(first <= j - 1 /\ j - 1 <= end - 1)
        BY <1>0, <2>2, <4>2
      <4>4. CASE Left(j)
        BY <4>4
      <4>5. CASE Mid(j)
        <5>1. i = 0
          <6>1. i < j /\ j <= i + Len(a)
            BY <4>5
          <6>2. CASE i # 0 /\ Len(a) = 1
            BY <1>0, <4>2, <4>3, <6>1, <6>2
          <6>3. CASE i # 0 /\ Len(a) # 1
            BY <1>0, <4>2, <4>3, <6>1, <6>3
          <6> QED BY <6>2, <6>3
        <5> QED BY <4>2, <4>5, <5>1
      <4>6. CASE Right(j)
        <5>1. Len(a) = 1
          BY <1>0, <4>2, <4>3, <4>6
        <5> QED BY <4>2, <4>6, <5>1
      <4> QED BY <4>1, <4>4, <4>5, <4>6
    <3> HIDE DEF updated
    <3> QED BY <3>1, <3>2
  <2> QED BY <2>1, <2>2
<1>9. ASSUME NEW n \in Node, \A j \in DOMAIN w : w[j] # n PROVE index(n) = h[n].index
  <2>1. ~\E k \in updated : w[k + 1] = n
    BY <1>4, <1>7, <1>9
  <2> HIDE DEF updated
  <2> QED BY <2>1
<1>10. ASSUME NEW n \in Node
       PROVE  index(n) \in Nat /\ parent(n) \in Node \union {Null} /\ children(n) \in Seq(Node)
  <2>1. index(n) \in Nat
    <3>0. h[n].index \in Nat
      BY HeapFields
    <3> HIDE DEF index
    <3>1. CASE \E j \in DOMAIN w : w[j] = n
      BY <1>4, <1>8, <3>1
    <3>2. CASE \A j \in DOMAIN w : w[j] # n
      BY <1>9, <3>0, <3>2
    <3> QED BY <3>1, <3>2
  <2>2. parent(n) \in Node \union {Null} /\ children(n) \in Seq(Node)
    BY <1>3, HeapFields, EmptySeq
  <2> HIDE DEF index, parent, children
  <2> QED BY <2>1, <2>2
<1>11. g \in Heap
  <2> HIDE DEF index, parent, children
  <2> QED BY <1>1, <1>10 DEF Heap
<1>12. ASSUME NEW n \in Node
       PROVE  g[n].parent = parent(n) /\ g[n].index = index(n) /\ g[n].children = children(n)
  <2> HIDE DEF index, parent, children
  <2> QED BY <1>1
<1>13. \A j \in 1..Len(w) : parent(w[j]) = p
  <2> SUFFICES ASSUME NEW j \in 1..Len(w) PROVE parent(w[j]) = p
    OBVIOUS
  <2>1. CASE Mid(j)
    <3> DEFINE k == j - i
    <3>1. k \in 1..Len(a) /\ j = i + k
      BY <1>2, <2>1
    <3> HIDE DEF k
    <3>2. w[j] = a[k]
      BY <1>3, <3>1
    <3> QED BY <1>2, <3>1, <3>2 DEF ToSet
  <2>2. CASE Left(j) \/ Right(j)
    BY <2>2
  <2> QED BY <1>5, <2>1, <2>2
<1> HIDE DEF index
<1>14. g[p].children = w /\ g[m].children = <<>>
       /\ \A n \in Node \ {p, m} : g[n].children = h[n].children
  BY <1>12
<1>15. \A j \in DOMAIN w : g[w[j]].parent = p /\ g[w[j]].index = j - 1
  BY <1>4, <1>8, <1>12, <1>13
<1>16. \A n \in Node \ Children(h, m) : g[n].parent = h[n].parent
  BY <1>12 DEF Children, a
<1>17. \A n \in Node : (\A j \in DOMAIN w : w[j] # n) => g[n].index = h[n].index
  BY <1>9, <1>12
<1> QED BY <1>3, <1>11, <1>14, <1>15, <1>16, <1>17 DEF IsMerge, g, q, a

(* Merging a node into its parent leaves a tree without that node.         *)
LEMMA MergeKeepsTrees ==
    ASSUME NEW h \in Heap, NEW X, NEW r, IsTree(h, X, r), NEW n \in X \ {r}
    PROVE  LET g == MergeChild(h, h[n].parent, h[n].index)
           IN  /\ g \in Heap
               /\ SameOutside(g, h, X)
               /\ \A m \in X \ {n} : Children(g, m) \subseteq X \ {n}
               /\ IsTree(Free(g, {n}), X \ {n}, r)
<1> DEFINE p == h[n].parent
           i == h[n].index
           g == MergeChild(h, p, i)
           f == Free(g, {n})
           q == h[p].children
           a == h[n].children
           w == g[p].children
           Z == X \ {n}
<1>1. /\ X \subseteq Node /\ r \in X /\ X = Subtree(h, r) /\ h[r].parent = Null
      /\ p \in X /\ p \in Node /\ n \in Node /\ r \in Node /\ i \in Nat
      /\ i + 1 \in DOMAIN q /\ q[i + 1] = n
  BY HeapFields DEF IsTree
<1>2. p # n
  BY ParentIsOutside, SubtreeIn, <1>1
<1>3. \A m \in X : \A j \in DOMAIN h[m].children :
        /\ h[m].children[j] \in X
        /\ h[h[m].children[j]].parent = m /\ h[h[m].children[j]].index = j - 1
  BY TreeClosed DEF IsTree
<1>4. /\ g \in Heap
      /\ Len(w) = Len(q) + Len(a) - 1
      /\ \A j \in 1..i : w[j] = q[j]
      /\ \A j \in 1..Len(a) : w[i + j] = a[j]
      /\ \A j \in (i + 2)..Len(q) : w[j + Len(a) - 1] = q[j]
      /\ \A j \in DOMAIN w : g[w[j]].parent = p /\ g[w[j]].index = j - 1
      /\ \A m \in Node \ {p, n} : g[m].children = h[m].children
      /\ g[n].children = <<>>
      /\ \A m \in Node \ Children(h, n) : g[m].parent = h[m].parent
      /\ \A m \in Node : (\A j \in DOMAIN w : w[j] # m) => g[m].index = h[m].index
  <2>1. \A m \in {p, n} : \A j \in DOMAIN h[m].children :
             h[h[m].children[j]].parent = m /\ h[h[m].children[j]].index = j - 1
    BY <1>1, <1>3
  <2>2. n # p /\ i + 1 \in DOMAIN h[p].children /\ h[p].children[i + 1] = n
    BY <1>1, <1>2
  <2>3. IsMerge(h, g, p, n, i)
    <3> HIDE DEF p, i, q, a, w
    <3> QED BY <1>1, <2>1, <2>2, MergeChildIs
  <2> HIDE DEF p, i, g
  <2>4. /\ g \in Heap
        /\ Len(w) = Len(q) + Len(a) - 1
        /\ \A j \in 1..i : w[j] = q[j]
        /\ \A j \in 1..Len(a) : w[i + j] = a[j]
        /\ \A j \in (i + 2)..Len(q) : w[j + Len(a) - 1] = q[j]
    BY <2>3 DEF IsMerge
  <2>5. \A j \in DOMAIN w : g[w[j]].parent = p /\ g[w[j]].index = j - 1
    BY <2>3 DEF IsMerge
  <2>6. /\ \A m \in Node \ {p, n} : g[m].children = h[m].children
        /\ g[n].children = <<>>
        /\ \A m \in Node \ Children(h, n) : g[m].parent = h[m].parent
    BY <2>3 DEF IsMerge
  <2>7. \A m \in Node : (\A j \in DOMAIN w : w[j] # m) => g[m].index = h[m].index
    BY <2>3 DEF IsMerge
  <2> HIDE DEF q, a, w
  <2> QED BY <2>4, <2>5, <2>6, <2>7
<1> HIDE DEF g
<1>5. /\ f \in Heap /\ \A m \in Node \ {n} : f[m] = g[m]
  <2>1. g \in Heap
    BY <1>4
  <2> QED BY <2>1, FreeIs
<1> HIDE DEF f
<1>6. /\ DOMAIN q = 1..Len(q) /\ Len(q) \in Nat /\ i + 1 \in 1..Len(q)
      /\ DOMAIN a = 1..Len(a) /\ Len(a) \in Nat
      /\ DOMAIN w = 1..Len(w) /\ Len(w) \in Nat
      /\ \A j \in DOMAIN w : w[j] \in Node
  <2>1. DOMAIN q = 1..Len(q) /\ Len(q) \in Nat
    BY <1>1, HeapFields
  <2>2. DOMAIN a = 1..Len(a) /\ Len(a) \in Nat
    BY <1>1, HeapFields
  <2>3. DOMAIN w = 1..Len(w) /\ Len(w) \in Nat /\ \A j \in DOMAIN w : w[j] \in Node
    BY <1>1, <1>4, HeapFields
  <2> QED BY <1>1, <2>1, <2>2, <2>3
<1> HIDE DEF i, q, a, w
(* What the children of p are now, and where the old ones are.             *)
<1>7. ASSUME NEW j \in DOMAIN q, j # i + 1 PROVE \E k \in DOMAIN w : w[k] = q[j]
  <2>1. CASE j <= i
    <3>1. j \in 1..i /\ j \in DOMAIN w
      BY <1>1, <1>4, <1>6, <2>1
    <3> QED BY <1>4, <3>1
  <2>2. CASE ~(j <= i)
    <3>1. j \in (i + 2)..Len(q) /\ j + Len(a) - 1 \in DOMAIN w
      BY <1>1, <1>4, <1>6, <1>7, <2>2
    <3> QED BY <1>4, <3>1
  <2> QED BY <2>1, <2>2
<1>8. ASSUME NEW j \in DOMAIN a PROVE \E k \in DOMAIN w : w[k] = a[j]
  <2>1. j \in 1..Len(a) /\ i + j \in DOMAIN w
    BY <1>1, <1>4, <1>6
  <2> QED BY <1>4, <2>1
<1>9. ASSUME NEW k \in DOMAIN w
      PROVE  \/ \E j \in DOMAIN q : j # i + 1 /\ w[k] = q[j]
             \/ \E j \in DOMAIN a : w[k] = a[j]
  <2>1. CASE k <= i
    <3>1. k \in 1..i /\ k \in DOMAIN q /\ k # i + 1
      BY <1>1, <1>6, <2>1
    <3> QED BY <1>4, <3>1
  <2>2. CASE i < k /\ k <= i + Len(a)
    <3> DEFINE j == k - i
    <3>1. j \in 1..Len(a) /\ j \in DOMAIN a /\ i + j = k
      BY <1>1, <1>6, <2>2
    <3> HIDE DEF j
    <3> QED BY <1>4, <3>1
  <2>3. CASE i + Len(a) < k
    <3> DEFINE j == k - Len(a) + 1
    <3>1. j \in (i + 2)..Len(q) /\ j \in DOMAIN q /\ j # i + 1 /\ j + Len(a) - 1 = k
      <4>1. k \in Nat /\ i \in Nat /\ k <= Len(q) + Len(a) - 1
        BY <1>1, <1>4, <1>6
      <4>2. Len(q) \in Nat /\ Len(a) \in Nat /\ DOMAIN q = 1..Len(q)
        BY <1>6
      <4> HIDE DEF q, a, w
      <4> QED BY <2>3, <4>1, <4>2
    <3> HIDE DEF j
    <3> QED BY <1>4, <3>1
  <2> QED BY <1>1, <1>6, <2>1, <2>2, <2>3
<1>10. ASSUME NEW k \in DOMAIN w PROVE w[k] \in Z /\ w[k] \in Node
  <2>1. CASE \E j \in DOMAIN q : j # i + 1 /\ w[k] = q[j]
    <3>1. PICK j \in DOMAIN q : j # i + 1 /\ w[k] = q[j]
      BY <2>1
    <3>2. q[j] \in X /\ h[q[j]].index = j - 1
      BY <1>1, <1>3 DEF q
    <3>3. h[n].index = i
      BY DEF i
    <3>4. q[j] # n
      BY <1>1, <1>6, <3>1, <3>2, <3>3
    <3> QED BY <1>1, <3>1, <3>2, <3>4
  <2>2. CASE \E j \in DOMAIN a : w[k] = a[j]
    <3>1. PICK j \in DOMAIN a : w[k] = a[j]
      BY <2>2
    <3>2. a[j] \in X /\ h[a[j]].parent = n
      BY <1>3 DEF a
    <3> QED BY <1>1, <1>2, <3>1, <3>2
  <2> QED BY <1>9, <2>1, <2>2
<1>11. ASSUME NEW m \in Z, NEW j \in DOMAIN g[m].children
       PROVE  /\ g[m].children[j] \in Z /\ g[m].children[j] \in Node
              /\ g[g[m].children[j]].parent = m /\ g[g[m].children[j]].index = j - 1
  <2>1. CASE m = p
    BY <1>4, <1>10, <2>1 DEF w
  <2>2. CASE m # p
    <3> DEFINE c == h[m].children[j]
    <3>1. m \in Node /\ g[m].children = h[m].children
      BY <1>1, <1>4, <2>2
    <3>2. c \in X /\ c \in Node /\ h[c].parent = m /\ h[c].index = j - 1 /\ g[m].children[j] = c
      BY <1>1, <1>3, <3>1
    <3> HIDE DEF c
    <3>3. c # n
      BY <2>2, <3>2
    <3>4. c \notin Children(h, n)
      BY <1>1, <1>3, <3>2, InChildren
    <3>5. \A k \in DOMAIN w : w[k] # c
      <4> SUFFICES ASSUME NEW k \in DOMAIN w, w[k] = c PROVE FALSE
        OBVIOUS
      <4>1. CASE \E l \in DOMAIN q : w[k] = q[l]
        <5>1. h[c].parent = p
          BY <1>1, <1>3, <4>1 DEF q
        <5> QED BY <2>2, <3>2, <5>1
      <4>2. CASE \E l \in DOMAIN a : w[k] = a[l]
        <5>1. h[c].parent = n
          BY <1>3, <4>2 DEF a
        <5> QED BY <3>2, <5>1
      <4> QED BY <1>9, <4>1, <4>2
    <3>6. g[c].parent = m /\ g[c].index = j - 1
      BY <1>4, <3>2, <3>4, <3>5
    <3> QED BY <3>2, <3>3, <3>6
  <2> QED BY <2>1, <2>2
<1>12. \A m \in Z : Children(g, m) \subseteq Z
  BY <1>1, <1>4, <1>11, InChildren
<1>13. \A m \in Z : \A j \in DOMAIN f[m].children :
             /\ f[m].children[j] \in Z
             /\ f[f[m].children[j]].parent = m /\ f[f[m].children[j]].index = j - 1
  BY <1>1, <1>5, <1>11
<1>14. ASSUME NEW m \in Z \ {r}
       PROVE  /\ f[m].parent \in Z /\ f[m].index + 1 \in DOMAIN f[f[m].parent].children
              /\ f[f[m].parent].children[f[m].index + 1] = m
  <2>1. m \in Node /\ f[m] = g[m] /\ f[p] = g[p] /\ p \in Z
    BY <1>1, <1>2, <1>5
  <2>2. CASE \E k \in DOMAIN w : w[k] = m
    <3>1. PICK k \in DOMAIN w : w[k] = m
      BY <2>2
    <3>2. f[m].parent = p /\ f[m].index = k - 1
      BY <1>4, <2>1, <3>1
    <3>3. f[p].children = w
      BY <2>1 DEF w
    <3>4. (k - 1) + 1 = k
      BY <1>6
    <3> QED BY <2>1, <3>1, <3>2, <3>3, <3>4
  <2>3. CASE \A k \in DOMAIN w : w[k] # m
    <3> DEFINE u == h[m].parent
               l == h[m].index
    <3>1. u \in X /\ u \in Node /\ l + 1 \in DOMAIN h[u].children /\ h[u].children[l + 1] = m
          /\ l \in Nat
      BY <1>1, HeapFields DEF IsTree
    <3>2. u # p
      <4> SUFFICES ASSUME u = p PROVE FALSE
        OBVIOUS
      <4>1. l + 1 \in DOMAIN q /\ q[l + 1] = m
        BY <3>1 DEF q
      <4>2. l # i
        BY <1>1, <4>1
      <4>3. l + 1 # i + 1
        BY <1>1, <3>1, <4>2
      <4> QED BY <1>7, <2>3, <4>1, <4>3
    <3>3. u # n
      BY <1>8, <2>3, <3>1 DEF a
    <3>4. m \notin Children(h, n)
      BY <1>1, <1>8, <2>3, InChildren DEF a
    <3>5. g[m].parent = u /\ g[m].index = l
      BY <1>4, <2>1, <2>3, <3>4
    <3>6. f[u].children = h[u].children
      BY <1>4, <1>5, <3>1, <3>2, <3>3
    <3> QED BY <2>1, <3>1, <3>3, <3>5, <3>6
  <2> QED BY <2>2, <2>3
<1>15. f[r].parent = Null
  <2>1. r \notin Children(h, n)
    BY <1>1, <1>3, InChildren, NodeAssumption
  <2> QED BY <1>1, <1>4, <1>5, <2>1
<1>16. Z \subseteq Subtree(f, r)
  <2> DEFINE T == Subtree(f, r)
             W == {m \in Node : m \in T \/ (m = n /\ p \in T)}
  <2>1. r \in T
    BY <1>1, <1>5, SubtreeIn
  <2>6. r \in W
    <3>1. r \in Node
      BY <1>1
    <3> HIDE DEF T
    <3> QED BY <2>1, <3>1
  <2>2. T \subseteq Z
    <3>1. \A m \in Z \intersect Node : Children(f, m) \subseteq Z
      BY <1>1, <1>5, <1>13, InChildren
    <3>2. r \in Z
      BY <1>1
    <3> HIDE DEF Z
    <3> QED BY <1>1, <1>5, <3>1, <3>2, SubtreeLeast
  <2>3. \A k \in DOMAIN w : p \in T => w[k] \in T
    <3> SUFFICES ASSUME NEW k \in DOMAIN w, p \in T PROVE w[k] \in T
      OBVIOUS
    <3>1. w[k] \in Children(f, p)
      BY <1>1, <1>2, <1>5, InChildren DEF w
    <3> QED BY <1>1, <1>5, <3>1, SubtreeClosed
  <2>4. ASSUME NEW m \in W, NEW c \in Children(h, m) PROVE c \in W
    <3>0. c \in Node /\ m \in Node
      BY ChildrenAreNodes
    <3>1. CASE m \in T /\ m # p
      <4>1. m # n /\ f[m].children = h[m].children
        BY <1>4, <1>5, <2>2, <3>0, <3>1
      <4>2. Children(f, m) = Children(h, m)
        BY <4>1 DEF Children
      <4> QED BY <1>1, <1>5, <3>0, <3>1, <4>2, SubtreeClosed
    <3>2. CASE m \in T /\ m = p
      <4>1. PICK j \in DOMAIN q : q[j] = c
        BY <1>1, <2>4, <3>2, InChildren DEF q
      <4>2. CASE j = i + 1
        BY <1>1, <3>0, <3>2, <4>1, <4>2
      <4>3. CASE j # i + 1
        BY <1>7, <2>3, <3>0, <3>2, <4>1, <4>3
      <4> QED BY <4>2, <4>3
    <3>3. CASE m = n /\ p \in T
      <4>1. PICK j \in DOMAIN a : a[j] = c
        BY <1>1, <2>4, <3>3, InChildren DEF a
      <4> QED BY <1>8, <2>3, <3>0, <3>3, <4>1
    <3> QED BY <3>1, <3>2, <3>3
  <2>5. Subtree(h, r) \subseteq W
    <3> HIDE DEF W
    <3> QED BY <1>1, <2>4, <2>6, SubtreeLeast
  <2> QED BY <1>1, <2>5
<1>17. IsTree(f, Z, r)
  <2>1. Z \subseteq Node /\ r \in Z
    BY <1>1
  <2> HIDE DEF Z
  <2> QED BY <1>5, <1>13, <1>14, <1>15, <1>16, <2>1, TreeIs
<1>18. ASSUME NEW m \in Node \ X PROVE g[m] = h[m]
  <2>1. m # p /\ m # n /\ m \notin Children(h, n)
    BY <1>1, <1>3, InChildren
  <2>2. \A k \in DOMAIN w : w[k] # m
    BY <1>10
  <2>3. g[m].index = h[m].index /\ g[m].parent = h[m].parent /\ g[m].children = h[m].children
    BY <1>4, <2>1, <2>2
  <2> QED BY <1>4, <2>3, SameFields
<1> QED BY <1>4, <1>12, <1>17, <1>18 DEF f, g, p, i, SameOutside

-----------------------------------------------------------------------------
(* The lists of the nodes of a tree: recursive definitions over a tree     *)
(* that put together the lists of a node's children, by their equations,   *)
(* and induction over a tree.                                              *)
-----------------------------------------------------------------------------
(* FlattenSeq, prefix by prefix.                                           *)

Flattens(F, V, q, m) ==
    /\ F \in [0..m -> Seq(V)] /\ F[0] = <<>>
    /\ \A k \in 1..m : F[k] = F[k - 1] \o q[k]

IsFlattening(F, V, q) == Flattens(F, V, q, Len(q))

(* A flattening, prefix by prefix, exists ...                              *)
LEMMA FlatteningExists ==
    ASSUME NEW V, NEW q \in Seq(Seq(V))
    PROVE  \E F : IsFlattening(F, V, q)
<1> DEFINE n == Len(q)
           T == {m \in Nat : m <= n => \E F : Flattens(F, V, q, m)}
<1>1. n \in Nat /\ \A k \in 1..n : q[k] \in Seq(V)
  BY LenProperties, ElementOfSeq
<1>2. 0 \in T
  <2>1. Flattens([k \in 0..0 |-> <<>>], V, q, 0)
    BY EmptySeq DEF Flattens
  <2> QED BY <2>1
<1>3. ASSUME NEW m \in Nat, m \in T PROVE m + 1 \in T
  <2>1. SUFFICES ASSUME m + 1 <= n PROVE \E F : Flattens(F, V, q, m + 1)
    OBVIOUS
  <2>2. PICK F : Flattens(F, V, q, m)
    BY <1>1, <1>3, <2>1
  <2> DEFINE G == [k \in 0..(m + 1) |-> IF k = m + 1 THEN F[m] \o q[m + 1] ELSE F[k]]
  <2>3. F[m] \o q[m + 1] \in Seq(V)
    <3>1. F[m] \in Seq(V) /\ q[m + 1] \in Seq(V)
      BY <1>1, <2>1, <2>2 DEF Flattens
    <3> QED BY <3>1, ConcatProperties
  <2>4. G \in [0..(m + 1) -> Seq(V)]
    BY <2>2, <2>3 DEF Flattens
  <2>5. G[0] = <<>>
    BY <2>2 DEF Flattens
  <2>6. ASSUME NEW k \in 1..(m + 1) PROVE G[k] = G[k - 1] \o q[k]
    <3>1. CASE k = m + 1
      <4>1. k - 1 = m /\ m \in 0..(m + 1) /\ m # m + 1 /\ k \in 0..(m + 1)
        BY <3>1
      <4> QED BY <4>1, <3>1
    <3>2. CASE k # m + 1
      <4>1. k \in 1..m /\ k - 1 \in 0..m /\ G[k] = F[k] /\ G[k - 1] = F[k - 1]
        BY <3>2
      <4> QED BY <4>1, <2>2 DEF Flattens
    <3> QED BY <3>1, <3>2
  <2> HIDE DEF G
  <2>7. Flattens(G, V, q, m + 1)
    BY <2>4, <2>5, <2>6 DEF Flattens
  <2> QED BY <2>7
<1> HIDE DEF T
<1>4. n \in T
  BY <1>1, <1>2, <1>3, SetInduction
<1> QED BY <1>1, <1>4 DEF T, IsFlattening

(* ... and FlattenSeq is its last prefix.                                  *)
LEMMA FlattenIs ==
    ASSUME NEW V, NEW q \in Seq(Seq(V))
    PROVE  \E F : IsFlattening(F, V, q) /\ FlattenSeq(q) = F[Len(q)]
<1>1. PICK F : IsFlattening(F, V, q)
  BY FlatteningExists
<1>2. Len(q) \in Nat
  BY LenProperties
<1>3. CASE Len(q) = 0
  <2>1. q = <<>>
    BY <1>3, EmptySeq
  <2>2. FlattenSeq(q) = <<>> /\ F[Len(q)] = <<>>
    <3>1. FlattenSeq(q) = q
      BY <1>3 DEF FlattenSeq
    <3>2. F[0] = <<>>
      BY <1>1 DEF IsFlattening, Flattens
    <3> QED BY <1>3, <2>1, <3>1, <3>2
  <2> QED BY <1>1, <2>2
<1>4. CASE Len(q) # 0
  <2> DEFINE n == Len(q)
             Body(f) == [i \in 1..n |-> IF i = 1 THEN q[i] ELSE f[i - 1] \o q[i]]
             f == CHOOSE f : f = Body(f)
             G == [i \in 1..n |-> F[i]]
  <2>1. G = Body(G)
    <3>1. ASSUME NEW i \in 1..n PROVE F[i] = IF i = 1 THEN q[i] ELSE G[i - 1] \o q[i]
      <4>1. CASE i = 1
        <5>1. F[1] = F[0] \o q[1] /\ F[0] = <<>> /\ q[1] \in Seq(V)
          <6>1. 1 \in 1..n
            BY <1>2, <1>4
          <6>2. q[1] \in Seq(V)
            BY <6>1, ElementOfSeq
          <6>3. F[1] = F[1 - 1] \o q[1] /\ F[0] = <<>> /\ 1 - 1 = 0
            <7>1. F[0] = <<>>
              BY <1>1 DEF IsFlattening, Flattens
            <7>2. F[1] = F[1 - 1] \o q[1]
              <8> HIDE DEF G, f, Body
              <8> QED BY <6>1, <1>1 DEF IsFlattening, Flattens
            <7> QED BY <7>1, <7>2
          <6> QED BY <6>2, <6>3
        <5> QED BY <4>1, <5>1, ConcatEmptySeq
      <4>2. CASE i # 1
        <5>1. i - 1 \in 1..n
          BY <1>2, <4>2
        <5> QED BY <5>1, <4>2, <1>1 DEF IsFlattening, Flattens
      <4> QED BY <4>1, <4>2
    <3> QED BY <3>1
  <2>2. f = Body(f)
    <3> HIDE DEF Body, G
    <3> QED BY <2>1
  <2> DEFINE T == {i \in Nat : i + 1 <= n => f[i + 1] = F[i + 1]}
  <2>3. \A i \in 1..n : f[i] = IF i = 1 THEN q[i] ELSE f[i - 1] \o q[i]
    <3> HIDE DEF f
    <3> QED BY <2>2
  <2>4. \A i \in 1..n : G[i] = IF i = 1 THEN q[i] ELSE G[i - 1] \o q[i]
    <3> HIDE DEF G
    <3> QED BY <2>1
  <2>5. 0 \in T
    <3>1. 1 \in 1..n /\ 0 + 1 = 1
      BY <1>2, <1>4
    <3>2. f[1] = q[1] /\ G[1] = q[1]
      <4> HIDE DEF f, G
      <4> QED BY <3>1, <2>3, <2>4
    <3>3. G[1] = F[1]
      BY <3>1
    <3> HIDE DEF f, G
    <3> QED BY <3>1, <3>2, <3>3
  <2>6. ASSUME NEW i \in Nat, i \in T PROVE i + 1 \in T
    <3>1. SUFFICES ASSUME (i + 1) + 1 <= n PROVE f[(i + 1) + 1] = F[(i + 1) + 1]
      OBVIOUS
    <3>2. (i + 1) + 1 \in 1..n /\ i + 1 \in 1..n /\ (i + 1) + 1 # 1
      BY <1>2, <3>1
    <3>3. ((i + 1) + 1) - 1 = i + 1
      OBVIOUS
    <3>4. f[(i + 1) + 1] = f[i + 1] \o q[(i + 1) + 1] /\ G[(i + 1) + 1] = G[i + 1] \o q[(i + 1) + 1]
      <4> HIDE DEF f, G
      <4> QED BY <2>3, <2>4, <3>2, <3>3
    <3>5. f[i + 1] = F[i + 1]
      BY <2>6, <1>2, <3>1
    <3> QED BY <3>2, <3>4, <3>5
  <2>7. n - 1 \in T
    <3> HIDE DEF T
    <3>1. n - 1 \in Nat
      BY <1>2, <1>4
    <3> QED BY <3>1, <2>5, <2>6, SetInduction
  <2>8. f[n] = F[n]
    BY <2>7, <1>2, <1>4
  <2>9. FlattenSeq(q) = f[n]
    BY <1>4 DEF FlattenSeq
  <2> QED BY <1>1, <2>8, <2>9
<1> QED BY <1>3, <1>4

(* The lists f gives the members of q, one after the other.                *)
Mapped(f, q) == [i \in DOMAIN q |-> f[q[i]]]
Flat(f, q) == FlattenSeq(Mapped(f, q))

IsFlat(F, V, f, q) ==
    /\ F \in [0..Len(q) -> Seq(V)] /\ F[0] = <<>>
    /\ \A k \in 1..Len(q) : F[k] = F[k - 1] \o f[q[k]]

(* The lists f gives, as a sequence of lists.                              *)
LEMMA MappedIs ==
    ASSUME NEW V, NEW f \in [Node -> V], NEW q \in Seq(Node)
    PROVE  /\ Mapped(f, q) \in Seq(V)
           /\ Len(Mapped(f, q)) = Len(q)
           /\ \A i \in 1..Len(q) : Mapped(f, q)[i] = f[q[i]]
<1>1. DOMAIN q = 1..Len(q) /\ Len(q) \in Nat /\ \A i \in 1..Len(q) : q[i] \in Node
  BY LenProperties, ElementOfSeq
<1>2. Mapped(f, q) = [i \in 1..Len(q) |-> f[q[i]]]
  BY <1>1 DEF Mapped
<1>3. Mapped(f, q) \in [1..Len(q) -> V]
  BY <1>1, <1>2
<1>4. Mapped(f, q) \in Seq(V)
  BY <1>1, <1>3
<1> QED BY <1>1, <1>2, <1>4

(* Flat(f, q) prefix by prefix.                                            *)
LEMMA FlatIs ==
    ASSUME NEW V, NEW f \in [Node -> Seq(V)], NEW q \in Seq(Node)
    PROVE  \E F : IsFlat(F, V, f, q) /\ F[Len(q)] = Flat(f, q)
<1>1. /\ Mapped(f, q) \in Seq(Seq(V)) /\ Len(Mapped(f, q)) = Len(q)
      /\ \A i \in 1..Len(q) : Mapped(f, q)[i] = f[q[i]]
  BY MappedIs
<1>2. PICK F : IsFlattening(F, V, Mapped(f, q)) /\ FlattenSeq(Mapped(f, q)) = F[Len(Mapped(f, q))]
  BY <1>1, FlattenIs
<1>3. IsFlat(F, V, f, q)
  BY <1>1, <1>2 DEF IsFlattening, Flattens, IsFlat
<1> QED BY <1>1, <1>2, <1>3 DEF Flat

LEMMA FlatUnique ==
    ASSUME NEW V, NEW f \in [Node -> Seq(V)], NEW q \in Seq(Node),
           NEW F, IsFlat(F, V, f, q)
    PROVE  F[Len(q)] = Flat(f, q)
<1>1. PICK G : IsFlat(G, V, f, q) /\ G[Len(q)] = Flat(f, q)
  BY FlatIs
<1>2. Len(q) \in Nat
  BY LenProperties
<1> DEFINE T == {k \in Nat : k <= Len(q) => F[k] = G[k]}
<1>3. 0 \in T
  BY <1>1 DEF IsFlat
<1>4. ASSUME NEW k \in Nat, k \in T PROVE k + 1 \in T
  <2>1. SUFFICES ASSUME k + 1 <= Len(q) PROVE F[k + 1] = G[k + 1]
    OBVIOUS
  <2>2. k + 1 \in 1..Len(q) /\ (k + 1) - 1 = k /\ F[k] = G[k]
    BY <1>2, <1>4, <2>1
  <2> QED BY <2>2, <1>1 DEF IsFlat
<1>5. Len(q) \in T
  <2> HIDE DEF T
  <2> QED BY <1>2, <1>3, <1>4, SetInduction
<1> QED BY <1>1, <1>2, <1>5

LEMMA FlatType ==
    ASSUME NEW V, NEW f \in [Node -> Seq(V)], NEW q \in Seq(Node)
    PROVE  Flat(f, q) \in Seq(V)
<1>1. Len(q) \in Nat
  BY LenProperties
<1>2. PICK F : IsFlat(F, V, f, q) /\ F[Len(q)] = Flat(f, q)
  BY FlatIs
<1> QED BY <1>1, <1>2 DEF IsFlat

LEMMA FlatEmpty ==
    ASSUME NEW V, NEW f \in [Node -> Seq(V)]
    PROVE  Flat(f, <<>>) = <<>>
<1>1. <<>> \in Seq(Node) /\ Len(<<>>) = 0
  BY EmptySeq
<1>2. PICK F : IsFlat(F, V, f, <<>>) /\ F[Len(<<>>)] = Flat(f, <<>>)
  BY <1>1, FlatIs
<1> QED BY <1>1, <1>2 DEF IsFlat

(* Flat(f, q) depends on the members of q only.                            *)
LEMMA FlatFrame ==
    ASSUME NEW f, NEW g, NEW q, \A i \in DOMAIN q : f[q[i]] = g[q[i]]
    PROVE  Flat(f, q) = Flat(g, q)
<1>1. Mapped(f, q) = Mapped(g, q)
  BY DEF Mapped
<1> QED BY <1>1 DEF Flat

(* Concatenation.                                                          *)
LEMMA Associative ==
    ASSUME NEW V
    PROVE  \A a, b, c \in Seq(V) : (a \o b) \o c = a \o (b \o c)
BY ConcatAssociative

LEMMA ConcatIs ==
    ASSUME NEW V
    PROVE  \A a, b \in Seq(V) :
             /\ a \o b \in Seq(V) /\ Len(a \o b) = Len(a) + Len(b)
             /\ Len(a) \in Nat /\ Len(b) \in Nat
             /\ \A i \in 1..(Len(a) + Len(b)) :
                  (a \o b)[i] = IF i <= Len(a) THEN a[i] ELSE b[i - Len(a)]
BY ConcatProperties, LenProperties

LEMMA FlatOne ==
    ASSUME NEW V, NEW f \in [Node -> Seq(V)], NEW x \in Node
    PROVE  Flat(f, <<x>>) = f[x]
<1>1. <<x>> \in Seq(Node) /\ Len(<<x>>) = 1 /\ <<x>>[1] = x
  OBVIOUS
<1>2. PICK F : IsFlat(F, V, f, <<x>>) /\ F[Len(<<x>>)] = Flat(f, <<x>>)
  BY <1>1, FlatIs
<1>3. F[0] = <<>> /\ F[1] = F[1 - 1] \o f[x] /\ 1 - 1 = 0
  <2>1. \A k \in 1..1 : F[k] = F[k - 1] \o f[<<x>>[k]]
    BY <1>1, <1>2 DEF IsFlat
  <2>2. F[0] = <<>>
    BY <1>2 DEF IsFlat
  <2>3. F[1] = F[1 - 1] \o f[<<x>>[1]]
    BY <2>1
  <2> QED BY <2>2, <2>3, <1>1
<1>4. f[x] \in Seq(V)
  OBVIOUS
<1> QED BY <1>1, <1>2, <1>3, <1>4, ConcatEmptySeq

(* The lists of a \o b are those of a, then those of b.                    *)
LEMMA FlatConcat ==
    ASSUME NEW V, NEW f \in [Node -> Seq(V)], NEW a \in Seq(Node), NEW b \in Seq(Node)
    PROVE  Flat(f, a \o b) = Flat(f, a) \o Flat(f, b)
<1> DEFINE q == a \o b
           m == Len(a)
           n == Len(b)
<1>0. \A u, v, w \in Seq(V) : (u \o v) \o w = u \o (v \o w)
  BY Associative
<1>1. PICK F : IsFlat(F, V, f, a) /\ F[m] = Flat(f, a)
  BY FlatIs
<1>2. PICK G : IsFlat(G, V, f, b) /\ G[n] = Flat(f, b)
  BY FlatIs
<1>3. m \in Nat /\ n \in Nat
  BY LenProperties
<1>4. /\ q \in Seq(Node) /\ Len(q) = m + n
      /\ \A k \in 1..(m + n) : q[k] = IF k <= m THEN a[k] ELSE b[k - m]
  BY ConcatProperties
<1>5. /\ F \in [0..m -> Seq(V)] /\ F[0] = <<>>
      /\ \A k \in 1..m : F[k] = F[k - 1] \o f[a[k]]
  BY <1>1 DEF IsFlat
<1>6. /\ G \in [0..n -> Seq(V)] /\ G[0] = <<>>
      /\ \A k \in 1..n : G[k] = G[k - 1] \o f[b[k]]
  BY <1>2 DEF IsFlat
<1>7. F[m] \in Seq(V) /\ \A k \in 0..n : G[k] \in Seq(V)
  <2>1. m \in 0..m
    BY <1>3
  <2> HIDE DEF m, n
  <2> QED BY <2>1, <1>5, <1>6
<1>8. \A k \in 1..n : b[k] \in Node /\ f[b[k]] \in Seq(V)
  BY ElementOfSeq
<1> DEFINE H == [k \in 0..(m + n) |-> IF k <= m THEN F[k] ELSE F[m] \o G[k - m]]
<1>9. H \in [0..(m + n) -> Seq(V)]
  <2>1. ASSUME NEW k \in 0..(m + n) PROVE H[k] \in Seq(V)
    <3>1. CASE k <= m
      <4>1. k \in 0..m
        BY <1>3, <3>1
      <4> QED BY <4>1, <3>1, <1>5
    <3>2. CASE ~(k <= m)
      <4>1. k - m \in 0..n
        BY <1>3, <3>2
      <4>2. F[m] \o G[k - m] \in Seq(V)
        BY <4>1, <1>7, ConcatProperties
      <4> QED BY <4>2, <3>2
    <3> QED BY <3>1, <3>2
  <2> QED BY <2>1
<1>10. H[0] = <<>>
  <2>1. 0 \in 0..(m + n) /\ 0 <= m
    BY <1>3
  <2> QED BY <2>1, <1>5
<1>11. ASSUME NEW k \in 1..(m + n) PROVE H[k] = H[k - 1] \o f[q[k]]
  <2>0. k \in 0..(m + n) /\ k - 1 \in 0..(m + n) /\ k \in Nat
    BY <1>3
  <2>1. CASE k <= m
    <3>1. k \in 1..m /\ k - 1 <= m
      BY <1>3, <2>1
    <3>2. q[k] = a[k]
      BY <1>4, <2>1
    <3> QED BY <2>0, <2>1, <3>1, <3>2, <1>5
  <2>2. CASE k = m + 1
    <3>1. k - 1 = m /\ ~(k <= m) /\ k - m = 1 /\ 1 \in 1..n /\ k - 1 <= m /\ 1 - 1 = 0
      BY <1>3, <2>2
    <3>2. q[k] = b[1]
      BY <1>4, <3>1
    <3>3. H[k] = F[m] \o G[1] /\ H[k - 1] = F[m]
      BY <2>0, <3>1
    <3>4. G[1] = G[0] \o f[b[1]]
      BY <3>1, <1>6
    <3>5. G[1] = f[b[1]]
      BY <3>1, <3>4, <1>6, <1>8, ConcatEmptySeq
    <3> QED BY <3>2, <3>3, <3>5
  <2>3. CASE ~(k <= m) /\ k # m + 1
    <3>1. /\ ~(k <= m) /\ k - m \in 1..n /\ ~(k - 1 <= m)
          /\ (k - 1) - m = (k - m) - 1 /\ (k - m) - 1 \in 0..n
      BY <1>3, <2>3, <2>0
    <3>2. q[k] = b[k - m]
      BY <1>4, <3>1
    <3>3. H[k] = F[m] \o G[k - m] /\ H[k - 1] = F[m] \o G[(k - m) - 1]
      BY <2>0, <3>1
    <3>4. G[k - m] = G[(k - m) - 1] \o f[b[k - m]]
      BY <3>1, <1>6
    <3>5. (F[m] \o G[(k - m) - 1]) \o f[b[k - m]] = F[m] \o (G[(k - m) - 1] \o f[b[k - m]])
      <4>1. F[m] \in Seq(V) /\ G[(k - m) - 1] \in Seq(V) /\ f[b[k - m]] \in Seq(V)
        BY <3>1, <1>7, <1>8
      <4>2. PICK u, v, w : u = F[m] /\ v = G[(k - m) - 1] /\ w = f[b[k - m]]
        OBVIOUS
      <4>3. u \in Seq(V) /\ v \in Seq(V) /\ w \in Seq(V)
        BY <4>1, <4>2
      <4>4. (u \o v) \o w = u \o (v \o w)
        BY <4>3, <1>0
      <4> QED BY <4>2, <4>4
    <3> HIDE DEF H
    <3> QED BY <3>2, <3>3, <3>4, <3>5
  <2> QED BY <2>1, <2>2, <2>3
<1>12. H[m + n] = F[m] \o G[n]
  <2>1. CASE n = 0
    <3>1. m + n \in 0..(m + n) /\ m + n <= m /\ m + n = m
      BY <1>3, <2>1
    <3>2. H[m + n] = F[m]
      BY <3>1
    <3> QED BY <3>2, <2>1, <1>6, <1>7, ConcatEmptySeq
  <2>2. CASE n # 0
    <3>1. m + n \in 0..(m + n) /\ ~(m + n <= m) /\ (m + n) - m = n
      BY <1>3, <2>2
    <3> QED BY <3>1
  <2> QED BY <2>1, <2>2
<1> HIDE DEF H
<1>13. IsFlat(H, V, f, q)
  BY <1>4, <1>9, <1>10, <1>11 DEF IsFlat
<1>14. H[Len(q)] = Flat(f, q)
  BY <1>4, <1>13, FlatUnique
<1> QED BY <1>1, <1>2, <1>4, <1>12, <1>14

(* The lists of the members of q before, at and after a place.             *)
LEMMA FlatSplit ==
    ASSUME NEW V, NEW f \in [Node -> Seq(V)], NEW q \in Seq(Node), NEW i \in 1..Len(q)
    PROVE  LET a == SubSeq(q, 1, i - 1)
               b == SubSeq(q, i + 1, Len(q))
           IN  /\ a \in Seq(Node) /\ b \in Seq(Node) /\ q[i] \in Node
               /\ q = (a \o <<q[i]>>) \o b
               /\ Len(a) = i - 1 /\ \A j \in 1..(i - 1) : a[j] = q[j]
               /\ Len(b) = Len(q) - i /\ \A j \in 1..(Len(q) - i) : b[j] = q[i + j]
               /\ Flat(f, q) = (Flat(f, a) \o f[q[i]]) \o Flat(f, b)
<1> DEFINE a == SubSeq(q, 1, i - 1)
           b == SubSeq(q, i + 1, Len(q))
           one == <<q[i]>>
           ab == a \o one
<1>1. Len(q) \in Nat /\ \A j \in 1..Len(q) : q[j] \in Node
  BY LenProperties, ElementOfSeq
<1>2. /\ a \in Seq(Node) /\ Len(a) = i - 1
      /\ \A j \in 1..(i - 1) : a[j] = q[j]
  BY <1>1
<1>3. /\ b \in Seq(Node) /\ Len(b) = Len(q) - i
      /\ \A j \in 1..(Len(q) - i) : b[j] = q[i + j]
  BY <1>1
<1>4. one \in Seq(Node) /\ Len(one) = 1 /\ one[1] = q[i]
  BY <1>1
<1> HIDE DEF a, b, one
<1>5. /\ ab \in Seq(Node) /\ Len(ab) = i
      /\ \A j \in 1..i : ab[j] = IF j <= i - 1 THEN a[j] ELSE one[j - (i - 1)]
  <2>1. /\ a \o one \in Seq(Node) /\ Len(a \o one) = Len(a) + Len(one)
        /\ \A j \in 1..(Len(a) + Len(one)) :
              (a \o one)[j] = IF j <= Len(a) THEN a[j] ELSE one[j - Len(a)]
    BY <1>2, <1>4, ConcatProperties
  <2>2. Len(a) + Len(one) = i /\ Len(a) = i - 1
    BY <1>1, <1>2, <1>4
  <2> HIDE DEF ab
  <2> QED BY <2>1, <2>2 DEF ab
<1> HIDE DEF ab
<1>6. q = ab \o b
  <2>1. /\ ab \o b \in Seq(Node) /\ Len(ab \o b) = i + Len(b)
        /\ \A j \in 1..(i + Len(b)) : (ab \o b)[j] = IF j <= i THEN ab[j] ELSE b[j - i]
    BY <1>3, <1>5, ConcatProperties
  <2>2. Len(ab \o b) = Len(q)
    BY <2>1, <1>1, <1>3
  <2>3. ASSUME NEW j \in 1..Len(q) PROVE (ab \o b)[j] = q[j]
    <3>1. (ab \o b)[j] = IF j <= i THEN ab[j] ELSE b[j - i]
      BY <2>1, <2>2
    <3>2. CASE j <= i - 1
      <4>1. j <= i /\ j \in 1..i /\ j \in 1..(i - 1)
        BY <3>2, <1>1
      <4>2. (ab \o b)[j] = ab[j] /\ ab[j] = a[j] /\ a[j] = q[j]
        BY <4>1, <3>1, <3>2, <1>2, <1>5
      <4> QED BY <4>2
    <3>3. CASE j = i
      <4>1. ab[i] = one[i - (i - 1)] /\ i - (i - 1) = 1
        BY <1>1, <1>5
      <4> QED BY <4>1, <3>1, <3>3, <1>1, <1>4
    <3>4. CASE j > i
      <4>1. j - i \in 1..(Len(q) - i) /\ i + (j - i) = j /\ ~(j <= i)
        BY <3>4, <1>1
      <4>2. b[j - i] = q[j]
        BY <4>1, <1>3
      <4> QED BY <4>1, <4>2, <3>1
    <3>5. j <= i - 1 \/ j = i \/ j > i
      BY <1>1
    <3> QED BY <3>2, <3>3, <3>4, <3>5
  <2> QED BY <2>1, <2>2, <2>3, SeqEqual
<1>7. Flat(f, q) = Flat(f, ab) \o Flat(f, b)
  BY <1>3, <1>5, <1>6, FlatConcat
<1>8. Flat(f, ab) = Flat(f, a) \o Flat(f, one)
  BY <1>2, <1>4, FlatConcat DEF ab
<1>9. Flat(f, one) = f[q[i]]
  BY <1>1, FlatOne DEF one
<1>10. q[i] \in Node
  BY <1>1
<1>11. Flat(f, q) = (Flat(f, a) \o f[q[i]]) \o Flat(f, b)
  BY <1>7, <1>8, <1>9
<1>12. q = (a \o <<q[i]>>) \o b
  BY <1>6 DEF ab, one
<1> QED BY <1>2, <1>3, <1>10, <1>11, <1>12 DEF a, b

-----------------------------------------------------------------------------
(* Lists made from the lists of the children, down to a depth of NodeCount.*)

Wraps(V) == [Node \X (0..NodeCount) -> [Seq(V) -> Seq(V)]]

AreLists(R, h, V, W) ==
    /\ R \in [0..NodeCount -> [Node -> Seq(V)]]
    /\ R[NodeCount] = [m \in Node |-> <<>>]
    /\ \A d \in 0..(NodeCount - 1) :
         R[d] = [m \in Node |-> W[<<m, d>>][Flat(R[d + 1], h[m].children)]]

(* There are such lists, for every way of wrapping ...                     *)
LEMMA ListsExist ==
    ASSUME NEW h \in Heap, NEW V, NEW W \in Wraps(V)
    PROVE  \E R : AreLists(R, h, V, W)
<1> DEFINE N == NodeCount
           L == [Node -> Seq(V)]
           Row(f, d) == [m \in Node |-> W[<<m, d>>][Flat(f, h[m].children)]]
           S == L \X (0..N)
           Next(s) == IF s[2] = 0 THEN s ELSE <<Row(s[1], s[2] - 1), s[2] - 1>>
           step == [s \in S |-> Next(s)]
           x == <<[m \in Node |-> <<>>], N>>
<1>1. N \in Nat
  BY NodeCountType
<1>2. \A m \in Node : h[m].children \in Seq(Node)
  BY HeapFields
<1>3. ASSUME NEW f \in L, NEW d \in 0..N PROVE Row(f, d) \in L
  <2>1. ASSUME NEW m \in Node PROVE W[<<m, d>>][Flat(f, h[m].children)] \in Seq(V)
    <3>1. Flat(f, h[m].children) \in Seq(V)
      BY <1>2, FlatType
    <3>2. W[<<m, d>>] \in [Seq(V) -> Seq(V)]
      BY DEF Wraps
    <3> QED BY <3>1, <3>2
  <2> QED BY <2>1
<1>4. step \in [S -> S]
  <2>1. ASSUME NEW s \in S PROVE Next(s) \in S
    <3>1. CASE s[2] = 0
      BY <3>1
    <3>2. CASE s[2] # 0
      <4>1. s[2] - 1 \in 0..N /\ s[1] \in L
        BY <1>1, <3>2
      <4>2. Row(s[1], s[2] - 1) \in L
        <5> HIDE DEF Row, L
        <5> QED BY <4>1, <1>3
      <4> QED BY <4>1, <4>2, <3>2
    <3> QED BY <3>1, <3>2
  <2> HIDE DEF Next, S
  <2> QED BY <2>1
<1>5. x \in S
  <2>1. \A m \in Node : <<>> \in Seq(V)
    BY EmptySeq
  <2>2. [m \in Node |-> <<>>] \in L
    BY <2>1
  <2>3. N \in 0..N
    BY <1>1
  <2> HIDE DEF L
  <2> QED BY <2>2, <2>3
<1> HIDE DEF step, x, S
<1>6. PICK it : IsIteration(it, S, step, x, N)
  BY <1>1, <1>4, <1>5, IterationExists
<1>7. it \in [0..N -> S] /\ it[0] = x /\ \A k \in 1..N : it[k] = step[it[k - 1]]
  BY <1>6 DEF IsIteration
<1> DEFINE T == {k \in Nat : k <= N => it[k][2] = N - k}
<1>8. 0 \in T
  BY <1>7, <1>1 DEF x
<1>9. ASSUME NEW k \in Nat, k + 1 <= N, it[k][2] = N - k
      PROVE  it[k + 1] = <<Row(it[k][1], N - (k + 1)), N - (k + 1)>>
  <2>1. k + 1 \in 1..N /\ (k + 1) - 1 = k /\ k \in 0..N /\ N - k # 0 /\ (N - k) - 1 = N - (k + 1)
    BY <1>1, <1>9
  <2>2. it[k + 1] = step[it[k]] /\ it[k] \in S
    BY <2>1, <1>7
  <2>3. it[k + 1] = Next(it[k])
    <3> HIDE DEF Next
    <3> QED BY <2>2 DEF step
  <2> QED BY <2>1, <2>3, <1>9
<1>10. ASSUME NEW k \in Nat, k \in T PROVE k + 1 \in T
  <2>1. SUFFICES ASSUME k + 1 <= N PROVE it[k + 1][2] = N - (k + 1)
    OBVIOUS
  <2>2. it[k][2] = N - k
    BY <1>1, <1>10, <2>1
  <2> HIDE DEF Row
  <2> QED BY <1>9, <2>1, <2>2
<1>11. \A k \in 0..N : it[k][2] = N - k
  <2>1. Nat \subseteq T
    <3> HIDE DEF T
    <3> QED BY <1>8, <1>10, SetInduction
  <2> QED BY <2>1, <1>1
<1> DEFINE R == [d \in 0..N |-> it[N - d][1]]
<1>12. R \in [0..N -> L]
  <2>1. ASSUME NEW d \in 0..N PROVE it[N - d][1] \in L
    <3>1. N - d \in 0..N
      BY <1>1
    <3>2. it[N - d] \in S
      BY <3>1, <1>7
    <3> HIDE DEF L
    <3> QED BY <3>2 DEF S
  <2> HIDE DEF L
  <2> QED BY <2>1
<1>13. R[N] = [m \in Node |-> <<>>]
  <2>1. N \in 0..N /\ N - N = 0
    BY <1>1
  <2> QED BY <2>1, <1>7 DEF x
<1>14. ASSUME NEW d \in 0..(N - 1) PROVE R[d] = Row(R[d + 1], d)
  <2>1. /\ d \in 0..N /\ d + 1 \in 0..N /\ N - (d + 1) \in Nat /\ (N - (d + 1)) + 1 = N - d
        /\ N - d <= N /\ N - (d + 1) \in 0..N /\ N - (N - d) = d
    BY <1>1
  <2>2. it[N - (d + 1)][2] = N - (N - (d + 1))
    BY <2>1, <1>11
  <2>3. it[N - d] = <<Row(it[N - (d + 1)][1], N - (N - d)), N - (N - d)>>
    <3> HIDE DEF Row
    <3> QED BY <2>1, <2>2, <1>9
  <2> HIDE DEF Row
  <2> QED BY <2>1, <2>3
<1> HIDE DEF R
<1>15. AreLists(R, h, V, W)
  BY <1>12, <1>13, <1>14 DEF AreLists
<1> QED BY <1>15

Follows(Q, R, h, W) ==
    /\ \A m \in Node : Q[<<m, NodeCount>>] = <<>>
    /\ \A m \in Node, d \in 0..(NodeCount - 1) :
         (\A n \in Node : Q[<<n, d + 1>>] = R[d + 1][n])
           => Q[<<m, d>>] = W[<<m, d>>][Flat(R[d + 1], h[m].children)]

Matches(Q, R) == \A m \in Node, d \in 0..NodeCount : Q[<<m, d>>] = R[d][m]

(* ... and one family of them: whatever obeys the same equations is equal. *)
LEMMA ListsUnique ==
    ASSUME NEW h \in Heap, NEW V, NEW W \in Wraps(V), NEW R, AreLists(R, h, V, W), NEW Q,
           Follows(Q, R, h, W)
    PROVE  Matches(Q, R)
<1> DEFINE N == NodeCount
           T == {k \in Nat : k <= N => \A m \in Node : Q[<<m, N - k>>] = R[N - k][m]}
<1>1. N \in Nat
  BY NodeCountType
<1>2. 0 \in T
  <2>1. N - 0 = N
    BY <1>1
  <2>2. \A m \in Node : R[N][m] = <<>>
    BY DEF AreLists
  <2> QED BY <2>1, <2>2 DEF Follows
<1>3. ASSUME NEW k \in Nat, k \in T PROVE k + 1 \in T
  <2>1. SUFFICES ASSUME k + 1 <= N, NEW m \in Node PROVE Q[<<m, N - (k + 1)>>] = R[N - (k + 1)][m]
    OBVIOUS
  <2> DEFINE d == N - (k + 1)
  <2>2. d \in 0..(N - 1) /\ d + 1 = N - k
    BY <1>1, <2>1
  <2>3. \A n \in Node : Q[<<n, d + 1>>] = R[d + 1][n]
    BY <1>1, <1>3, <2>1, <2>2
  <2> HIDE DEF d
  <2>4. Q[<<m, d>>] = W[<<m, d>>][Flat(R[d + 1], h[m].children)]
    BY <2>2, <2>3 DEF Follows
  <2>5. R[d] = [n \in Node |-> W[<<n, d>>][Flat(R[d + 1], h[n].children)]]
    BY <2>2 DEF AreLists
  <2>6. R[d][m] = W[<<m, d>>][Flat(R[d + 1], h[m].children)]
    BY <2>5
  <2> QED BY <2>4, <2>6 DEF d
<1>4. Nat \subseteq T
  <2> HIDE DEF T
  <2> QED BY <1>2, <1>3, SetInduction
<1>5. ASSUME NEW m \in Node, NEW d \in 0..N PROVE Q[<<m, d>>] = R[d][m]
  <2>1. N - d \in Nat /\ N - d <= N /\ N - (N - d) = d
    BY <1>1
  <2>2. N - d \in T
    BY <2>1, <1>4
  <2> QED BY <2>1, <2>2
<1> QED BY <1>5 DEF Matches

(* A set of naturals has a least element.                                  *)
LEMMA Least ==
    ASSUME NEW S, S \subseteq Nat, S # {}
    PROVE  \E k \in S : \A j \in S : k <= j
<1> DEFINE T == {n \in Nat : \A k \in S : n <= k}
<1>1. SUFFICES ASSUME \A k \in S : \E j \in S : ~(k <= j) PROVE FALSE
  OBVIOUS
<1>2. 0 \in T
  OBVIOUS
<1>3. ASSUME NEW n \in Nat, n \in T PROVE n + 1 \in T
  <2>1. SUFFICES ASSUME NEW k \in S, ~(n + 1 <= k) PROVE FALSE
    OBVIOUS
  <2>2. k \in Nat /\ n <= k
    BY <1>3
  <2>3. k = n
    BY <2>1, <2>2
  <2>4. PICK j \in S : ~(k <= j)
    BY <1>1
  <2>5. n <= j
    BY <1>3
  <2> QED BY <2>3, <2>4, <2>5
<1>4. Nat \subseteq T
  <2> HIDE DEF T
  <2> QED BY <1>2, <1>3, SetInduction
<1>5. PICK k \in S : TRUE
  OBVIOUS
<1>6. k \in Nat /\ k + 1 \in Nat
  BY <1>5
<1>7. k + 1 \in T
  <2> HIDE DEF T
  <2> QED BY <1>4, <1>6
<1>8. k + 1 <= k
  BY <1>5, <1>7
<1> QED BY <1>6, <1>8

-----------------------------------------------------------------------------
(* Subtrees get smaller on the way down, so that what holds of a node when *)
(* it holds of its children holds of a tree.                               *)

TreeSize(h, m) == Cardinality(Subtree(h, m))

(* A child's subtree is smaller.                                           *)
LEMMA SizeIs ==
    ASSUME NEW h \in Heap, NEW X, NEW r, IsTree(h, X, r), NEW m \in X
    PROVE  /\ TreeSize(h, m) \in Nat \ {0} /\ TreeSize(h, m) <= NodeCount
           /\ \A c \in Children(h, m) : c \in X /\ TreeSize(h, c) + 1 <= TreeSize(h, m)
<1>1. X \subseteq Node /\ m \in Node
  BY DEF IsTree
<1>2. IsFiniteSet(Node)
  BY NodeAssumption
<1>3. m \in Subtree(h, m) /\ Subtree(h, m) \subseteq Node
  BY <1>1, SubtreeIn
<1>4. IsFiniteSet(Subtree(h, m)) /\ TreeSize(h, m) <= NodeCount
  BY <1>2, <1>3, FS_Subset DEF TreeSize, NodeCount
<1>5. TreeSize(h, m) \in Nat \ {0}
  BY <1>3, <1>4, FS_CardinalityType, FS_EmptySet DEF TreeSize
<1>6. ASSUME NEW c \in Children(h, m) PROVE c \in X /\ TreeSize(h, c) + 1 <= TreeSize(h, m)
  <2>1. c \in X
    BY TreeClosed
  <2>2. PICK i \in DOMAIN h[m].children : h[m].children[i] = c
    BY <1>1, InChildren
  <2>3. h[c].parent = m
    BY <2>2 DEF IsTree
  <2>4. c # r
    BY <2>3, <1>1, NodeAssumption DEF IsTree
  <2>5. m \notin Subtree(h, c)
    BY <2>1, <2>3, <2>4, ParentIsOutside
  <2>6. c \in Node /\ c \in Subtree(h, m)
    BY <1>1, <1>3, <2>1, SubtreeClosed
  <2>7. Subtree(h, c) \subseteq Subtree(h, m)
    <3>1. \A n \in Subtree(h, m) \intersect Node : Children(h, n) \subseteq Subtree(h, m)
      BY <1>1, SubtreeClosed
    <3> QED BY <2>6, <3>1, SubtreeLeast
  <2>8. Subtree(h, c) \subseteq Subtree(h, m) \ {m}
    BY <2>5, <2>7
  <2>9. IsFiniteSet(Subtree(h, m) \ {m}) /\ Cardinality(Subtree(h, m) \ {m}) = TreeSize(h, m) - 1
    BY <1>3, <1>4, FS_RemoveElement DEF TreeSize
  <2>10. Cardinality(Subtree(h, c)) <= Cardinality(Subtree(h, m) \ {m})
    BY <2>8, <2>9, FS_Subset
  <2>11. TreeSize(h, c) \in Nat
    BY <2>8, <2>9, FS_Subset, FS_CardinalityType DEF TreeSize
  <2>12. TreeSize(h, c) <= TreeSize(h, m) - 1
    BY <2>9, <2>10 DEF TreeSize
  <2>13. \A a, b \in Nat : a <= b - 1 => a + 1 <= b
    OBVIOUS
  <2> QED BY <2>1, <2>11, <2>12, <2>13, <1>5
<1> QED BY <1>4, <1>5, <1>6

(* Induction from the leaves to the root.                                  *)
LEMMA TreeInduction ==
    ASSUME NEW h \in Heap, NEW X, NEW r, IsTree(h, X, r), NEW T,
           \A m \in X : Children(h, m) \subseteq T => m \in T
    PROVE  X \subseteq T
<1> DEFINE K == {k \in Nat : \A m \in X : TreeSize(h, m) <= k => m \in T}
<1>1. 0 \in K
  <2>1. \A m \in X : ~(TreeSize(h, m) <= 0)
    BY SizeIs
  <2> QED BY <2>1
<1>2. ASSUME NEW k \in Nat, k \in K PROVE k + 1 \in K
  <2>1. SUFFICES ASSUME NEW m \in X, TreeSize(h, m) <= k + 1 PROVE m \in T
    OBVIOUS
  <2>2. ASSUME NEW c \in Children(h, m) PROVE c \in T
    <3>1. TreeSize(h, m) \in Nat /\ c \in X /\ TreeSize(h, c) + 1 <= TreeSize(h, m)
      BY SizeIs
    <3>2. TreeSize(h, c) \in Nat
      BY <3>1, SizeIs
    <3>3. TreeSize(h, c) <= k
      BY <3>1, <3>2, <2>1
    <3> QED BY <3>1, <3>3, <1>2
  <2> QED BY <2>2
<1>3. Nat \subseteq K
  <2> HIDE DEF K
  <2> QED BY <1>1, <1>2, SetInduction
<1>4. ASSUME NEW m \in X PROVE m \in T
  <2>1. TreeSize(h, m) \in Nat
    BY SizeIs
  <2>2. TreeSize(h, m) \in K
    <3> HIDE DEF K
    <3> QED BY <1>3, <2>1
  <2> QED BY <2>1, <2>2
<1> QED BY <1>4

(* There is room left above NodeCount for the subtree of m at depth d.     *)
Fits(h, m, d) == d \in Nat /\ d + TreeSize(h, m) <= NodeCount

(* There is room at depth 0, and one deeper for the children.              *)
LEMMA FitsIs ==
    ASSUME NEW h \in Heap, NEW X, NEW r, IsTree(h, X, r), NEW m \in X
    PROVE  /\ Fits(h, m, 0)
           /\ \A d : Fits(h, m, d) =>
                /\ d \in 0..(NodeCount - 1) /\ d + 1 \in 0..NodeCount
                /\ \A c \in Children(h, m) : c \in X /\ Fits(h, c, d + 1)
<1>1. NodeCount \in Nat
  BY NodeCountType
<1>2. TreeSize(h, m) \in Nat /\ TreeSize(h, m) # 0 /\ TreeSize(h, m) <= NodeCount
  BY SizeIs
<1>3. Fits(h, m, 0)
  BY <1>2 DEF Fits
<1>4. ASSUME NEW d, Fits(h, m, d)
      PROVE  /\ d \in 0..(NodeCount - 1) /\ d + 1 \in 0..NodeCount
             /\ \A c \in Children(h, m) : c \in X /\ Fits(h, c, d + 1)
  <2>1. d \in Nat /\ d + TreeSize(h, m) <= NodeCount
    BY <1>4 DEF Fits
  <2>2. d \in 0..(NodeCount - 1) /\ d + 1 \in 0..NodeCount
    BY <1>1, <1>2, <2>1
  <2>3. ASSUME NEW c \in Children(h, m) PROVE c \in X /\ Fits(h, c, d + 1)
    <3>1. c \in X /\ TreeSize(h, c) + 1 <= TreeSize(h, m)
      BY SizeIs
    <3>2. TreeSize(h, c) \in Nat
      BY <3>1, SizeIs
    <3>3. (d + 1) + TreeSize(h, c) <= NodeCount
      BY <1>1, <1>2, <2>1, <3>1, <3>2
    <3> QED BY <2>1, <3>1, <3>3 DEF Fits
  <2> QED BY <2>2, <2>3
<1> QED BY <1>3, <1>4

-----------------------------------------------------------------------------
Rows(h, V, W) == CHOOSE R : AreLists(R, h, V, W)

LEMMA RowsAre ==
    ASSUME NEW h \in Heap, NEW V, NEW W \in Wraps(V)
    PROVE  AreLists(Rows(h, V, W), h, V, W)
BY ListsExist DEF Rows

(* The list at depth d from the lists at depth d + 1.                      *)
LEMMA RowIs ==
    ASSUME NEW h \in Heap, NEW V, NEW W \in Wraps(V), NEW d \in 0..NodeCount
    PROVE  /\ Rows(h, V, W)[d] \in [Node -> Seq(V)]
           /\ d = NodeCount => \A m \in Node : Rows(h, V, W)[d][m] = <<>>
           /\ d # NodeCount => \A m \in Node :
                Rows(h, V, W)[d][m] = W[<<m, d>>][Flat(Rows(h, V, W)[d + 1], h[m].children)]
<1> DEFINE R == Rows(h, V, W)
<1>1. AreLists(R, h, V, W)
  BY RowsAre
<1> HIDE DEF R
<1>2. R[d] \in [Node -> Seq(V)]
  BY <1>1 DEF AreLists
<1>3. ASSUME d = NodeCount, NEW m \in Node PROVE R[d][m] = <<>>
  BY <1>1, <1>3 DEF AreLists
<1>4. ASSUME d # NodeCount, NEW m \in Node
      PROVE  R[d][m] = W[<<m, d>>][Flat(R[d + 1], h[m].children)]
  <2>1. d \in 0..(NodeCount - 1)
    BY <1>4, NodeCountType
  <2>2. R[d] = [n \in Node |-> W[<<n, d>>][Flat(R[d + 1], h[n].children)]]
    BY <1>1, <2>1 DEF AreLists
  <2> QED BY <2>2
<1> QED BY <1>2, <1>3, <1>4 DEF R

Entries == [node : Node, depth : Nat]

PreWrap == [at \in Node \X (0..NodeCount) |->
               [s \in Seq(Entries) |-> <<[node |-> at[1], depth |-> at[2]]>> \o s]]

PreRow(h, d) == Rows(h, Entries, PreWrap)[d]

LEMMA EntryIs ==
    ASSUME NEW m \in Node, NEW d \in Nat
    PROVE  /\ [node |-> m, depth |-> d] \in Entries
           /\ <<[node |-> m, depth |-> d]>> \in Seq(Entries)
           /\ Len(<<[node |-> m, depth |-> d]>>) = 1
           /\ <<[node |-> m, depth |-> d]>>[1] = [node |-> m, depth |-> d]
BY DEF Entries

LEMMA PreWrapIs ==
    /\ PreWrap \in Wraps(Entries)
    /\ \A m \in Node, d \in 0..NodeCount, s \in Seq(Entries) :
         PreWrap[<<m, d>>][s] = <<[node |-> m, depth |-> d]>> \o s
<1> DEFINE Body(at) == [s \in Seq(Entries) |-> <<[node |-> at[1], depth |-> at[2]]>> \o s]
<1>1. ASSUME NEW at \in Node \X (0..NodeCount) PROVE Body(at) \in [Seq(Entries) -> Seq(Entries)]
  <2>1. at[1] \in Node /\ at[2] \in Nat
    BY NodeCountType
  <2>2. <<[node |-> at[1], depth |-> at[2]]>> \in Seq(Entries)
    BY <2>1, EntryIs
  <2>3. \A s \in Seq(Entries) : <<[node |-> at[1], depth |-> at[2]]>> \o s \in Seq(Entries)
    BY <2>2, ConcatProperties
  <2> QED BY <2>3
<1>2. PreWrap = [at \in Node \X (0..NodeCount) |-> Body(at)]
  BY DEF PreWrap
<1>3. PreWrap \in Wraps(Entries)
  <2> HIDE DEF Body
  <2> QED BY <1>1, <1>2 DEF Wraps
<1>4. ASSUME NEW m \in Node, NEW d \in 0..NodeCount, NEW s \in Seq(Entries)
      PROVE  PreWrap[<<m, d>>][s] = <<[node |-> m, depth |-> d]>> \o s
  <2>1. PreWrap[<<m, d>>] = Body(<<m, d>>)
    <3> HIDE DEF Body
    <3> QED BY <1>2
  <2> QED BY <2>1
<1> QED BY <1>3, <1>4

LEMMA PreRowIs ==
    ASSUME NEW h \in Heap, NEW d \in 0..NodeCount
    PROVE  /\ PreRow(h, d) \in [Node -> Seq(Entries)]
           /\ d = NodeCount => \A m \in Node : PreRow(h, d)[m] = <<>>
           /\ d # NodeCount => \A m \in Node :
                /\ Flat(PreRow(h, d + 1), h[m].children) \in Seq(Entries)
                /\ PreRow(h, d)[m] = <<[node |-> m, depth |-> d]>>
                                       \o Flat(PreRow(h, d + 1), h[m].children)
<1>1. PreRow(h, d) \in [Node -> Seq(Entries)] /\ (d = NodeCount => \A m \in Node : PreRow(h, d)[m] = <<>>)
  BY PreWrapIs, RowIs DEF PreRow
<1>2. ASSUME d # NodeCount, NEW m \in Node
      PROVE  /\ Flat(PreRow(h, d + 1), h[m].children) \in Seq(Entries)
             /\ PreRow(h, d)[m] = <<[node |-> m, depth |-> d]>>
                                       \o Flat(PreRow(h, d + 1), h[m].children)
  <2>1. d + 1 \in 0..NodeCount
    BY <1>2, NodeCountType
  <2>2. PreRow(h, d + 1) \in [Node -> Seq(Entries)]
    BY <2>1, PreWrapIs, RowIs DEF PreRow
  <2>3. h[m].children \in Seq(Node)
    BY HeapFields
  <2>4. Flat(PreRow(h, d + 1), h[m].children) \in Seq(Entries)
    BY <2>2, <2>3, FlatType
  <2>5. PreRow(h, d)[m] = PreWrap[<<m, d>>][Flat(PreRow(h, d + 1), h[m].children)]
    BY <1>2, PreWrapIs, RowIs DEF PreRow
  <2> QED BY <2>4, <2>5, PreWrapIs
<1> QED BY <1>1, <1>2

(* Preorder, a recursive function, by its equations.                       *)
LEMMA PreorderIs ==
    ASSUME NEW h \in Heap, NEW n \in Node
    PROVE  Preorder(h, n) = PreRow(h, 0)[n]
<1> DEFINE N == NodeCount
           D == Node \X (0..N)
           Val(b, m, d) == IF d = N THEN <<>>
                           ELSE <<[node |-> m, depth |-> d]>> \o
                                FlattenSeq([i \in DOMAIN h[m].children |->
                                               b[<<h[m].children[i], d + 1>>]])
           Body(b) == [at \in D |-> Val(b, at[1], at[2])]
           Q == [at \in D |-> PreRow(h, at[2])[at[1]]]
           below == CHOOSE b : b = Body(b)
<1>1. N \in Nat /\ 0 \in 0..N
  BY NodeCountType
<1>2. ASSUME NEW b, NEW d \in 0..(N - 1), NEW m \in Node,
             \A c \in Node : b[<<c, d + 1>>] = PreRow(h, d + 1)[c]
      PROVE  Val(b, m, d) = PreRow(h, d)[m]
  <2>1. d \in 0..N /\ d # N
    BY <1>1
  <2>2. \A i \in DOMAIN h[m].children : h[m].children[i] \in Node
    BY HeapFields
  <2>3. [i \in DOMAIN h[m].children |-> b[<<h[m].children[i], d + 1>>]]
          = Mapped(PreRow(h, d + 1), h[m].children)
    BY <1>2, <2>2 DEF Mapped
  <2>4. FlattenSeq([i \in DOMAIN h[m].children |-> b[<<h[m].children[i], d + 1>>]])
          = Flat(PreRow(h, d + 1), h[m].children)
    BY <2>3 DEF Flat
  <2>5. PreRow(h, d)[m] = <<[node |-> m, depth |-> d]>> \o Flat(PreRow(h, d + 1), h[m].children)
    BY <2>1, PreRowIs
  <2> QED BY <2>1, <2>4, <2>5
<1>3. ASSUME NEW b, NEW m \in Node PROVE Val(b, m, N) = PreRow(h, N)[m]
  <2>1. N \in 0..N
    BY <1>1
  <2> QED BY <2>1, PreRowIs
<1>4. Q = Body(Q)
  <2>1. ASSUME NEW at \in D PROVE PreRow(h, at[2])[at[1]] = Val(Q, at[1], at[2])
    <3>1. at[1] \in Node /\ at[2] \in 0..N
      OBVIOUS
    <3>2. CASE at[2] = N
      <4> HIDE DEF Val, Q
      <4> QED BY <3>1, <3>2, <1>3
    <3>3. CASE at[2] # N
      <4>1. at[2] \in 0..(N - 1) /\ at[2] + 1 \in 0..N
        BY <1>1, <3>1, <3>3
      <4>2. \A c \in Node : <<c, at[2] + 1>> \in D
        BY <4>1
      <4>3. \A c \in Node : Q[<<c, at[2] + 1>>] = PreRow(h, at[2] + 1)[c]
        <5> HIDE DEF D
        <5> QED BY <4>2
      <4> HIDE DEF Val, Q, D
      <4> QED BY <3>1, <4>1, <4>3, <1>2
    <3> QED BY <3>2, <3>3
  <2> HIDE DEF Val, D
  <2> QED BY <2>1
<1>5. below = Body(below)
  <2> HIDE DEF Body, Q
  <2> QED BY <1>4
<1>6. Preorder(h, n) = below[<<n, 0>>]
  BY DEF Preorder, NodeCount
<1> HIDE DEF below
<1>7. ASSUME NEW m \in Node, NEW d \in 0..N PROVE below[<<m, d>>] = Val(below, m, d)
  <2>1. <<m, d>> \in D
    OBVIOUS
  <2> HIDE DEF Val, D
  <2> QED BY <2>1, <1>5
<1> DEFINE R == Rows(h, Entries, PreWrap)
<1>8. AreLists(R, h, Entries, PreWrap)
  BY PreWrapIs, RowsAre
<1>9. \A m \in Node, d \in 0..N : below[<<m, d>>] = R[d][m]
  <2>1. ASSUME NEW m \in Node PROVE below[<<m, N>>] = <<>>
    <3>1. N \in 0..N
      BY <1>1
    <3>2. below[<<m, N>>] = Val(below, m, N)
      <4> HIDE DEF Val
      <4> QED BY <3>1, <1>7
    <3> QED BY <3>2
  <2>2. ASSUME NEW m \in Node, NEW d \in 0..(N - 1),
               \A c \in Node : below[<<c, d + 1>>] = R[d + 1][c]
        PROVE  below[<<m, d>>] = PreWrap[<<m, d>>][Flat(R[d + 1], h[m].children)]
    <3>1. \A c \in Node : below[<<c, d + 1>>] = PreRow(h, d + 1)[c]
      BY <2>2 DEF PreRow
    <3>2. Val(below, m, d) = PreRow(h, d)[m]
      <4> HIDE DEF Val
      <4> QED BY <3>1, <1>2
    <3>3. d \in 0..N /\ d # N
      BY <1>1
    <3>4. below[<<m, d>>] = Val(below, m, d)
      <4> HIDE DEF Val
      <4> QED BY <3>3, <1>7
    <3>5. PreRow(h, d)[m] = PreWrap[<<m, d>>][Flat(R[d + 1], h[m].children)]
      BY <3>3, PreWrapIs, RowIs DEF PreRow
    <3> HIDE DEF Val
    <3> QED BY <3>2, <3>4, <3>5
  <2>3. PreWrap \in Wraps(Entries)
    BY PreWrapIs
  <2>4. \A m \in Node : below[<<m, NodeCount>>] = <<>>
    BY <2>1
  <2>5. \A m \in Node, d \in 0..(NodeCount - 1) :
          (\A c \in Node : below[<<c, d + 1>>] = R[d + 1][c])
            => below[<<m, d>>] = PreWrap[<<m, d>>][Flat(R[d + 1], h[m].children)]
    <3> HIDE DEF R
    <3> QED BY <2>2
  <2>6. Follows(below, R, h, PreWrap)
    <3> HIDE DEF R
    <3> QED BY <2>4, <2>5 DEF Follows
  <2>7. Matches(below, R)
    <3> HIDE DEF R, N
    <3> QED BY <2>3, <2>6, <1>8, ListsUnique
  <2> QED BY <2>7 DEF Matches
<1> QED BY <1>1, <1>6, <1>9 DEF PreRow

-----------------------------------------------------------------------------
(* The image of a list, element by element.                                *)

Imaged(g, l) == [i \in DOMAIN l |-> g[l[i]]]

IsMap(g, V, W) == g \in [V -> W]

(* An image is as long as the list it is of.                               *)
LEMMA ImagedIs ==
    ASSUME NEW V, NEW W, NEW g, IsMap(g, V, W), NEW l \in Seq(V)
    PROVE  /\ Imaged(g, l) \in Seq(W) /\ Len(Imaged(g, l)) = Len(l)
           /\ \A i \in 1..Len(l) : Imaged(g, l)[i] = g[l[i]]
<1>1. DOMAIN l = 1..Len(l) /\ Len(l) \in Nat /\ \A i \in 1..Len(l) : l[i] \in V
  BY LenProperties, ElementOfSeq
<1>2. \A i \in 1..Len(l) : g[l[i]] \in W
  BY <1>1 DEF IsMap
<1>3. Imaged(g, l) = [i \in 1..Len(l) |-> g[l[i]]]
  BY <1>1 DEF Imaged
<1> QED BY <1>1, <1>2, <1>3

LEMMA ImagedConcat ==
    ASSUME NEW V, NEW W, NEW g, IsMap(g, V, W), NEW a \in Seq(V), NEW b \in Seq(V)
    PROVE  Imaged(g, a \o b) = Imaged(g, a) \o Imaged(g, b)
<1> DEFINE c == a \o b
           x == Imaged(g, a)
           y == Imaged(g, b)
           z == Imaged(g, c)
           m == Len(a)
           n == Len(b)
<1>1. m \in Nat /\ n \in Nat
  BY LenProperties
<1>2. /\ c \in Seq(V) /\ Len(c) = m + n
      /\ \A i \in 1..(m + n) : c[i] = IF i <= m THEN a[i] ELSE b[i - m]
  BY ConcatIs
<1>3. x \in Seq(W) /\ Len(x) = m /\ \A i \in 1..m : x[i] = g[a[i]]
  BY ImagedIs
<1>4. y \in Seq(W) /\ Len(y) = n /\ \A i \in 1..n : y[i] = g[b[i]]
  BY ImagedIs
<1> HIDE DEF c
<1>5. z \in Seq(W) /\ Len(z) = m + n /\ \A i \in 1..(m + n) : z[i] = g[c[i]]
  <2>1. c \in Seq(V)
    BY <1>2
  <2>2. z \in Seq(W) /\ Len(z) = Len(c) /\ \A i \in 1..Len(c) : z[i] = g[c[i]]
    BY <2>1, ImagedIs
  <2> QED BY <1>2, <2>2
<1> HIDE DEF x, y, z, m, n
<1>6. /\ x \o y \in Seq(W) /\ Len(x \o y) = m + n
      /\ \A i \in 1..(m + n) : (x \o y)[i] = IF i <= m THEN x[i] ELSE y[i - m]
  <2>1. x \in Seq(W) /\ y \in Seq(W) /\ Len(x) = m /\ Len(y) = n
    BY <1>3, <1>4
  <2>2. /\ x \o y \in Seq(W) /\ Len(x \o y) = Len(x) + Len(y)
        /\ \A i \in 1..(Len(x) + Len(y)) :
              (x \o y)[i] = IF i <= Len(x) THEN x[i] ELSE y[i - Len(x)]
    BY <2>1, ConcatIs
  <2> QED BY <2>1, <2>2
<1>7. ASSUME NEW i \in 1..(m + n) PROVE z[i] = (x \o y)[i]
  <2>0. z[i] = g[c[i]]
    BY <1>5
  <2>1. CASE i <= m
    <3>1. i \in 1..m
      BY <1>1, <2>1
    <3> QED BY <2>0, <2>1, <3>1, <1>2, <1>3, <1>6
  <2>2. CASE ~(i <= m)
    <3>1. i - m \in 1..n
      BY <1>1, <2>2
    <3> QED BY <2>0, <2>2, <3>1, <1>2, <1>4, <1>6
  <2> QED BY <2>1, <2>2
<1>8. z = x \o y
  <2> DEFINE xy == x \o y
  <2>1. xy \in Seq(W) /\ Len(xy) = Len(z) /\ \A i \in 1..Len(z) : z[i] = xy[i]
    BY <1>5, <1>6, <1>7
  <2> HIDE DEF xy
  <2>2. z = xy
    BY <1>5, <2>1, SeqEqual
  <2> QED BY <2>2 DEF xy
<1> QED BY <1>8 DEF x, y, z, c

LEMMA ImagedEmpty == ASSUME NEW g PROVE Imaged(g, <<>>) = <<>>
BY DEF Imaged

(* Lists whose members' lists are images are images.                       *)
AreImages(e, p, g, f, q, V, W) ==
    /\ IsMap(g, V, W) /\ f \in [Node -> Seq(V)] /\ e \in [Node -> Seq(W)]
    /\ q \in Seq(Node) /\ p \in Seq(Node) /\ Len(p) = Len(q)
    /\ \A i \in 1..Len(q) : e[p[i]] = Imaged(g, f[q[i]])

(* ... and so are they put together.                                       *)
LEMMA FlatImaged ==
    ASSUME NEW e, NEW p, NEW g, NEW f, NEW q, NEW V, NEW W, AreImages(e, p, g, f, q, V, W)
    PROVE  Flat(e, p) = Imaged(g, Flat(f, q))
<1> DEFINE n == Len(q)
<1> USE DEF AreImages
<1>0. \A u, v \in Seq(V) : Imaged(g, u \o v) = Imaged(g, u) \o Imaged(g, v)
  BY ImagedConcat
<1>1. n \in Nat /\ \A i \in 1..n : q[i] \in Node
  BY LenProperties, ElementOfSeq
<1>2. PICK F : IsFlat(F, V, f, q) /\ F[n] = Flat(f, q)
  BY FlatIs
<1>3. F \in [0..n -> Seq(V)] /\ F[0] = <<>> /\ \A k \in 1..n : F[k] = F[k - 1] \o f[q[k]]
  BY <1>2 DEF IsFlat
<1> DEFINE E == [k \in 0..n |-> Imaged(g, F[k])]
<1>4. \A k \in 0..n : E[k] = Imaged(g, F[k]) /\ E[k] \in Seq(W)
  <2> TAKE k \in 0..n
  <2>1. F[k] \in Seq(V)
    BY <1>3
  <2> QED BY <2>1, ImagedIs
<1>5. E[0] = <<>>
  <2>1. 0 \in 0..n
    BY <1>1
  <2> QED BY <2>1, <1>3, <1>4, ImagedEmpty
<1>6. ASSUME NEW k \in 1..n PROVE E[k] = E[k - 1] \o e[p[k]]
  <2>1. k \in 0..n /\ k - 1 \in 0..n
    BY <1>1
  <2>2. PICK u, v : u = F[k - 1] /\ v = f[q[k]]
    OBVIOUS
  <2>3. u \in Seq(V) /\ v \in Seq(V) /\ F[k] = u \o v
    BY <1>1, <1>3, <2>1, <2>2
  <2>4. Imaged(g, u \o v) = Imaged(g, u) \o Imaged(g, v)
    BY <2>3, <1>0
  <2> HIDE DEF E
  <2> QED BY <1>4, <2>1, <2>2, <2>3, <2>4
<1>7. E \in [0..n -> Seq(W)]
  BY <1>4
<1> HIDE DEF E
<1>8. IsFlat(E, W, e, p)
  BY <1>5, <1>6, <1>7 DEF IsFlat
<1>9. E[n] = Flat(e, p)
  BY <1>8, FlatUnique
<1>10. E[n] = Imaged(g, F[n])
  BY <1>1, <1>4
<1> QED BY <1>2, <1>9, <1>10

-----------------------------------------------------------------------------
(* What is in a list.                                                      *)

(* What is in a list.                                                      *)
LEMMA InList ==
    ASSUME NEW V, NEW l \in Seq(V)
    PROVE  /\ ToSet(l) \subseteq V
           /\ \A x : x \in ToSet(l) <=> \E i \in 1..Len(l) : l[i] = x
<1>1. DOMAIN l = 1..Len(l) /\ \A i \in 1..Len(l) : l[i] \in V
  BY LenProperties, ElementOfSeq
<1> QED BY <1>1 DEF ToSet

LEMMA InConcat ==
    ASSUME NEW V, NEW a \in Seq(V), NEW b \in Seq(V)
    PROVE  ToSet(a \o b) = ToSet(a) \union ToSet(b)
<1> DEFINE c == a \o b
           m == Len(a)
           n == Len(b)
<1>1. m \in Nat /\ n \in Nat
  BY LenProperties
<1>2. /\ c \in Seq(V) /\ Len(c) = m + n
      /\ \A i \in 1..(m + n) : c[i] = IF i <= m THEN a[i] ELSE b[i - m]
  BY ConcatIs
<1> HIDE DEF c
<1>3. /\ \A x : x \in ToSet(c) <=> \E i \in 1..(m + n) : c[i] = x
      /\ \A x : x \in ToSet(a) <=> \E i \in 1..m : a[i] = x
      /\ \A x : x \in ToSet(b) <=> \E i \in 1..n : b[i] = x
  BY <1>2, InList
<1> HIDE DEF m, n
<1>4. ASSUME NEW x \in ToSet(c) PROVE x \in ToSet(a) \union ToSet(b)
  <2>1. PICK i \in 1..(m + n) : c[i] = x
    BY <1>3
  <2>2. i \in 1..m \/ (~(i <= m) /\ i - m \in 1..n)
    BY <1>1
  <2> QED BY <1>2, <1>3, <2>1, <2>2
<1>5. ASSUME NEW x \in ToSet(a) PROVE x \in ToSet(c)
  <2>1. PICK i \in 1..m : a[i] = x
    BY <1>3
  <2>2. i \in 1..(m + n) /\ i <= m
    BY <1>1
  <2> QED BY <1>2, <1>3, <2>1, <2>2
<1>6. ASSUME NEW x \in ToSet(b) PROVE x \in ToSet(c)
  <2>1. PICK i \in 1..n : b[i] = x
    BY <1>3
  <2>2. m + i \in 1..(m + n) /\ ~(m + i <= m) /\ (m + i) - m = i
    BY <1>1
  <2> QED BY <1>2, <1>3, <2>1, <2>2
<1> QED BY <1>4, <1>5, <1>6 DEF c

(* What is in lists put together.                                          *)
LEMMA InFlat ==
    ASSUME NEW V, NEW f \in [Node -> Seq(V)], NEW q \in Seq(Node)
    PROVE  \A x : x \in ToSet(Flat(f, q)) <=> \E i \in 1..Len(q) : x \in ToSet(f[q[i]])
<1> DEFINE n == Len(q)
<1>1. n \in Nat /\ \A i \in 1..n : q[i] \in Node
  BY LenProperties, ElementOfSeq
<1>2. PICK F : IsFlat(F, V, f, q) /\ F[n] = Flat(f, q)
  BY FlatIs
<1>3. F \in [0..n -> Seq(V)] /\ F[0] = <<>> /\ \A k \in 1..n : F[k] = F[k - 1] \o f[q[k]]
  BY <1>2 DEF IsFlat
<1> DEFINE In(x, k) == \E i \in 1..k : x \in ToSet(f[q[i]])
           T == {k \in Nat : k <= n => \A x : x \in ToSet(F[k]) <=> In(x, k)}
<1>4. 0 \in T
  <2>1. ToSet(F[0]) = {}
    BY <1>3 DEF ToSet
  <2> QED BY <2>1
<1>5. ASSUME NEW k \in Nat, k \in T PROVE k + 1 \in T
  <2>1. SUFFICES ASSUME k + 1 <= n, NEW x PROVE x \in ToSet(F[k + 1]) <=> In(x, k + 1)
    OBVIOUS
  <2>2. k \in 0..n /\ k + 1 \in 1..n /\ (k + 1) - 1 = k /\ k <= n
    BY <1>1, <2>1
  <2>3. PICK u, v : u = F[k] /\ v = f[q[k + 1]]
    OBVIOUS
  <2>4. u \in Seq(V) /\ v \in Seq(V) /\ F[k + 1] = u \o v
    BY <1>1, <1>3, <2>2, <2>3
  <2>5. ToSet(u \o v) = ToSet(u) \union ToSet(v)
    BY <2>4, InConcat
  <2>6. x \in ToSet(u) <=> In(x, k)
    BY <1>5, <2>2, <2>3
  <2>7. In(x, k + 1) <=> In(x, k) \/ x \in ToSet(f[q[k + 1]])
    <3>1. \A i \in Nat : i \in 1..(k + 1) <=> i \in 1..k \/ i = k + 1
      OBVIOUS
    <3>2. \A i \in 1..(k + 1) : i \in Nat
      OBVIOUS
    <3>3. \A i \in 1..k : i \in Nat
      OBVIOUS
    <3>4. \A i \in Nat : i \in 1..k => i \in 1..(k + 1)
      OBVIOUS
    <3>5. k + 1 \in 1..(k + 1)
      OBVIOUS
    <3>6. ASSUME In(x, k + 1) PROVE In(x, k) \/ x \in ToSet(f[q[k + 1]])
      <4>1. PICK i \in 1..(k + 1) : x \in ToSet(f[q[i]])
        BY <3>6
      <4>2. i \in 1..k \/ i = k + 1
        BY <3>1, <3>2
      <4> QED BY <4>1, <4>2
    <3>7. In(x, k) => In(x, k + 1)
      BY <3>3, <3>4
    <3>8. x \in ToSet(f[q[k + 1]]) => In(x, k + 1)
      BY <3>5
    <3> QED BY <3>6, <3>7, <3>8
  <2> QED BY <2>3, <2>4, <2>5, <2>6, <2>7
<1>6. Nat \subseteq T
  <2> HIDE DEF T
  <2> QED BY <1>4, <1>5, SetInduction
<1>7. n \in T
  <2> HIDE DEF T
  <2> QED BY <1>1, <1>6
<1>8. \A x : x \in ToSet(F[n]) <=> In(x, n)
  <2>1. n <= n
    BY <1>1
  <2> QED BY <1>7, <2>1
<1> QED BY <1>2, <1>8

-----------------------------------------------------------------------------
(* A node's descendants are its children's, and itself; siblings share     *)
(* none.                                                                   *)

(* A subtree is its root and the subtrees of the root's children ...       *)
LEMMA SubtreeSplits ==
    ASSUME NEW h \in Heap, NEW X, NEW r, IsTree(h, X, r), NEW m \in X
    PROVE  \A x : x \in Subtree(h, m) <=> x = m \/ \E c \in Children(h, m) : x \in Subtree(h, c)
<1> DEFINE S == {x \in Node : x = m \/ \E c \in Children(h, m) : x \in Subtree(h, c)}
<1>1. X \subseteq Node /\ m \in Node /\ Children(h, m) \subseteq X
  BY TreeClosed DEF IsTree
<1>2. m \in Subtree(h, m) /\ Subtree(h, m) \subseteq Node
  BY <1>1, SubtreeIn
<1>3. \A c \in Children(h, m) : c \in Node /\ c \in Subtree(h, c)
  BY <1>1, SubtreeIn
<1>4. Subtree(h, m) \subseteq S
  <2>1. m \in S
    BY <1>1
  <2>2. ASSUME NEW x \in S \intersect Node, NEW y \in Children(h, x) PROVE y \in S
    <3>1. y \in Node
      BY <2>2, ChildrenAreNodes
    <3>2. CASE x = m
      BY <2>2, <3>1, <3>2, <1>3
    <3>3. CASE x # m
      <4>1. PICK c \in Children(h, m) : x \in Subtree(h, c)
        BY <3>3
      <4>2. y \in Subtree(h, c)
        BY <2>2, <4>1, <1>3, SubtreeClosed
      <4> QED BY <3>1, <4>1, <4>2
    <3> QED BY <3>2, <3>3
  <2>3. \A x \in S \intersect Node : Children(h, x) \subseteq S
    BY <2>2
  <2> HIDE DEF S
  <2> QED BY <1>1, <2>1, <2>3, SubtreeLeast
<1>5. ASSUME NEW c \in Children(h, m) PROVE Subtree(h, c) \subseteq Subtree(h, m)
  <2>1. c \in Subtree(h, m)
    BY <1>1, <1>2, SubtreeClosed
  <2>2. \A x \in Subtree(h, m) \intersect Node : Children(h, x) \subseteq Subtree(h, m)
    BY <1>1, SubtreeClosed
  <2> QED BY <1>3, <2>1, <2>2, SubtreeLeast
<1> QED BY <1>2, <1>4, <1>5

(* ... which do not meet.                                                  *)
LEMMA SiblingsAreApart ==
    ASSUME NEW h \in Heap, NEW X, NEW r, IsTree(h, X, r), NEW m \in X,
           NEW i \in DOMAIN h[m].children, NEW j \in DOMAIN h[m].children, i # j
    PROVE  LET q == h[m].children
           IN  /\ q[i] # q[j]
               /\ Subtree(h, q[i]) \intersect Subtree(h, q[j]) = {}
<1> DEFINE q == h[m].children
           a == q[i]
           b == q[j]
<1>1. m \in Node /\ X \subseteq Node /\ h[r].parent = Null
  BY DEF IsTree
<1>2. /\ a \in X /\ b \in X /\ h[a].parent = m /\ h[b].parent = m
      /\ h[a].index = i - 1 /\ h[b].index = j - 1
  BY TreeClosed DEF IsTree
<1>3. i \in Nat /\ j \in Nat
  BY <1>1, HeapFields
<1>4. a # b
  BY <1>2, <1>3
<1>5. a # r /\ b # r
  BY <1>1, <1>2, NodeAssumption
<1> HIDE DEF a, b
<1>6. ASSUME NEW x \in X, NEW y \in X, x # r, x # y, h[x].parent = m, h[y].parent = m
      PROVE  y \notin Subtree(h, x)
  <2>1. m \notin Subtree(h, x)
    BY <1>6, ParentIsOutside
  <2> QED BY <1>6, <2>1, SubtreeParents
<1>7. a \notin Subtree(h, b) /\ b \notin Subtree(h, a)
  BY <1>2, <1>4, <1>5, <1>6
<1>8. Subtree(h, a) \intersect Subtree(h, b) = {}
  <2>1. SUFFICES ASSUME NEW x \in Subtree(h, a), x \in Subtree(h, b) PROVE FALSE
    OBVIOUS
  <2> QED BY <2>1, <1>2, <1>7, SubtreesNest
<1> QED BY <1>4, <1>8 DEF a, b

-----------------------------------------------------------------------------
(* The block of a node: its entry, then its descendants', deeper.          *)

Entry(n, d) == [node |-> n, depth |-> d]
NodesOf(l) == {l[i].node : i \in DOMAIN l}

(* The block of m's subtree in a list, m being at depth d, and the block   *)
(* without its first entry.                                                *)
Block(h, d, m) == PreRow(h, d)[m]
Below(h, d, m) == Flat(PreRow(h, d + 1), h[m].children)

(* A block begins with its root, goes on with what is deeper, and has the  *)
(* nodes of S.                                                             *)
IsBlock(l, m, d, S) ==
    /\ l \in Seq(Entries) /\ Len(l) \in Nat \ {0} /\ l[1] = Entry(m, d)
    /\ \A k \in 2..Len(l) : l[k].depth > d
    /\ NodesOf(l) = S

(* A block by the equation of Preorder.                                    *)
LEMMA BlockIs ==
    ASSUME NEW h \in Heap, NEW X, NEW r, IsTree(h, X, r), NEW m \in X, NEW d, Fits(h, m, d)
    PROVE  /\ d \in 0..NodeCount /\ d + 1 \in 0..NodeCount
           /\ PreRow(h, d) \in [Node -> Seq(Entries)] /\ PreRow(h, d + 1) \in [Node -> Seq(Entries)]
           /\ h[m].children \in Seq(Node) /\ m \in Node
           /\ Below(h, d, m) \in Seq(Entries)
           /\ Block(h, d, m) = <<Entry(m, d)>> \o Below(h, d, m)
           /\ \A c \in Children(h, m) : c \in X /\ Fits(h, c, d + 1)
<1>1. d \in 0..(NodeCount - 1) /\ d + 1 \in 0..NodeCount
  BY FitsIs
<1>2. d \in 0..NodeCount /\ d # NodeCount
  BY <1>1, NodeCountType
<1>3. m \in Node /\ h[m].children \in Seq(Node)
  BY HeapFields DEF IsTree
<1>4. \A c \in Children(h, m) : c \in X /\ Fits(h, c, d + 1)
  BY FitsIs
<1> QED BY <1>1, <1>2, <1>3, <1>4, PreRowIs DEF Block, Below, Entry

LEMMA NodesOfIs ==
    ASSUME NEW l \in Seq(Entries)
    PROVE  \A x : x \in NodesOf(l) <=> \E e \in ToSet(l) : x = e.node
BY DEF NodesOf, ToSet

(* Blocks have the nodes of the subtree.                                   *)
LEMMA BlocksAre ==
    ASSUME NEW h \in Heap, NEW X, NEW r, IsTree(h, X, r), NEW m \in X, NEW d, Fits(h, m, d)
    PROVE  IsBlock(Block(h, d, m), m, d, Subtree(h, m))
<1> DEFINE Good(n, k) == IsBlock(Block(h, k, n), n, k, Subtree(h, n))
           T == {n \in X : \A k : Fits(h, n, k) => Good(n, k)}
<1>1. ASSUME NEW n \in X, Children(h, n) \subseteq T PROVE n \in T
  <2>1. SUFFICES ASSUME NEW k, Fits(h, n, k) PROVE Good(n, k)
    OBVIOUS
  <2> DEFINE q == h[n].children
             f == PreRow(h, k + 1)
             one == <<Entry(n, k)>>
             b == Below(h, k, n)
  <2>2. /\ k \in 0..NodeCount /\ f \in [Node -> Seq(Entries)] /\ q \in Seq(Node) /\ n \in Node
        /\ b \in Seq(Entries) /\ Block(h, k, n) = one \o b
        /\ \A c \in Children(h, n) : Fits(h, c, k + 1)
    BY <2>1, BlockIs
  <2>3. k \in Nat
    BY <2>2, NodeCountType
  <2>4. one \in Seq(Entries) /\ Len(one) = 1 /\ one[1] = Entry(n, k)
    BY <2>2, <2>3, EntryIs DEF Entry
  <2>5. \A e : e \in ToSet(b) <=> \E i \in 1..Len(q) : e \in ToSet(f[q[i]])
    BY <2>2, InFlat DEF Below
  <2>6. DOMAIN q = 1..Len(q) /\ \A c : c \in Children(h, n) <=> \E i \in 1..Len(q) : q[i] = c
    BY <2>2, HeapFields, InChildren
  <2> HIDE DEF f, one, b
  <2>7. \A e : e \in ToSet(b) <=> \E c \in Children(h, n) : e \in ToSet(Block(h, k + 1, c))
    BY <2>5, <2>6 DEF Block, f
  <2>8. \A c \in Children(h, n) : IsBlock(Block(h, k + 1, c), c, k + 1, Subtree(h, c))
    BY <2>2, <1>1
  <2>9. ASSUME NEW e \in ToSet(b) PROVE e.depth > k
    <3>1. PICK c \in Children(h, n) : e \in ToSet(Block(h, k + 1, c))
      BY <2>7
    <3> DEFINE l == Block(h, k + 1, c)
    <3>2. IsBlock(l, c, k + 1, Subtree(h, c))
      BY <2>8
    <3> HIDE DEF l
    <3>3. l \in Seq(Entries)
      BY <3>2 DEF IsBlock
    <3>4. PICK i \in 1..Len(l) : l[i] = e
      BY <3>1, <3>3, InList DEF l
    <3>5. l[i] \in Entries
      BY <3>3, <3>4, ElementOfSeq
    <3>6. l[i].depth \in Nat /\ l[i].depth >= k + 1
      <4>1. CASE i = 1
        BY <2>3, <4>1, <3>2 DEF IsBlock, Entry
      <4>2. CASE i # 1
        <5>1. i \in 2..Len(l)
          BY <3>4, <4>2
        <5>2. l[i].depth > k + 1
          BY <3>2, <5>1 DEF IsBlock
        <5>3. l[i].depth \in Nat
          BY <3>5 DEF Entries
        <5> QED BY <2>3, <5>2, <5>3
      <4> QED BY <4>1, <4>2
    <3> QED BY <2>3, <3>4, <3>6
  <2> DEFINE l == Block(h, k, n)
  <2>10. /\ one \o b \in Seq(Entries) /\ Len(one \o b) = 1 + Len(b) /\ Len(b) \in Nat
         /\ \A i \in 1..(1 + Len(b)) : (one \o b)[i] = IF i <= 1 THEN one[i] ELSE b[i - 1]
    <3>1. one \in Seq(Entries) /\ b \in Seq(Entries)
      BY <2>2, <2>4
    <3>2. /\ one \o b \in Seq(Entries) /\ Len(one \o b) = Len(one) + Len(b) /\ Len(b) \in Nat
          /\ \A i \in 1..(Len(one) + Len(b)) :
                (one \o b)[i] = IF i <= Len(one) THEN one[i] ELSE b[i - Len(one)]
      BY <3>1, ConcatIs
    <3> QED BY <2>4, <3>2
  <2>11. l = one \o b
    BY <2>2
  <2> HIDE DEF l
  <2>12. l \in Seq(Entries) /\ Len(l) \in Nat \ {0} /\ l[1] = Entry(n, k)
    <3>1. 1 \in 1..(1 + Len(b)) /\ 1 <= 1 /\ 1 + Len(b) \in Nat \ {0}
      BY <2>10
    <3> QED BY <3>1, <2>4, <2>10, <2>11
  <2>13. ASSUME NEW i \in 2..Len(l) PROVE l[i].depth > k
    <3>1. i \in 1..(1 + Len(b)) /\ ~(i <= 1) /\ i - 1 \in 1..Len(b)
      BY <2>10, <2>11
    <3>2. l[i] = b[i - 1]
      BY <3>1, <2>10, <2>11
    <3>3. b[i - 1] \in ToSet(b)
      BY <2>2, <3>1, InList
    <3> QED BY <2>9, <3>2, <3>3
  <2>14. NodesOf(l) = Subtree(h, n)
    <3>1. ToSet(l) = ToSet(one) \union ToSet(b)
      BY <2>2, <2>4, <2>11, InConcat
    <3>2. ToSet(one) = {Entry(n, k)}
      BY DEF one, ToSet
    <3>3. \A x : x \in NodesOf(l) <=> x = n \/ \E e \in ToSet(b) : x = e.node
      <4>1. Entry(n, k).node = n
        BY DEF Entry
      <4> QED BY <2>12, <3>1, <3>2, <4>1, NodesOfIs
    <3>4. \A x : (\E e \in ToSet(b) : x = e.node) <=> \E c \in Children(h, n) : x \in Subtree(h, c)
      <4>1. \A c \in Children(h, n) : \A x :
              x \in Subtree(h, c) <=> \E e \in ToSet(Block(h, k + 1, c)) : x = e.node
        BY <2>8, NodesOfIs DEF IsBlock
      <4> QED BY <2>7, <4>1
    <3>5. \A x : x \in Subtree(h, n) <=> x = n \/ \E c \in Children(h, n) : x \in Subtree(h, c)
      BY SubtreeSplits
    <3> QED BY <3>3, <3>4, <3>5
  <2> QED BY <2>12, <2>13, <2>14 DEF IsBlock, l
<1>2. X \subseteq T
  <2> HIDE DEF T
  <2> QED BY <1>1, TreeInduction
<1> QED BY <1>2

-----------------------------------------------------------------------------
(* The block of a node depends on the children of its descendants only ... *)
LEMMA BlockFrame ==
    ASSUME NEW h \in Heap, NEW g \in Heap, NEW X, NEW r, IsTree(h, X, r), NEW m \in X,
           NEW d, Fits(h, m, d),
           \A n \in Subtree(h, m) : g[n].children = h[n].children
    PROVE  Block(g, d, m) = Block(h, d, m)
<1> DEFINE Same(n) == \A x \in Subtree(h, n) : g[x].children = h[x].children
           Good(n, k) == Block(g, k, n) = Block(h, k, n)
           T == {n \in X : Same(n) => \A k : Fits(h, n, k) => Good(n, k)}
<1>1. ASSUME NEW n \in X, Children(h, n) \subseteq T PROVE n \in T
  <2>1. SUFFICES ASSUME Same(n), NEW k, Fits(h, n, k) PROVE Good(n, k)
    OBVIOUS
  <2> DEFINE q == h[n].children
  <2>2. /\ k \in 0..NodeCount /\ q \in Seq(Node) /\ n \in Node
        /\ Block(h, k, n) = <<Entry(n, k)>> \o Below(h, k, n)
        /\ \A c \in Children(h, n) : Fits(h, c, k + 1)
    BY <2>1, BlockIs
  <2>3. k \in 0..(NodeCount - 1)
    BY <2>1, FitsIs
  <2>4. k # NodeCount
    BY <2>3, NodeCountType
  <2>5. n \in Subtree(h, n) /\ \A c \in Children(h, n) : Subtree(h, c) \subseteq Subtree(h, n)
    BY <2>2, SubtreeIn, SubtreeSplits
  <2>6. g[n].children = q
    BY <2>1, <2>5
  <2>7. Block(g, k, n) = <<Entry(n, k)>> \o Below(g, k, n)
    BY <2>2, <2>4, PreRowIs DEF Block, Below, Entry
  <2>8. \A i \in DOMAIN q : q[i] \in Children(h, n)
    BY <2>2, InChildren
  <2>9. \A c \in Children(h, n) : Same(c)
    BY <2>1, <2>5
  <2>10. \A c \in Children(h, n) : PreRow(g, k + 1)[c] = PreRow(h, k + 1)[c]
    <3> HIDE DEF Same
    <3> QED BY <1>1, <2>2, <2>9 DEF Block
  <2>11. \A i \in DOMAIN q : PreRow(g, k + 1)[q[i]] = PreRow(h, k + 1)[q[i]]
    BY <2>8, <2>10
  <2>12. Flat(PreRow(g, k + 1), q) = Flat(PreRow(h, k + 1), q)
    BY <2>11, FlatFrame
  <2> QED BY <2>2, <2>6, <2>7, <2>12 DEF Below
<1>2. X \subseteq T
  <2> HIDE DEF T
  <2> QED BY <1>1, TreeInduction
<1> QED BY <1>2

(* The same for the subtrees of several nodes.                             *)
LEMMA BelowFrame ==
    ASSUME NEW h \in Heap, NEW g \in Heap, NEW X, NEW r, IsTree(h, X, r), NEW q \in Seq(Node),
           NEW d, \A i \in DOMAIN q : /\ q[i] \in X /\ Fits(h, q[i], d)
                                      /\ \A n \in Subtree(h, q[i]) : g[n].children = h[n].children
    PROVE  Flat(PreRow(g, d), q) = Flat(PreRow(h, d), q)
<1>1. \A i \in DOMAIN q : PreRow(g, d)[q[i]] = PreRow(h, d)[q[i]]
  BY BlockFrame DEF Block
<1> QED BY <1>1, FlatFrame

-----------------------------------------------------------------------------
(* ... and, deeper in the tree, it is the same but for the depths.         *)

Raise(k) == [e \in Entries |-> Entry(e.node, e.depth + k)]

(* All the depths higher by k.                                             *)
LEMMA RaiseIs ==
    ASSUME NEW k \in Nat
    PROVE  /\ IsMap(Raise(k), Entries, Entries)
           /\ \A m \in Node, d \in Nat : Raise(k)[Entry(m, d)] = Entry(m, d + k)
<1>1. \A e \in Entries : Entry(e.node, e.depth + k) \in Entries
  BY DEF Entry, Entries
<1>2. ASSUME NEW m \in Node, NEW d \in Nat PROVE Raise(k)[Entry(m, d)] = Entry(m, d + k)
  <2>1. Entry(m, d) \in Entries /\ Entry(m, d).node = m /\ Entry(m, d).depth = d
    BY DEF Entry, Entries
  <2> QED BY <2>1 DEF Raise
<1> QED BY <1>1, <1>2 DEF Raise, IsMap

LEMMA BelowRaised ==
    ASSUME NEW h \in Heap, NEW X, NEW r, IsTree(h, X, r), NEW m \in X, NEW d, NEW k \in Nat,
           Fits(h, m, d), Fits(h, m, d + k),
           \A c \in Children(h, m) : Block(h, (d + 1) + k, c) = Imaged(Raise(k), Block(h, d + 1, c))
    PROVE  Below(h, d + k, m) = Imaged(Raise(k), Below(h, d, m))
<1> DEFINE q == h[m].children
           f == PreRow(h, d + 1)
           e == PreRow(h, (d + k) + 1)
           R == Raise(k)
<1>1. /\ q \in Seq(Node) /\ m \in Node /\ f \in [Node -> Seq(Entries)]
      /\ d \in 0..NodeCount
  BY BlockIs
<1>2. e \in [Node -> Seq(Entries)]
  BY BlockIs
<1>3. (d + k) + 1 = (d + 1) + k
  BY <1>1, NodeCountType
<1>4. \A i \in 1..Len(q) : q[i] \in Children(h, m)
  BY <1>1, HeapFields, InChildren
<1>5. \A i \in 1..Len(q) : e[q[i]] = Imaged(R, f[q[i]])
  BY <1>3, <1>4 DEF Block
<1>6. IsMap(R, Entries, Entries)
  BY RaiseIs
<1> HIDE DEF f, e, R, q
<1>7. Flat(e, q) = Imaged(R, Flat(f, q))
  <2>1. AreImages(e, q, R, f, q, Entries, Entries)
    BY <1>1, <1>2, <1>5, <1>6 DEF AreImages
  <2> QED BY <2>1, FlatImaged
<1> QED BY <1>7 DEF Below, f, e, R, q

(* A block at another depth.                                               *)
LEMMA BlockRaised ==
    ASSUME NEW h \in Heap, NEW X, NEW r, IsTree(h, X, r), NEW m \in X, NEW d, NEW k \in Nat,
           Fits(h, m, d), Fits(h, m, d + k)
    PROVE  /\ Block(h, d + k, m) = Imaged(Raise(k), Block(h, d, m))
           /\ Below(h, d + k, m) = Imaged(Raise(k), Below(h, d, m))
<1> DEFINE R == Raise(k)
           Good(n, j) == Block(h, j + k, n) = Imaged(R, Block(h, j, n))
           T == {n \in X : \A j : Fits(h, n, j) /\ Fits(h, n, j + k) => Good(n, j)}
<1>1. ASSUME NEW n \in X, NEW j, Children(h, n) \subseteq T, Fits(h, n, j), Fits(h, n, j + k)
      PROVE  Below(h, j + k, n) = Imaged(R, Below(h, j, n))
  <2>1. j \in 0..NodeCount /\ \A c \in Children(h, n) : Fits(h, c, j + 1)
    BY <1>1, BlockIs
  <2>2. \A c \in Children(h, n) : Fits(h, c, (j + k) + 1)
    BY <1>1, BlockIs
  <2>3. (j + k) + 1 = (j + 1) + k
    BY <2>1, NodeCountType
  <2>4. \A c \in Children(h, n) : Good(c, j + 1)
    BY <1>1, <2>1, <2>2, <2>3
  <2> QED BY <1>1, <2>4, BelowRaised
<1>2. ASSUME NEW n \in X, Children(h, n) \subseteq T PROVE n \in T
  <2>1. SUFFICES ASSUME NEW j, Fits(h, n, j), Fits(h, n, j + k) PROVE Good(n, j)
    OBVIOUS
  <2>2. /\ j \in 0..NodeCount /\ n \in Node /\ Below(h, j, n) \in Seq(Entries)
        /\ Block(h, j, n) = <<Entry(n, j)>> \o Below(h, j, n)
    BY <2>1, BlockIs
  <2>3. Block(h, j + k, n) = <<Entry(n, j + k)>> \o Below(h, j + k, n)
    BY <2>1, BlockIs
  <2>4. Below(h, j + k, n) = Imaged(R, Below(h, j, n))
    BY <1>1, <1>2, <2>1
  <2>5. j \in Nat
    BY <2>2, NodeCountType
  <2> DEFINE one == <<Entry(n, j)>>
  <2>6. one \in Seq(Entries) /\ Len(one) = 1 /\ one[1] = Entry(n, j)
    BY <2>2, <2>5, EntryIs DEF Entry
  <2>7. IsMap(R, Entries, Entries) /\ R[Entry(n, j)] = Entry(n, j + k)
    BY <2>2, <2>5, RaiseIs
  <2>8. Imaged(R, one) = <<Entry(n, j + k)>>
    BY <2>6, <2>7 DEF Imaged
  <2>9. PICK b : b = Below(h, j, n)
    OBVIOUS
  <2> HIDE DEF one, R
  <2>10. \A u, v \in Seq(Entries) : Imaged(R, u \o v) = Imaged(R, u) \o Imaged(R, v)
    BY <2>7, ImagedConcat
  <2>11. b \in Seq(Entries) /\ one \in Seq(Entries)
    BY <2>2, <2>6, <2>9
  <2>12. Imaged(R, one \o b) = Imaged(R, one) \o Imaged(R, b)
    BY <2>10, <2>11
  <2>13. Block(h, j, n) = one \o b
    BY <2>2, <2>9 DEF one
  <2>14. Block(h, j + k, n) = Imaged(R, one) \o Imaged(R, b)
    BY <2>3, <2>4, <2>8, <2>9
  <2> QED BY <2>12, <2>13, <2>14
<1>3. X \subseteq T
  <2> HIDE DEF T
  <2> QED BY <1>2, TreeInduction
<1>4. Good(m, d)
  BY <1>3
<1>5. Children(h, m) \subseteq T
  BY <1>3, TreeClosed
<1> HIDE DEF T
<1>6. Below(h, d + k, m) = Imaged(R, Below(h, d, m))
  BY <1>1, <1>5
<1> QED BY <1>4, <1>6

-----------------------------------------------------------------------------
(* A list in three parts.                                                  *)

(* A part of a list is known by its elements.                              *)
LEMMA SliceIs ==
    ASSUME NEW V, NEW l \in Seq(V), NEW w \in Seq(V), NEW m \in Nat, NEW n \in Nat,
           m >= 1, n <= Len(l), Len(w) = n - m + 1,
           \A j \in 1..Len(w) : l[m + j - 1] = w[j]
    PROVE  SubSeq(l, m, n) = w
<1> DEFINE z == SubSeq(l, m, n)
<1>1. Len(l) \in Nat /\ Len(w) \in Nat /\ \A j \in 1..Len(l) : l[j] \in V
  BY LenProperties, ElementOfSeq
<1>2. \A j \in m..n : l[j] \in V
  BY <1>1
<1>3. /\ z \in Seq(V) /\ Len(z) = IF m <= n THEN n - m + 1 ELSE 0
      /\ \A j \in 1..(n - m + 1) : z[j] = l[m + j - 1]
  BY <1>2, SubSeqProperties
<1> HIDE DEF z
<1>4. Len(z) = Len(w)
  BY <1>1, <1>3
<1>5. \A j \in 1..Len(z) : z[j] = w[j]
  BY <1>3, <1>4
<1>6. z = w
  BY <1>3, <1>4, <1>5, SeqEqual
<1> QED BY <1>6 DEF z

(* A list in three parts, by its elements ...                              *)
LEMMA PartsAre ==
    ASSUME NEW V
    PROVE  \A a, k, b \in Seq(V) :
           LET l == (a \o k) \o b
           IN  /\ l \in Seq(V) /\ Len(l) = Len(a) + Len(k) + Len(b)
               /\ Len(a) \in Nat /\ Len(k) \in Nat /\ Len(b) \in Nat
               /\ DOMAIN l = 1..Len(l)
               /\ \A j \in 1..Len(a) : l[j] = a[j]
               /\ \A j \in 1..Len(k) : l[Len(a) + j] = k[j]
               /\ \A j \in 1..Len(b) : l[Len(a) + Len(k) + j] = b[j]
<1> TAKE a, k, b \in Seq(V)
<1> DEFINE ak == a \o k
           l == ak \o b
<1>1. /\ ak \in Seq(V) /\ Len(ak) = Len(a) + Len(k)
      /\ Len(a) \in Nat /\ Len(k) \in Nat
      /\ \A i \in 1..(Len(a) + Len(k)) : ak[i] = IF i <= Len(a) THEN a[i] ELSE k[i - Len(a)]
  BY ConcatIs
<1> HIDE DEF ak
<1>2. /\ l \in Seq(V) /\ Len(l) = Len(ak) + Len(b) /\ Len(b) \in Nat
      /\ \A i \in 1..(Len(ak) + Len(b)) : l[i] = IF i <= Len(ak) THEN ak[i] ELSE b[i - Len(ak)]
  <2>1. ak \in Seq(V)
    BY <1>1
  <2> QED BY <2>1, ConcatIs
<1>3. DOMAIN l = 1..Len(l)
  BY <1>2, LenProperties
<1> HIDE DEF l
<1>4. ASSUME NEW j \in 1..Len(a) PROVE l[j] = a[j]
  <2>1. j \in 1..(Len(a) + Len(k)) /\ j <= Len(a) /\ j <= Len(ak) /\ j \in 1..(Len(ak) + Len(b))
    BY <1>1, <1>2
  <2> QED BY <1>1, <1>2, <2>1
<1>5. ASSUME NEW j \in 1..Len(k) PROVE l[Len(a) + j] = k[j]
  <2> DEFINE i == Len(a) + j
  <2>1. i \in 1..(Len(a) + Len(k)) /\ ~(i <= Len(a)) /\ i <= Len(ak) /\ i \in 1..(Len(ak) + Len(b))
        /\ i - Len(a) = j
    BY <1>1, <1>2
  <2> HIDE DEF i
  <2>2. l[i] = k[j]
    BY <1>1, <1>2, <2>1
  <2> QED BY <2>2 DEF i
<1>6. ASSUME NEW j \in 1..Len(b) PROVE l[Len(a) + Len(k) + j] = b[j]
  <2> DEFINE i == Len(a) + Len(k) + j
  <2>1. ~(i <= Len(ak)) /\ i \in 1..(Len(ak) + Len(b)) /\ i - Len(ak) = j
    BY <1>1, <1>2
  <2> HIDE DEF i
  <2>2. l[i] = b[j]
    BY <1>2, <2>1
  <2> QED BY <2>2 DEF i
<1>7. Len(l) = Len(a) + Len(k) + Len(b)
  BY <1>1, <1>2
<1> QED BY <1>1, <1>2, <1>3, <1>4, <1>5, <1>6, <1>7 DEF l, ak

HasParts(l, a, k, b) ==
    /\ SubSeq(l, 1, Len(a)) = a
    /\ SubSeq(l, Len(a) + 1, Len(a) + Len(k)) = k
    /\ SubSeq(l, 1, Len(a) + Len(k)) = a \o k
    /\ SubSeq(l, Len(a) + Len(k) + 1, Len(l)) = b

(* ... and the parts, taken out again.                                     *)
LEMMA PartsBack ==
    ASSUME NEW V
    PROVE  \A a, k, b \in Seq(V) : HasParts((a \o k) \o b, a, k, b)
<1> TAKE a, k, b \in Seq(V)
<1> DEFINE l == (a \o k) \o b
<1>1. /\ l \in Seq(V) /\ Len(l) = Len(a) + Len(k) + Len(b)
      /\ Len(a) \in Nat /\ Len(k) \in Nat /\ Len(b) \in Nat
      /\ \A j \in 1..Len(a) : l[j] = a[j]
      /\ \A j \in 1..Len(k) : l[Len(a) + j] = k[j]
      /\ \A j \in 1..Len(b) : l[Len(a) + Len(k) + j] = b[j]
  BY PartsAre
<1>2. /\ a \o k \in Seq(V) /\ Len(a \o k) = Len(a) + Len(k)
      /\ \A j \in 1..(Len(a) + Len(k)) : (a \o k)[j] = IF j <= Len(a) THEN a[j] ELSE k[j - Len(a)]
  BY ConcatIs
<1> HIDE DEF l
<1>3. SubSeq(l, 1, Len(a)) = a
  <2>1. \A j \in 1..Len(a) : l[1 + j - 1] = a[j]
    BY <1>1
  <2>2. 1 \in Nat /\ 1 >= 1 /\ Len(a) <= Len(l) /\ Len(a) = Len(a) - 1 + 1
    BY <1>1
  <2> QED BY <1>1, <2>1, <2>2, SliceIs
<1>4. SubSeq(l, Len(a) + 1, Len(a) + Len(k)) = k
  <2> DEFINE m == Len(a) + 1
             n == Len(a) + Len(k)
  <2>1. \A j \in 1..Len(k) : l[m + j - 1] = k[j]
    <3>1. \A j \in 1..Len(k) : m + j - 1 = Len(a) + j
      BY <1>1
    <3> QED BY <1>1, <3>1
  <2>2. m \in Nat /\ n \in Nat /\ m >= 1 /\ n <= Len(l) /\ Len(k) = n - m + 1
    BY <1>1
  <2> HIDE DEF m, n
  <2>3. SubSeq(l, m, n) = k
    BY <1>1, <2>1, <2>2, SliceIs
  <2> QED BY <2>3 DEF m, n
<1>5. SubSeq(l, 1, Len(a) + Len(k)) = a \o k
  <2> DEFINE n == Len(a) + Len(k)
             ak == a \o k
  <2>1. ASSUME NEW j \in 1..n PROVE l[1 + j - 1] = ak[j]
    <3>1. 1 + j - 1 = j
      BY <1>1
    <3>2. CASE j <= Len(a)
      <4>1. j \in 1..Len(a)
        BY <1>1, <3>2
      <4> QED BY <1>1, <1>2, <3>1, <3>2, <4>1
    <3>3. CASE ~(j <= Len(a))
      <4>1. j - Len(a) \in 1..Len(k) /\ Len(a) + (j - Len(a)) = j
        BY <1>1, <3>3
      <4>2. l[j] = k[j - Len(a)]
        BY <1>1, <4>1
      <4> QED BY <1>2, <3>1, <3>3, <4>2
    <3> QED BY <3>2, <3>3
  <2>2. /\ n \in Nat /\ 1 >= 1 /\ 1 \in Nat /\ n <= Len(l)
        /\ Len(ak) = n - 1 + 1 /\ ak \in Seq(V) /\ Len(ak) = n
    BY <1>1, <1>2
  <2> HIDE DEF n, ak
  <2>3. SubSeq(l, 1, n) = ak
    BY <1>1, <2>1, <2>2, SliceIs
  <2> QED BY <2>3 DEF n, ak
<1>6. SubSeq(l, Len(a) + Len(k) + 1, Len(l)) = b
  <2> DEFINE m == Len(a) + Len(k) + 1
             n == Len(l)
  <2>1. \A j \in 1..Len(b) : l[m + j - 1] = b[j]
    <3>1. \A j \in 1..Len(b) : m + j - 1 = Len(a) + Len(k) + j
      BY <1>1
    <3> QED BY <1>1, <3>1
  <2>2. m \in Nat /\ n \in Nat /\ m >= 1 /\ n <= Len(l) /\ Len(b) = n - m + 1
    BY <1>1
  <2> HIDE DEF m, n
  <2>3. SubSeq(l, m, n) = b
    BY <1>1, <2>1, <2>2, SliceIs
  <2> QED BY <2>3 DEF m, n
<1> QED BY <1>3, <1>4, <1>5, <1>6 DEF l, HasParts
==============================================================================
