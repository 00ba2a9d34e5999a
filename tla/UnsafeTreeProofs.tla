-------------------------- MODULE UnsafeTreeProofs --------------------------
(***************************************************************************)
(* The safety invariants of UnsafeTree for any numbers of nodes and of     *)
(* tree objects: links agree, trees are rooted and own what they should,   *)
(* cached extrema do not dangle.  "move" \notin Wild leaves out the moves  *)
(* of a subtree under its own root, which the code does not reject.        *)
(***************************************************************************)
EXTENDS UnsafeTree, NodeProofs

-----------------------------------------------------------------------------
(* Copying a subtree.                                                      *)

(* A copy knows the copies of what its original knows.                     *)
LEMMA CopiesAre ==
    ASSUME NEW h \in Heap, NEW X, NEW r, IsTree(h, X, r), NEW from \in X,
           NEW copy \in [Subtree(h, from) -> Node],
           \A m, n \in Subtree(h, from) : copy[m] = copy[n] => m = n
    PROVE  LET g == Copies(h, from, copy)
               S == Subtree(h, from)
           IN  /\ g \in Heap
               /\ \A m \in Node : (\A n \in S : copy[n] # m) => g[m] = h[m]
               /\ \A n \in S :
                    /\ g[copy[n]].parent = IF n = from THEN Null ELSE copy[h[n].parent]
                    /\ g[copy[n]].index = IF n = from THEN 0 ELSE h[n].index
                    /\ g[copy[n]].children =
                         [i \in DOMAIN h[n].children |-> copy[h[n].children[i]]]
<1> DEFINE S == Subtree(h, from)
           g == Copies(h, from, copy)
           above(n) == CHOOSE p \in S : n \in Children(h, p)
           place(n) == CHOOSE i \in DOMAIN h[above(n)].children : h[above(n)].children[i] = n
           parent(n) == IF n = from THEN Null ELSE copy[above(n)]
           index(n) == IF n = from THEN 0 ELSE place(n) - 1
           children(n) == [i \in DOMAIN h[n].children |-> copy[h[n].children[i]]]
           image(n) == [parent |-> parent(n), index |-> index(n), children |-> children(n)]
           origin(m) == CHOOSE n \in S : copy[n] = m
           R == [parent : Node \union {Null}, index : Nat, children : Seq(Node)]
<1>1. /\ X \subseteq Node /\ from \in S /\ S \subseteq X
      /\ \A m \in S \ {from} : h[m].parent \in S
      /\ \A m \in S : Children(h, m) \subseteq S
  BY SubtreeParents DEF IsTree
<1>2. DOMAIN copy = S /\ \A n \in S : copy[n] \in Node
  OBVIOUS
<1>3. g = [m \in Node |-> IF \E n \in S : copy[n] = m THEN image(origin(m)) ELSE h[m]]
  BY <1>2 DEF Copies
<1>4. ASSUME NEW n \in S PROVE origin(copy[n]) = n
  OBVIOUS
<1>5. ASSUME NEW n \in S \ {from} PROVE above(n) = h[n].parent /\ place(n) = h[n].index + 1
  <2>1. /\ h[n].parent \in S /\ h[n].index \in Nat
        /\ h[n].index + 1 \in DOMAIN h[h[n].parent].children
        /\ h[h[n].parent].children[h[n].index + 1] = n
    <3>1. n # r
      BY <1>1, ParentIsOutside
    <3> QED BY <1>1, <3>1, HeapFields DEF IsTree
  <2>2. n \in Children(h, h[n].parent)
    BY <1>1, <2>1, InChildren
  <2>3. \A p \in S : n \in Children(h, p) => p = h[n].parent
    BY <1>1, InChildren DEF IsTree
  <2>4. above(n) = h[n].parent
    <3> HIDE DEF S
    <3> QED BY <2>1, <2>2, <2>3
  <2>5. \A i \in DOMAIN h[h[n].parent].children :
          h[h[n].parent].children[i] = n => i = h[n].index + 1
    <3> SUFFICES ASSUME NEW i \in DOMAIN h[h[n].parent].children,
                        h[h[n].parent].children[i] = n
                 PROVE  i = h[n].index + 1
      OBVIOUS
    <3>1. h[n].index = i - 1 /\ i \in Nat
      BY <1>1, <2>1, HeapFields DEF IsTree
    <3> QED BY <3>1
  <2> HIDE DEF above
  <2> QED BY <2>1, <2>4, <2>5
<1>6. ASSUME NEW n \in S PROVE parent(n) \in Node \union {Null} /\ index(n) \in Nat
  <2>1. h[n].index \in Nat
    BY <1>1, HeapFields
  <2> HIDE DEF above, place
  <2> QED BY <1>1, <1>2, <1>5, <2>1
<1>7. ASSUME NEW n \in S PROVE children(n) \in Seq(Node)
  <2>1. DOMAIN h[n].children = 1..Len(h[n].children) /\ Len(h[n].children) \in Nat
    BY <1>1, HeapFields
  <2>2. \A i \in DOMAIN h[n].children : copy[h[n].children[i]] \in Node
    BY <1>1, <1>2, InChildren
  <2> QED BY <2>1, <2>2
<1> HIDE DEF g, above, place
<1>8. ASSUME NEW n \in S PROVE g[copy[n]] = image(n)
  <2> HIDE DEF image, origin, S
  <2> QED BY <1>2, <1>3, <1>4
<1>9. \A m \in Node : (\A n \in S : copy[n] # m) => g[m] = h[m]
  <2> HIDE DEF image, origin, S
  <2> QED BY <1>3
<1>10. g \in Heap
  <2>1. \A n \in S : image(n) \in R
    <3> HIDE DEF parent, index, children
    <3> QED BY <1>6, <1>7
  <2>2. \A m \in Node : h[m] \in R
    BY DEF Heap
  <2>3. \A m \in Node : g[m] \in R
    <3> HIDE DEF image, R, S
    <3> QED BY <1>8, <1>9, <2>1, <2>2
  <2>4. g = [m \in Node |-> g[m]]
    <3> HIDE DEF image, origin
    <3> QED BY <1>3
  <2> QED BY <2>3, <2>4 DEF Heap
<1>11. ASSUME NEW n \in S
       PROVE  /\ g[copy[n]].parent = IF n = from THEN Null ELSE copy[h[n].parent]
              /\ g[copy[n]].index = IF n = from THEN 0 ELSE h[n].index
              /\ g[copy[n]].children = children(n)
  <2>1. h[n].index \in Nat
    BY <1>1, HeapFields
  <2> HIDE DEF S
  <2>2. parent(n) = (IF n = from THEN Null ELSE copy[h[n].parent])
    BY <1>5
  <2>3. index(n) = IF n = from THEN 0 ELSE h[n].index
    BY <1>5, <2>1
  <2> HIDE DEF parent, index, children
  <2>4. g[copy[n]] = image(n)
    BY <1>8
  <2> QED BY <2>2, <2>3, <2>4
<1> QED BY <1>9, <1>10, <1>11 DEF g

LEMMA CopyIsTree ==
    ASSUME NEW h \in Heap, NEW X, NEW r, IsTree(h, X, r), NEW from \in X,
           NEW copy \in [Subtree(h, from) -> Node],
           \A m, n \in Subtree(h, from) : copy[m] = copy[n] => m = n
    PROVE  IsTree(Copies(h, from, copy), {copy[n] : n \in Subtree(h, from)}, copy[from])
<1> DEFINE S == Subtree(h, from)
           g == Copies(h, from, copy)
           Z == {copy[n] : n \in S}
           c == copy[from]
<1>1. /\ X \subseteq Node /\ from \in S /\ S \subseteq X
      /\ \A m \in S \ {from} : h[m].parent \in S
      /\ \A m \in S : Children(h, m) \subseteq S
      /\ \A m \in S : \A i \in DOMAIN h[m].children :
           /\ h[m].children[i] \in S
           /\ h[h[m].children[i]].parent = m /\ h[h[m].children[i]].index = i - 1
      /\ \A m \in S \ {from} :
           /\ h[m].index + 1 \in DOMAIN h[h[m].parent].children
           /\ h[h[m].parent].children[h[m].index + 1] = m
  <2>1. /\ X \subseteq Node /\ from \in S /\ S \subseteq X
        /\ \A m \in S \ {from} : h[m].parent \in S
        /\ \A m \in S : Children(h, m) \subseteq S
    BY SubtreeParents DEF IsTree
  <2>2. r \notin S \ {from}
    BY ParentIsOutside
  <2>3. \A m \in S : \A i \in DOMAIN h[m].children :
           /\ h[m].children[i] \in S
           /\ h[h[m].children[i]].parent = m /\ h[h[m].children[i]].index = i - 1
    BY <2>1, InChildren DEF IsTree
  <2>4. \A m \in S \ {from} :
           /\ h[m].index + 1 \in DOMAIN h[h[m].parent].children
           /\ h[h[m].parent].children[h[m].index + 1] = m
    BY <2>1, <2>2 DEF IsTree
  <2> QED BY <2>1, <2>3, <2>4
<1>2. /\ g \in Heap
      /\ \A n \in S :
           /\ g[copy[n]].parent = (IF n = from THEN Null ELSE copy[h[n].parent])
           /\ g[copy[n]].index = (IF n = from THEN 0 ELSE h[n].index)
           /\ g[copy[n]].children = [i \in DOMAIN h[n].children |-> copy[h[n].children[i]]]
  BY CopiesAre
<1>3. \A n \in S : copy[n] \in Node
  OBVIOUS
<1> HIDE DEF g, S
<1>4. ASSUME NEW n \in S, NEW i \in DOMAIN g[copy[n]].children
      PROVE  /\ i \in DOMAIN h[n].children
             /\ g[copy[n]].children[i] = copy[h[n].children[i]]
  <2>1. g[copy[n]].children = [j \in DOMAIN h[n].children |-> copy[h[n].children[j]]]
    BY <1>2
  <2> QED BY <2>1
<1>6. from \in S /\ \A n \in S : \A i \in DOMAIN h[n].children : h[n].children[i] # from
  <2> SUFFICES ASSUME NEW n \in S, NEW i \in DOMAIN h[n].children, h[n].children[i] = from
               PROVE  FALSE
    BY <1>1
  <2>1. h[from].parent = n /\ n \in S /\ n # Null
    BY <1>1, NodeAssumption
  <2> QED BY <2>1, ParentIsOutside DEF IsTree, S
<1>7. \A m \in Z : \A i \in DOMAIN g[m].children :
        /\ g[m].children[i] \in Z
        /\ g[g[m].children[i]].parent = m /\ g[g[m].children[i]].index = i - 1
  <2> SUFFICES ASSUME NEW n \in S, NEW i \in DOMAIN g[copy[n]].children
               PROVE  /\ g[copy[n]].children[i] \in Z
                      /\ g[g[copy[n]].children[i]].parent = copy[n]
                      /\ g[g[copy[n]].children[i]].index = i - 1
    OBVIOUS
  <2> DEFINE k == h[n].children[i]
  <2>1. k \in S /\ k # from /\ h[k].parent = n /\ h[k].index = i - 1
        /\ g[copy[n]].children[i] = copy[k]
    BY <1>1, <1>4, <1>6
  <2> HIDE DEF k
  <2>2. copy[k] \in Z
    BY <2>1
  <2>3. g[copy[k]].parent = copy[h[k].parent] /\ g[copy[k]].index = h[k].index
    BY <1>2, <2>1
  <2> QED BY <2>1, <2>2, <2>3
<1>8. \A m \in Z \ {c} :
        /\ g[m].parent \in Z /\ g[m].index + 1 \in DOMAIN g[g[m].parent].children
        /\ g[g[m].parent].children[g[m].index + 1] = m
  <2> SUFFICES ASSUME NEW n \in S, n # from
               PROVE  /\ g[copy[n]].parent \in Z
                      /\ g[copy[n]].index + 1 \in DOMAIN g[g[copy[n]].parent].children
                      /\ g[g[copy[n]].parent].children[g[copy[n]].index + 1] = copy[n]
    OBVIOUS
  <2>1. /\ h[n].parent \in S /\ h[n].index + 1 \in DOMAIN h[h[n].parent].children
        /\ h[h[n].parent].children[h[n].index + 1] = n
    BY <1>1
  <2>2. g[copy[n]].parent = copy[h[n].parent] /\ g[copy[n]].index = h[n].index
    BY <1>2
  <2>3. g[copy[h[n].parent]].children
          = [i \in DOMAIN h[h[n].parent].children |-> copy[h[h[n].parent].children[i]]]
    BY <1>2, <2>1
  <2> DEFINE q == h[n].parent
             k == h[n].index + 1
  <2>4. /\ q \in S /\ k \in DOMAIN h[q].children /\ h[q].children[k] = n
        /\ g[copy[n]].parent = copy[q] /\ g[copy[n]].index + 1 = k
        /\ g[copy[q]].children = [i \in DOMAIN h[q].children |-> copy[h[q].children[i]]]
    BY <2>1, <2>2, <2>3
  <2> HIDE DEF q, k
  <2>5. k \in DOMAIN g[copy[q]].children /\ g[copy[q]].children[k] = copy[n]
    BY <2>4
  <2> QED BY <2>4, <2>5
<1>9. Z \subseteq Subtree(g, c)
  <2> DEFINE W == {n \in S : copy[n] \in Subtree(g, c)}
  <2>1. from \in W
    BY <1>1, <1>2, <1>3, SubtreeIn
  <2>2. ASSUME NEW n \in W, NEW k \in Children(h, n) PROVE k \in W
    <3>0. n \in S /\ n \in Node /\ copy[n] \in Node /\ copy[n] \in Subtree(g, c) /\ c \in Node
      BY <1>1, <1>3
    <3>1. PICK i \in DOMAIN h[n].children : h[n].children[i] = k
      BY <3>0, <2>2, InChildren
    <3>2. i \in DOMAIN g[copy[n]].children /\ g[copy[n]].children[i] = copy[k]
      <4>1. g[copy[n]].children = [j \in DOMAIN h[n].children |-> copy[h[n].children[j]]]
        BY <1>2, <3>0
      <4> QED BY <3>1, <4>1
    <3>3. copy[k] \in Children(g, copy[n])
      BY <1>2, <3>0, <3>2, InChildren
    <3>4. copy[k] \in Subtree(g, c)
      BY <1>2, <3>0, <3>3, SubtreeClosed
    <3> QED BY <1>1, <3>0, <3>1, <3>4
  <2>3. S \subseteq W
    <3> HIDE DEF W
    <3> QED BY <1>1, <2>1, <2>2, SubtreeLeast DEF S
  <2> QED BY <2>3
<1>10. IsTree(g, Z, c)
  <2>1. Z \subseteq Node /\ c \in Z
    BY <1>1, <1>3
  <2>2. g[c].parent = Null
    BY <1>1, <1>2
  <2> HIDE DEF Z, c
  <2> QED BY <1>2, <1>7, <1>8, <1>9, <2>1, <2>2, TreeIs
<1> QED BY <1>10 DEF g, S

-----------------------------------------------------------------------------
(* The inductive invariant: every tree object owns one tree of the heap,   *)
(* or nothing, and what nobody owns is fresh.                              *)

Owned(h, X, r, lm, rm) ==
    IF r = Null THEN X = {} /\ lm = Null /\ rm = Null
    ELSE IsTree(h, X, r) /\ lm \in X /\ rm \in X

Owns(t) == Owned(heap, Nodes(t), root[t], leftmost[t], rightmost[t])
FreeAreFresh == \A n \in FreeNodes : heap[n] = FreshNode
DeadAreEmpty == \A t \in Tree \ live : root[t] = Null

IInv == TypeOK /\ FreeAreFresh /\ DeadAreEmpty /\ \A t \in Tree : Owns(t)

LEMMA OwnedFrame ==
    ASSUME NEW h \in Heap, NEW g \in Heap, NEW X, NEW r, NEW lm, NEW rm,
           Owned(h, X, r, lm, rm), \A n \in X : g[n] = h[n]
    PROVE  Owned(g, X, r, lm, rm)
BY TreeFrame DEF Owned

(* A step keeps the invariant if it keeps the types, leaves fresh what is  *)
(* free, and builds trees for the tree objects of T, the only ones whose   *)
(* nodes and pointers it changes.                                          *)
LEMMA StepKeepsIInv ==
    ASSUME IInv, TypeOK', NEW T \in SUBSET Tree,
           \A n \in Node : store'[n] = Null => heap'[n] = FreshNode,
           \A t \in Tree \ live' : root'[t] = Null,
           \A t \in T : Owned(heap', Nodes(t)', root'[t], leftmost'[t], rightmost'[t]),
           \A t \in Tree \ T :
             /\ root'[t] = root[t] /\ leftmost'[t] = leftmost[t] /\ rightmost'[t] = rightmost[t]
             /\ Nodes(t)' = Nodes(t)
             /\ \A n \in Nodes(t) : heap'[n] = heap[n]
    PROVE  IInv'
<1>1. FreeAreFresh' /\ DeadAreEmpty'
  BY DEF FreeAreFresh, DeadAreEmpty, FreeNodes
<1>2. ASSUME NEW t \in Tree PROVE Owns(t)'
  <2>1. CASE t \in T
    BY <2>1 DEF Owns
  <2>2. CASE t \notin T
    <3>1. Owned(heap, Nodes(t), root[t], leftmost[t], rightmost[t])
      BY DEF IInv, Owns
    <3>2. heap \in Heap /\ heap' \in Heap
      BY DEF IInv, TypeOK
    <3>3. \A n \in Nodes(t) : heap'[n] = heap[n]
      BY <2>2
    <3>4. Owned(heap', Nodes(t), root[t], leftmost[t], rightmost[t])
      <4> DEFINE X == Nodes(t)
      <4> HIDE DEF X
      <4> QED BY <3>1, <3>2, <3>3, OwnedFrame DEF X
    <3> QED BY <2>2, <3>4 DEF Owns
  <2> QED BY <2>1, <2>2
<1> QED BY <1>1, <1>2 DEF IInv

(* What the invariant says of one tree object.                             *)
LEMMA OwnerIs ==
    ASSUME IInv, NEW n \in Node, NEW t, store[n] = t, t # Null
    PROVE  /\ t \in live /\ t \in Tree /\ n \in Nodes(t) /\ root[t] # Null /\ root[t] \in Nodes(t)
           /\ IsTree(heap, Nodes(t), root[t])
           /\ leftmost[t] \in Nodes(t) /\ rightmost[t] \in Nodes(t)
<1>1. t \in live /\ t \in Tree /\ n \in Nodes(t)
  BY DEF IInv, TypeOK, Nodes
<1>2. Owned(heap, Nodes(t), root[t], leftmost[t], rightmost[t])
  BY <1>1 DEF IInv, Owns
<1> QED BY <1>1, <1>2 DEF Owned, IsTree

LEMMA LiveIs ==
    ASSUME IInv, NEW t \in Tree
    PROVE  /\ heap \in Heap /\ Nodes(t) \subseteq Node /\ t # Null
           /\ root[t] = Null => Nodes(t) = {} /\ leftmost[t] = Null /\ rightmost[t] = Null
           /\ root[t] # Null => /\ IsTree(heap, Nodes(t), root[t])
                                /\ leftmost[t] \in Nodes(t) /\ rightmost[t] \in Nodes(t)
           /\ t \notin live => root[t] = Null /\ Nodes(t) = {}
<1>1. Owned(heap, Nodes(t), root[t], leftmost[t], rightmost[t])
  BY DEF IInv, Owns
<1>2. heap \in Heap /\ t # Null /\ Nodes(t) \subseteq Node
  BY TreeAssumption DEF IInv, TypeOK, Nodes
<1>3. t \notin live => root[t] = Null
  BY DEF IInv, DeadAreEmpty
<1> QED BY <1>1, <1>2, <1>3 DEF Owned

LEMMA InitIInv == Init => IInv
<1> SUFFICES ASSUME Init PROVE IInv
  OBVIOUS
<1>1. heap \in Heap
  <2>1. FreshNode \in [parent : Node \union {Null}, index : Nat, children : Seq(Node)]
    BY EmptySeq DEF FreshNode
  <2> QED BY <2>1 DEF Init, Heap
<1>2. TypeOK
  BY <1>1 DEF Init, TypeOK
<1>3. \A t \in Tree : Nodes(t) = {} /\ root[t] = Null /\ leftmost[t] = Null /\ rightmost[t] = Null
  BY TreeAssumption DEF Init, Nodes
<1>4. \A t \in Tree : Owns(t)
  BY <1>3 DEF Owns, Owned
<1>5. FreeAreFresh /\ DeadAreEmpty
  BY <1>3 DEF Init, FreeAreFresh, FreeNodes, DeadAreEmpty
<1> QED BY <1>2, <1>4, <1>5 DEF IInv

-----------------------------------------------------------------------------
(* Construction, assignment, destruction.                                  *)

LEMMA ConstructKeeps == ASSUME IInv, NEW t \in Tree, Construct(t) PROVE IInv'
<1>1. TypeOK'
  BY DEF IInv, TypeOK, Construct, pointers
<1>2. \A n \in Node : store'[n] = Null => heap'[n] = FreshNode
  BY DEF IInv, FreeAreFresh, FreeNodes, Construct
<1>3. \A u \in Tree \ live' : root'[u] = Null
  BY DEF IInv, DeadAreEmpty, Construct, pointers
<1>4. \A u \in Tree :
             /\ root'[u] = root[u] /\ leftmost'[u] = leftmost[u] /\ rightmost'[u] = rightmost[u]
             /\ Nodes(u)' = Nodes(u)
             /\ \A n \in Nodes(u) : heap'[n] = heap[n]
  BY DEF Construct, pointers, Nodes
<1> DEFINE T == {}
<1>5. T \in SUBSET Tree /\ \A u \in T : FALSE
  OBVIOUS
<1> HIDE DEF T
<1> QED BY <1>1, <1>2, <1>3, <1>4, <1>5, StepKeepsIInv

LEMMA StealKeeps ==
    ASSUME IInv, NEW t \in Tree, NEW u \in Tree, t # u, u \in live, Steal(t, u),
           live' = live \union {t} \/ (t \in live /\ live' = live \ {u})
    PROVE  IInv'
<1>1. /\ heap \in Heap /\ t # Null /\ u # Null
      /\ store \in [Node -> live \union {Null}] /\ live \subseteq Tree
      /\ root \in [Tree -> Node \union {Null}]
      /\ leftmost \in [Tree -> Node \union {Null}]
      /\ rightmost \in [Tree -> Node \union {Null}]
  BY LiveIs DEF IInv, TypeOK
<1>2. /\ heap' \in Heap
      /\ \A n \in Node \ Nodes(t) : heap'[n] = heap[n]
      /\ \A n \in Node \intersect Nodes(t) : heap'[n] = FreshNode
  BY <1>1, FreeIs DEF Steal
<1>3. /\ store' = [n \in Node |-> IF store[n] = t THEN Null
                                  ELSE IF store[n] = u THEN t ELSE store[n]]
      /\ root' = [root EXCEPT ![t] = root[u], ![u] = Null]
      /\ leftmost' = [leftmost EXCEPT ![t] = leftmost[u], ![u] = Null]
      /\ rightmost' = [rightmost EXCEPT ![t] = rightmost[u], ![u] = Null]
  BY DEF Steal
<1>4. TypeOK'
  BY <1>1, <1>2, <1>3 DEF TypeOK
<1>5. /\ Nodes(t)' = Nodes(u) /\ Nodes(u)' = {}
      /\ \A v \in Tree \ {t, u} : Nodes(v)' = Nodes(v)
  BY <1>1, <1>3, TreeAssumption DEF Nodes
<1>6. \A n \in Node : store'[n] = Null => heap'[n] = FreshNode
  BY <1>1, <1>2, <1>3 DEF IInv, FreeAreFresh, FreeNodes, Nodes
<1>7. \A v \in Tree \ live' : root'[v] = Null
  BY <1>1, <1>3 DEF IInv, DeadAreEmpty
<1>8. \A v \in Tree \ {t} : \A n \in Nodes(v) : heap'[n] = heap[n]
  BY <1>2 DEF Nodes
<1>9. Owned(heap', Nodes(t)', root'[t], leftmost'[t], rightmost'[t])
  <2>1. Owned(heap, Nodes(u), root[u], leftmost[u], rightmost[u])
    BY DEF IInv, Owns
  <2>2. Owned(heap', Nodes(u), root[u], leftmost[u], rightmost[u])
    BY <1>1, <1>2, <1>8, <2>1, OwnedFrame
  <2> QED BY <1>1, <1>3, <1>5, <2>2
<1>10. Owned(heap', Nodes(u)', root'[u], leftmost'[u], rightmost'[u])
  BY <1>1, <1>3, <1>5 DEF Owned
<1>11. \A v \in Tree \ {t, u} :
         root'[v] = root[v] /\ leftmost'[v] = leftmost[v] /\ rightmost'[v] = rightmost[v]
  BY <1>1, <1>3
<1> DEFINE T == {t, u}
<1>12. T \in SUBSET Tree
  OBVIOUS
<1>13. \A v \in T : Owned(heap', Nodes(v)', root'[v], leftmost'[v], rightmost'[v])
  BY <1>9, <1>10
<1>14. \A v \in Tree \ T :
             /\ root'[v] = root[v] /\ leftmost'[v] = leftmost[v] /\ rightmost'[v] = rightmost[v]
             /\ Nodes(v)' = Nodes(v)
             /\ \A n \in Nodes(v) : heap'[n] = heap[n]
  BY <1>5, <1>8, <1>11
<1> HIDE DEF T
<1> QED BY <1>4, <1>6, <1>7, <1>12, <1>13, <1>14, StepKeepsIInv

(* Clear and the destructor.                                               *)
LEMMA EmptyKeeps ==
    ASSUME IInv, NEW t \in Tree, Destroyed(Nodes(t)), SetPointers(t, Null, Null, Null),
           live' \in {live, live \ {t}}
    PROVE  IInv'
<1>1. /\ heap \in Heap /\ t # Null
      /\ store \in [Node -> live \union {Null}] /\ live \subseteq Tree
      /\ root \in [Tree -> Node \union {Null}]
      /\ leftmost \in [Tree -> Node \union {Null}]
      /\ rightmost \in [Tree -> Node \union {Null}]
  BY LiveIs DEF IInv, TypeOK
<1>2. /\ heap' \in Heap
      /\ \A n \in Node \ Nodes(t) : heap'[n] = heap[n]
      /\ \A n \in Node \intersect Nodes(t) : heap'[n] = FreshNode
  BY <1>1, FreeIs DEF Destroyed
<1>3. /\ store' = [n \in Node |-> IF n \in Nodes(t) THEN Null ELSE store[n]]
      /\ root' = [root EXCEPT ![t] = Null]
      /\ leftmost' = [leftmost EXCEPT ![t] = Null]
      /\ rightmost' = [rightmost EXCEPT ![t] = Null]
  BY DEF Destroyed, Give, SetPointers
<1>4. TypeOK'
  BY <1>1, <1>2, <1>3 DEF TypeOK, Nodes
<1>5. Nodes(t)' = {} /\ \A v \in Tree \ {t} : Nodes(v)' = Nodes(v)
  BY <1>1, <1>3, TreeAssumption DEF Nodes
<1>6. \A n \in Node : store'[n] = Null => heap'[n] = FreshNode
  BY <1>1, <1>2, <1>3 DEF IInv, FreeAreFresh, FreeNodes, Nodes
<1>7. \A v \in Tree \ live' : root'[v] = Null
  BY <1>1, <1>3 DEF IInv, DeadAreEmpty
<1> DEFINE T == {t}
<1>8. T \in SUBSET Tree
  OBVIOUS
<1>9. \A v \in T : Owned(heap', Nodes(v)', root'[v], leftmost'[v], rightmost'[v])
  BY <1>1, <1>3, <1>5 DEF Owned
<1>10. \A v \in Tree \ T :
             /\ root'[v] = root[v] /\ leftmost'[v] = leftmost[v] /\ rightmost'[v] = rightmost[v]
             /\ Nodes(v)' = Nodes(v)
             /\ \A n \in Nodes(v) : heap'[n] = heap[n]
  BY <1>1, <1>2, <1>3, <1>5 DEF Nodes
<1> HIDE DEF T
<1> QED BY <1>4, <1>6, <1>7, <1>8, <1>9, <1>10, StepKeepsIInv

LEMMA SwapKeeps == ASSUME IInv, NEW t \in Tree, NEW u \in Tree, Swap(t, u) PROVE IInv'
<1>1. /\ heap \in Heap /\ t # Null /\ u # Null /\ t # u /\ t \in live /\ u \in live
      /\ store \in [Node -> live \union {Null}] /\ live \subseteq Tree
      /\ root \in [Tree -> Node \union {Null}]
      /\ leftmost \in [Tree -> Node \union {Null}]
      /\ rightmost \in [Tree -> Node \union {Null}]
  BY LiveIs DEF IInv, TypeOK, Swap
<1>2. /\ heap' = heap /\ live' = live
      /\ store' = [n \in Node |-> IF store[n] = t THEN u
                                  ELSE IF store[n] = u THEN t ELSE store[n]]
      /\ root' = [root EXCEPT ![t] = root[u], ![u] = root[t]]
      /\ leftmost' = [leftmost EXCEPT ![t] = leftmost[u], ![u] = leftmost[t]]
      /\ rightmost' = [rightmost EXCEPT ![t] = rightmost[u], ![u] = rightmost[t]]
  BY DEF Swap
<1>3. TypeOK'
  BY <1>1, <1>2 DEF TypeOK
<1>4. /\ Nodes(t)' = Nodes(u) /\ Nodes(u)' = Nodes(t)
      /\ \A v \in Tree \ {t, u} : Nodes(v)' = Nodes(v)
  BY <1>1, <1>2 DEF Nodes
<1>5. \A n \in Node : store'[n] = Null => heap'[n] = FreshNode
  BY <1>1, <1>2 DEF IInv, FreeAreFresh, FreeNodes
<1>6. \A v \in Tree \ live' : root'[v] = Null
  BY <1>1, <1>2 DEF IInv, DeadAreEmpty
<1>7. /\ Owned(heap, Nodes(u), root[u], leftmost[u], rightmost[u])
      /\ Owned(heap, Nodes(t), root[t], leftmost[t], rightmost[t])
  BY DEF IInv, Owns
<1>8. /\ Owned(heap', Nodes(t)', root'[t], leftmost'[t], rightmost'[t])
      /\ Owned(heap', Nodes(u)', root'[u], leftmost'[u], rightmost'[u])
  BY <1>1, <1>2, <1>4, <1>7
<1> DEFINE T == {t, u}
<1>9. T \in SUBSET Tree
  OBVIOUS
<1>10. \A v \in T : Owned(heap', Nodes(v)', root'[v], leftmost'[v], rightmost'[v])
  BY <1>8
<1>11. \A v \in Tree \ T :
             /\ root'[v] = root[v] /\ leftmost'[v] = leftmost[v] /\ rightmost'[v] = rightmost[v]
             /\ Nodes(v)' = Nodes(v)
             /\ \A n \in Nodes(v) : heap'[n] = heap[n]
  BY <1>1, <1>2, <1>4
<1> HIDE DEF T
<1> QED BY <1>3, <1>5, <1>6, <1>9, <1>10, <1>11, StepKeepsIInv

(* Copying, whatever place the new nodes are allocated at.                 *)
LEMMA CopyKeeps ==
    ASSUME IInv, NEW t \in Tree, NEW from \in Node, store[from] # Null, store[from] # t,
           CopyContents(t, from), live' = live \union {t}
    PROVE  IInv'
<1> DEFINE v == store[from]
           X == Nodes(v)
           cleared == Free(heap, Nodes(t))
           S == Subtree(heap, from)
<1>1. /\ heap \in Heap /\ t # Null
      /\ store \in [Node -> live \union {Null}] /\ live \subseteq Tree
      /\ root \in [Tree -> Node \union {Null}]
      /\ leftmost \in [Tree -> Node \union {Null}]
      /\ rightmost \in [Tree -> Node \union {Null}]
  BY LiveIs DEF IInv, TypeOK
<1>2. PICK copy \in [S -> FreeNodes \union Nodes(t)] :
        /\ \A m, n \in S : copy[m] = copy[n] => m = n
        /\ heap' = Copies(cleared, from, copy)
        /\ store' = [n \in Node |-> IF \E m \in S : copy[m] = n THEN t
                                    ELSE IF store[n] = t THEN Null ELSE store[n]]
        /\ SetPointers(t, copy[from], LeftmostChildOrThis(heap', copy[from]),
                                      RightmostChildOrThis(heap', copy[from]))
  BY DEF CopyContents
<1>3. /\ cleared \in Heap
      /\ \A n \in Node \ Nodes(t) : cleared[n] = heap[n]
      /\ \A n \in Node \intersect Nodes(t) : cleared[n] = FreshNode
  BY <1>1, FreeIs
<1>4. /\ from \in X /\ X \subseteq Node /\ IsTree(heap, X, root[v])
      /\ v \in Tree
  BY OwnerIs DEF Nodes
<1>5. \A n \in X : n \in Node \ Nodes(t)
  BY DEF Nodes
<1>6. IsTree(cleared, X, root[v]) /\ Subtree(cleared, from) = S
  <2> HIDE DEF cleared, X, v
  <2>1. \A n \in X : cleared[n] = heap[n]
    BY <1>3, <1>5
  <2>2. IsTree(cleared, X, root[v])
    BY <1>1, <1>3, <1>4, <2>1, TreeFrame
  <2>3. Subtree(cleared, from) = S
    BY <1>1, <1>3, <1>4, <2>1, SubtreeFrame
  <2> QED BY <2>2, <2>3
<1>7. from \in S /\ S \subseteq Node
  BY <1>1, SubtreeIn
<1> DEFINE Z == {copy[n] : n \in S}
<1>8. copy \in [S -> Node] /\ copy[from] \in Z /\ Z \subseteq Node
      /\ \A n \in Z : n \in FreeNodes \/ n \in Nodes(t)
  BY <1>2, <1>7 DEF FreeNodes, Nodes
<1>9. /\ heap' \in Heap
      /\ \A m \in Node \ Z : heap'[m] = cleared[m]
      /\ IsTree(heap', Z, copy[from])
  <2> HIDE DEF cleared, X, v, S
  <2>1. \A m, n \in Subtree(cleared, from) : copy[m] = copy[n] => m = n
    BY <1>2, <1>6
  <2>2. copy \in [Subtree(cleared, from) -> Node]
    BY <1>6, <1>8
  <2>3. /\ Copies(cleared, from, copy) \in Heap
        /\ \A m \in Node : (\A n \in Subtree(cleared, from) : copy[n] # m)
                             => Copies(cleared, from, copy)[m] = cleared[m]
    BY <1>3, <1>4, <1>6, <2>1, <2>2, CopiesAre
  <2>4. IsTree(Copies(cleared, from, copy), {copy[n] : n \in Subtree(cleared, from)}, copy[from])
    BY <1>3, <1>4, <1>6, <2>1, <2>2, CopyIsTree
  <2> QED BY <1>2, <1>6, <2>3, <2>4
<1>10. /\ root' = [root EXCEPT ![t] = copy[from]]
       /\ leftmost' = [leftmost EXCEPT ![t] = LeftmostChildOrThis(heap', copy[from])]
       /\ rightmost' = [rightmost EXCEPT ![t] = RightmostChildOrThis(heap', copy[from])]
  BY <1>2 DEF SetPointers
<1>11. store' = [n \in Node |-> IF n \in Z THEN t ELSE IF store[n] = t THEN Null ELSE store[n]]
  BY <1>2
<1> HIDE DEF Z, cleared
<1>12. /\ Nodes(t)' = Z
       /\ \A w \in Tree \ {t} : Nodes(w)' = Nodes(w)
       /\ \A w \in Tree \ {t} : \A n \in Nodes(w) : n \notin Z /\ n \notin Nodes(t)
  <2>1. \A w \in Tree \ {t} : \A n \in Nodes(w) : n \notin Z /\ n \notin Nodes(t)
    BY <1>8, TreeAssumption DEF FreeNodes, Nodes
  <2>2. Nodes(t)' = Z
    BY <1>1, <1>8, <1>11 DEF Nodes
  <2>3. \A w \in Tree \ {t} : Nodes(w)' = Nodes(w)
    BY <1>1, <1>11, <2>1, TreeAssumption DEF Nodes
  <2> QED BY <2>1, <2>2, <2>3
<1>13. /\ LeftmostChildOrThis(heap', copy[from]) \in Z
       /\ RightmostChildOrThis(heap', copy[from]) \in Z
  <2>1. \A m \in Z : Children(heap', m) \subseteq Z
    BY <1>9, TreeClosed
  <2> QED BY <1>8, <1>9, <2>1, LeftmostChildOrThisStays, RightmostChildOrThisStays
<1>14. TypeOK'
  BY <1>1, <1>8, <1>9, <1>10, <1>11, <1>13 DEF TypeOK
<1>15. \A n \in Node : store'[n] = Null => heap'[n] = FreshNode
  BY <1>1, <1>3, <1>9, <1>11 DEF IInv, FreeAreFresh, FreeNodes, Nodes
<1>16. \A w \in Tree \ live' : root'[w] = Null
  BY <1>1, <1>10 DEF IInv, DeadAreEmpty
<1> DEFINE T == {t}
<1>17. T \in SUBSET Tree
  OBVIOUS
<1>18. \A w \in T : Owned(heap', Nodes(w)', root'[w], leftmost'[w], rightmost'[w])
  <2>1. root'[t] = copy[from] /\ copy[from] # Null
    BY <1>1, <1>8, <1>10, NodeAssumption
  <2>2. leftmost'[t] \in Z /\ rightmost'[t] \in Z
    BY <1>1, <1>10, <1>13
  <2> QED BY <1>9, <1>12, <2>1, <2>2 DEF Owned
<1>19. \A w \in Tree \ T :
             /\ root'[w] = root[w] /\ leftmost'[w] = leftmost[w] /\ rightmost'[w] = rightmost[w]
             /\ Nodes(w)' = Nodes(w)
             /\ \A n \in Nodes(w) : heap'[n] = heap[n]
  <2> SUFFICES ASSUME NEW w \in Tree, w # t
               PROVE  /\ root'[w] = root[w] /\ leftmost'[w] = leftmost[w]
                      /\ rightmost'[w] = rightmost[w] /\ Nodes(w)' = Nodes(w)
                      /\ \A n \in Nodes(w) : heap'[n] = heap[n]
    OBVIOUS
  <2>1. \A n \in Nodes(w) : n \in Node /\ n \notin Z /\ n \notin Nodes(t)
    BY <1>12 DEF Nodes
  <2>2. \A n \in Nodes(w) : heap'[n] = heap[n]
    BY <1>3, <1>9, <2>1
  <2>3. Nodes(w)' = Nodes(w)
    BY <1>12
  <2> QED BY <1>1, <1>10, <2>2, <2>3
<1> HIDE DEF T
<1> QED BY <1>14, <1>15, <1>16, <1>17, <1>18, <1>19, StepKeepsIInv

-----------------------------------------------------------------------------
(* The operations on nodes and subtrees.                                   *)

LEMMA EmplaceKeeps ==
    ASSUME IInv, NEW t \in Tree, NEW where \in Node, NEW n \in Node, Emplace(t, where, n)
    PROVE  IInv'
<1> DEFINE X == Nodes(t)
           r == root[t]
<1>1. /\ heap \in Heap /\ t # Null /\ store[where] = t /\ n \in FreeNodes
      /\ store \in [Node -> live \union {Null}] /\ live \subseteq Tree
      /\ root \in [Tree -> Node \union {Null}]
      /\ leftmost \in [Tree -> Node \union {Null}]
      /\ rightmost \in [Tree -> Node \union {Null}]
  BY LiveIs DEF IInv, TypeOK, Emplace
<1>2. /\ t \in live /\ where \in X /\ r # Null /\ IsTree(heap, X, r)
      /\ leftmost[t] \in X /\ rightmost[t] \in X
  BY <1>1, OwnerIs
<1>3. n \notin X /\ X \subseteq Node /\ n # where /\ IsTree(heap, {n}, n)
  <2>1. heap[n] = FreshNode
    BY <1>1 DEF IInv, FreeAreFresh
  <2>2. n \notin X /\ X \subseteq Node
    BY <1>1 DEF FreeNodes, Nodes
  <2> QED BY <1>1, <1>2, <2>1, <2>2, FreshIsTree
<1>4. IsTree(InsertChild(heap, where, n), X \union {n}, r)
  <2> DEFINE Y == {n}
  <2>1. X \intersect Y = {} /\ IsTree(heap, Y, n)
    BY <1>3
  <2> HIDE DEF X, Y, r
  <2>2. IsTree(InsertChild(heap, where, n), X \union Y, r)
    BY <1>1, <1>2, <2>1, InsertKeepsTrees
  <2> QED BY <2>2 DEF Y
<1>5. /\ heap' \in Heap /\ heap' = InsertChild(heap, where, n)
      /\ \A m \in Node \ {where, n} : heap'[m] = heap[m]
  <2>1. /\ InsertChild(heap, where, n) \in Heap
        /\ \A m \in Node \ {where, n} : InsertChild(heap, where, n)[m] = heap[m]
    BY <1>1, <1>3, InsertChildIs
  <2>2. heap' = InsertChild(heap, where, n)
    BY DEF Emplace
  <2> QED BY <2>1, <2>2
<1>6. /\ live' = live
      /\ store' = [m \in Node |-> IF m = n THEN t ELSE store[m]]
      /\ root' = [root EXCEPT ![t] = root[t]]
      /\ leftmost' = [leftmost EXCEPT ![t] =
           IF EmplacingChangesLeftmost(t, where) THEN n ELSE leftmost[t]]
      /\ rightmost' = [rightmost EXCEPT ![t] =
           IF EmplacingChangesRightmost(t, where) THEN n ELSE rightmost[t]]
  BY DEF Emplace, Give, SetExtrema, SetPointers
<1>7. TypeOK'
  BY <1>1, <1>2, <1>3, <1>5, <1>6 DEF TypeOK
<1>8. Nodes(t)' = X \union {n} /\ \A u \in Tree \ {t} : Nodes(u)' = Nodes(u)
  BY <1>1, <1>6, TreeAssumption DEF Nodes, FreeNodes
<1>9. \A m \in Node : store'[m] = Null => heap'[m] = FreshNode
  BY <1>1, <1>5, <1>6 DEF IInv, FreeAreFresh, FreeNodes
<1>10. \A u \in Tree \ live' : root'[u] = Null
  BY <1>1, <1>2, <1>6 DEF IInv, DeadAreEmpty
<1> DEFINE T == {t}
<1>11. T \in SUBSET Tree
  OBVIOUS
<1>12. \A u \in T : Owned(heap', Nodes(u)', root'[u], leftmost'[u], rightmost'[u])
  <2>1. root'[t] = r /\ leftmost'[t] \in X \union {n} /\ rightmost'[t] \in X \union {n}
    BY <1>1, <1>2, <1>6
  <2> QED BY <1>2, <1>4, <1>5, <1>8, <2>1 DEF Owned
<1>13. \A u \in Tree \ T :
             /\ root'[u] = root[u] /\ leftmost'[u] = leftmost[u] /\ rightmost'[u] = rightmost[u]
             /\ Nodes(u)' = Nodes(u)
             /\ \A m \in Nodes(u) : heap'[m] = heap[m]
  <2> SUFFICES ASSUME NEW u \in Tree, u # t
               PROVE  /\ root'[u] = root[u] /\ leftmost'[u] = leftmost[u]
                      /\ rightmost'[u] = rightmost[u] /\ Nodes(u)' = Nodes(u)
                      /\ \A m \in Nodes(u) : heap'[m] = heap[m]
    OBVIOUS
  <2>1. \A m \in Nodes(u) : m \in Node \ {where, n}
    BY <1>1, TreeAssumption DEF Nodes, FreeNodes
  <2> QED BY <1>1, <1>5, <1>6, <1>8, <2>1
<1> HIDE DEF T
<1> QED BY <1>7, <1>9, <1>10, <1>11, <1>12, <1>13, StepKeepsIInv

LEMMA EmplaceRootKeeps ==
    ASSUME IInv, NEW t \in Tree, NEW n \in Node, EmplaceRoot(t, n)
    PROVE  IInv'
<1> DEFINE X == Nodes(t)
           r == root[t]
           old == IF r = Null THEN {} ELSE X
<1>1. /\ heap \in Heap /\ t # Null /\ t \in live /\ n \in FreeNodes
      /\ store \in [Node -> live \union {Null}] /\ live \subseteq Tree
      /\ root \in [Tree -> Node \union {Null}]
      /\ leftmost \in [Tree -> Node \union {Null}]
      /\ rightmost \in [Tree -> Node \union {Null}]
  BY LiveIs DEF IInv, TypeOK, EmplaceRoot
<1>2. n \notin X /\ X \subseteq Node /\ n # Null /\ IsTree(heap, {n}, n)
  <2>1. heap[n] = FreshNode
    BY <1>1 DEF IInv, FreeAreFresh
  <2>2. n \notin X /\ X \subseteq Node
    BY <1>1 DEF FreeNodes, Nodes
  <2> QED BY <1>1, <2>1, <2>2, FreshIsTree, NodeAssumption
<1>3. /\ live' = live
      /\ store' = [m \in Node |-> IF m = n THEN t ELSE store[m]]
  BY DEF EmplaceRoot, Give
<1>4. Nodes(t)' = X \union {n} /\ \A u \in Tree \ {t} : Nodes(u)' = Nodes(u)
  BY <1>1, <1>3, TreeAssumption DEF Nodes, FreeNodes
(* The old root, if there is one, becomes the child of the new one.        *)
<1>5. /\ heap' \in Heap
      /\ \A m \in Node \ (X \union {n}) : heap'[m] = heap[m]
      /\ IsTree(heap', X \union {n}, n)
      /\ root' = [root EXCEPT ![t] = n]
      /\ \E lm, rm \in X \union {n} : /\ leftmost' = [leftmost EXCEPT ![t] = lm]
                                      /\ rightmost' = [rightmost EXCEPT ![t] = rm]
  <2>1. CASE r = Null
    <3>1. /\ heap' = heap /\ root' = [root EXCEPT ![t] = n]
          /\ leftmost' = [leftmost EXCEPT ![t] = n] /\ rightmost' = [rightmost EXCEPT ![t] = n]
      BY <2>1 DEF EmplaceRoot, SetPointers
    <3>2. X = {}
      BY <2>1, LiveIs
    <3>3. X \union {n} = {n}
      BY <3>2
    <3> QED BY <1>1, <1>2, <3>1, <3>3
  <2>2. CASE r # Null
    <3>1. /\ heap' = InsertChild(heap, n, r) /\ root' = [root EXCEPT ![t] = n]
          /\ leftmost' = [leftmost EXCEPT ![t] = leftmost[t]]
          /\ rightmost' = [rightmost EXCEPT ![t] = rightmost[t]]
      BY <2>2 DEF EmplaceRoot, SetPointers
    <3>2. IsTree(heap, X, r) /\ leftmost[t] \in X /\ rightmost[t] \in X /\ r \in X
      BY <2>2, LiveIs DEF IsTree
    <3> DEFINE Y == {n}
    <3>3. n \in Y /\ Y \intersect X = {} /\ IsTree(heap, Y, n)
      BY <1>2
    <3>4. IsTree(InsertChild(heap, n, r), Y \union X, n)
      <4> HIDE DEF X, Y, r
      <4> QED BY <1>1, <3>2, <3>3, InsertKeepsTrees
    <3>5. Y \union X = X \union {n}
      OBVIOUS
    <3>6. heap' \in Heap /\ \A m \in Node \ {n, r} : heap'[m] = heap[m]
      <4>1. r \in Node /\ r # n
        BY <1>2, <3>2
      <4> HIDE DEF r
      <4>2. /\ InsertChild(heap, n, r) \in Heap
            /\ \A m \in Node \ {n, r} : InsertChild(heap, n, r)[m] = heap[m]
        BY <1>1, <4>1, InsertChildIs
      <4> QED BY <3>1, <4>2
    <3> HIDE DEF X, Y
    <3> QED BY <3>1, <3>2, <3>4, <3>5, <3>6
  <2> QED BY <2>1, <2>2
<1>6. PICK lm \in X \union {n}, rm \in X \union {n} :
        /\ leftmost' = [leftmost EXCEPT ![t] = lm]
        /\ rightmost' = [rightmost EXCEPT ![t] = rm]
  BY <1>5
<1>7. TypeOK'
  BY <1>1, <1>2, <1>3, <1>5, <1>6 DEF TypeOK
<1>8. \A m \in Node : store'[m] = Null => heap'[m] = FreshNode
  <2> SUFFICES ASSUME NEW m \in Node, store'[m] = Null PROVE heap'[m] = FreshNode
    OBVIOUS
  <2>1. m # n /\ store[m] = Null
    BY <1>1, <1>3
  <2>2. m \notin X
    BY <1>1, <2>1 DEF Nodes
  <2>3. heap[m] = FreshNode
    BY <2>1 DEF IInv, FreeAreFresh, FreeNodes
  <2> QED BY <1>5, <2>1, <2>2, <2>3
<1>9. \A u \in Tree \ live' : root'[u] = Null
  BY <1>1, <1>3, <1>5 DEF IInv, DeadAreEmpty
<1> DEFINE T == {t}
<1>10. T \in SUBSET Tree
  OBVIOUS
<1>11. \A u \in T : Owned(heap', Nodes(u)', root'[u], leftmost'[u], rightmost'[u])
  <2>1. root'[t] = n /\ leftmost'[t] = lm /\ rightmost'[t] = rm
    BY <1>1, <1>5, <1>6
  <2> QED BY <1>2, <1>4, <1>5, <2>1 DEF Owned
<1>12. \A u \in Tree \ T :
             /\ root'[u] = root[u] /\ leftmost'[u] = leftmost[u] /\ rightmost'[u] = rightmost[u]
             /\ Nodes(u)' = Nodes(u)
             /\ \A m \in Nodes(u) : heap'[m] = heap[m]
  <2> SUFFICES ASSUME NEW u \in Tree, u # t
               PROVE  /\ root'[u] = root[u] /\ leftmost'[u] = leftmost[u]
                      /\ rightmost'[u] = rightmost[u] /\ Nodes(u)' = Nodes(u)
                      /\ \A m \in Nodes(u) : heap'[m] = heap[m]
    OBVIOUS
  <2>1. \A m \in Nodes(u) : m \in Node \ (X \union {n})
    BY <1>1, TreeAssumption DEF Nodes, FreeNodes
  <2> QED BY <1>1, <1>4, <1>5, <1>6, <2>1
<1> HIDE DEF T
<1> QED BY <1>7, <1>8, <1>9, <1>10, <1>11, <1>12, StepKeepsIInv

LEMMA AdoptKeeps ==
    ASSUME IInv, NEW t \in Tree, NEW where \in Node, NEW u \in Tree, Adopt(t, where, u)
    PROVE  IInv'
<1> DEFINE X == Nodes(t)
           Y == Nodes(u)
           r == root[t]
           c == root[u]
<1>1. /\ heap \in Heap /\ t # Null /\ u # Null /\ store[where] = t /\ u \in live /\ u # t
      /\ c # Null
      /\ store \in [Node -> live \union {Null}] /\ live \subseteq Tree
      /\ root \in [Tree -> Node \union {Null}]
      /\ leftmost \in [Tree -> Node \union {Null}]
      /\ rightmost \in [Tree -> Node \union {Null}]
  BY LiveIs DEF IInv, TypeOK, Adopt
<1>2. /\ t \in live /\ where \in X /\ r # Null /\ IsTree(heap, X, r)
      /\ leftmost[t] \in X /\ rightmost[t] \in X
  BY <1>1, OwnerIs
<1>3. /\ IsTree(heap, Y, c) /\ leftmost[u] \in Y /\ rightmost[u] \in Y
      /\ Y = Subtree(heap, c) /\ c \in Y
  BY <1>1, LiveIs DEF IsTree
<1>4. X \intersect Y = {} /\ X \subseteq Node /\ Y \subseteq Node /\ c # where
  BY <1>1, <1>2, <1>3 DEF Nodes
<1>5. IsTree(InsertChild(heap, where, c), X \union Y, r)
  <2> HIDE DEF X, Y, r, c
  <2> QED BY <1>1, <1>2, <1>3, <1>4, InsertKeepsTrees
<1>6. /\ InsertChild(heap, where, c) \in Heap
      /\ \A m \in Node \ {where, c} : InsertChild(heap, where, c)[m] = heap[m]
  BY <1>1, <1>3, <1>4, InsertChildIs
<1>7. Nodes(u) \ Subtree(heap, root[u]) = {}
  BY <1>3
<1>8. heap' = Free(InsertChild(heap, where, c), {})
  BY <1>7 DEF Adopt
<1>9. /\ heap' \in Heap
      /\ \A m \in Node : heap'[m] = InsertChild(heap, where, c)[m]
  BY <1>6, <1>8, FreeIs
<1>10. IsTree(heap', X \union Y, r)
  BY <1>4, <1>5, <1>6, <1>9, TreeFrame
<1>11. /\ live' = live
       /\ store' = [n \in Node |-> IF n \in Y THEN t ELSE store[n]]
       /\ root' = [root EXCEPT ![u] = Null]
       /\ leftmost' = [leftmost EXCEPT ![u] = Null,
            ![t] = IF EmplacingChangesLeftmost(t, where) THEN leftmost[u] ELSE @]
       /\ rightmost' = [rightmost EXCEPT ![u] = Null,
            ![t] = IF EmplacingChangesRightmost(t, where) THEN rightmost[u] ELSE @]
  BY <1>3 DEF Adopt
<1>12. TypeOK'
  BY <1>1, <1>2, <1>3, <1>9, <1>11 DEF TypeOK
<1>13. /\ Nodes(t)' = X \union Y /\ Nodes(u)' = {}
       /\ \A v \in Tree \ {t, u} : Nodes(v)' = Nodes(v)
  BY <1>1, <1>11, TreeAssumption DEF Nodes
<1>14. \A m \in Node : store'[m] = Null => heap'[m] = FreshNode
  <2> SUFFICES ASSUME NEW m \in Node, store'[m] = Null PROVE heap'[m] = FreshNode
    OBVIOUS
  <2>1. m \notin Y /\ store[m] = Null
    BY <1>1, <1>11
  <2>2. m # where /\ m # c
    BY <1>1, <1>3, <2>1
  <2>3. heap[m] = FreshNode
    BY <2>1 DEF IInv, FreeAreFresh, FreeNodes
  <2> QED BY <1>6, <1>9, <2>2, <2>3
<1>15. \A v \in Tree \ live' : root'[v] = Null
  BY <1>1, <1>11 DEF IInv, DeadAreEmpty
<1> DEFINE T == {t, u}
<1>16. T \in SUBSET Tree
  OBVIOUS
<1>17. \A v \in T : Owned(heap', Nodes(v)', root'[v], leftmost'[v], rightmost'[v])
  <2>1. root'[t] = r /\ leftmost'[t] \in X \union Y /\ rightmost'[t] \in X \union Y
    BY <1>1, <1>2, <1>3, <1>11
  <2>2. root'[u] = Null /\ leftmost'[u] = Null /\ rightmost'[u] = Null
    BY <1>1, <1>11
  <2>3. Owned(heap', Nodes(t)', root'[t], leftmost'[t], rightmost'[t])
    BY <1>2, <1>10, <1>13, <2>1 DEF Owned
  <2>4. Owned(heap', Nodes(u)', root'[u], leftmost'[u], rightmost'[u])
    BY <1>13, <2>2 DEF Owned
  <2> QED BY <2>3, <2>4
<1>18. \A v \in Tree \ T :
             /\ root'[v] = root[v] /\ leftmost'[v] = leftmost[v] /\ rightmost'[v] = rightmost[v]
             /\ Nodes(v)' = Nodes(v)
             /\ \A m \in Nodes(v) : heap'[m] = heap[m]
  <2> SUFFICES ASSUME NEW v \in Tree, v # t, v # u
               PROVE  /\ root'[v] = root[v] /\ leftmost'[v] = leftmost[v]
                      /\ rightmost'[v] = rightmost[v] /\ Nodes(v)' = Nodes(v)
                      /\ \A m \in Nodes(v) : heap'[m] = heap[m]
    OBVIOUS
  <2>1. \A m \in Nodes(v) : m \in Node \ {where, c}
    BY <1>1, <1>3 DEF Nodes
  <2> QED BY <1>1, <1>6, <1>9, <1>11, <1>13, <2>1
<1> HIDE DEF T
<1> QED BY <1>12, <1>14, <1>15, <1>16, <1>17, <1>18, StepKeepsIInv

(* What chop_subtree, erase_subtree and move_subtree know of s: its        *)
(* subtree S, that the cached extrema are in S when they are dropped, and  *)
(* the two trees that taking s out leaves.                                 *)
LEMMA RemovalIs ==
    ASSUME IInv, NEW t \in Tree, NEW s \in Node, store[s] = t, s # root[t]
    PROVE  LET X == Nodes(t)
               S == Subtree(heap, s)
               p == heap[s].parent
               g == RemoveChild(heap, p, heap[s].index)
           IN  /\ t \in live /\ t # Null /\ root[t] # Null /\ root[t] \in X \ S
               /\ X \subseteq Node /\ s \in S /\ S \subseteq X /\ p \in X \ S
               /\ leftmost[t] \in X /\ rightmost[t] \in X
               /\ IsTree(heap, X, root[t])
               /\ \A n \in X : InSubtree(n, s) <=> n \in S
               /\ g \in Heap /\ \A n \in Node \ X : g[n] = heap[n]
               /\ IsTree(g, X \ S, root[t]) /\ IsTree(ClearParentMetadata(g, s), S, s)
<1> DEFINE X == Nodes(t)
           r == root[t]
           S == Subtree(heap, s)
           p == heap[s].parent
           g == RemoveChild(heap, p, heap[s].index)
<1>1. heap \in Heap /\ t # Null
  BY LiveIs
<1>2. /\ t \in live /\ s \in X /\ r # Null /\ IsTree(heap, X, r) /\ r \in X
      /\ leftmost[t] \in X /\ rightmost[t] \in X
  BY <1>1, OwnerIs
<1>3. X \subseteq Node /\ s \in X \ {r}
  BY <1>2 DEF Nodes
<1> HIDE DEF X, r
<1>4. s \in S /\ S \subseteq X
  BY <1>1, <1>2, SubtreeParents
<1>5. r \notin S /\ p \in X \ S
  BY <1>1, <1>2, <1>3, ParentIsOutside
<1>6. \A n \in X : InSubtree(n, s) <=> n \in S
  BY <1>1, <1>2, TreeUnder DEF InSubtree, IsUnder
<1>7. /\ g \in Heap /\ \A n \in Node \ X : g[n] = heap[n]
      /\ IsTree(g, X \ S, r) /\ IsTree(ClearParentMetadata(g, s), S, s)
  <2>1. g \in Heap
    BY <1>1, <1>2, <1>3, DetachKeepsTrees
  <2>2. SameOutside(g, heap, X)
    BY <1>1, <1>2, <1>3, DetachKeepsTrees
  <2>3. IsTree(g, X \ S, r)
    BY <1>1, <1>2, <1>3, DetachKeepsTrees
  <2>4. IsTree(ClearParentMetadata(g, s), S, s)
    BY <1>1, <1>2, <1>3, DetachKeepsTrees
  <2> QED BY <2>1, <2>2, <2>3, <2>4 DEF SameOutside
<1> HIDE DEF S, p, g
<1>8. /\ t \in live /\ t # Null /\ r # Null /\ r \in X \ S
      /\ X \subseteq Node /\ s \in S /\ S \subseteq X /\ p \in X \ S
      /\ leftmost[t] \in X /\ rightmost[t] \in X
      /\ IsTree(heap, X, r)
  BY <1>1, <1>2, <1>3, <1>4, <1>5
<1> QED BY <1>6, <1>7, <1>8 DEF X, r, S, p, g

LEMMA ChopKeeps ==
    ASSUME IInv, NEW t \in Tree, NEW s \in Node, NEW u \in Tree, Chop(t, s, u)
    PROVE  IInv'
<1> DEFINE X == Nodes(t)
           r == root[t]
           S == Subtree(heap, s)
           p == heap[s].parent
           g == RemoveChild(heap, p, heap[s].index)
           f == ClearParentMetadata(g, s)
<1>1. /\ heap \in Heap /\ t # Null /\ u # Null /\ store[s] = t /\ s # r /\ u \notin live
      /\ store \in [Node -> live \union {Null}] /\ live \subseteq Tree
      /\ root \in [Tree -> Node \union {Null}]
      /\ leftmost \in [Tree -> Node \union {Null}]
      /\ rightmost \in [Tree -> Node \union {Null}]
  <2>1. t # Null /\ u # Null
    BY LiveIs
  <2>2. store[s] = t /\ s # r /\ u \notin live
    BY DEF Chop
  <2> QED BY <2>1, <2>2 DEF IInv, TypeOK
<1>2. /\ t \in live /\ r # Null /\ r \in X \ S
      /\ X \subseteq Node /\ s \in S /\ S \subseteq X /\ p \in X \ S
      /\ leftmost[t] \in X /\ rightmost[t] \in X
      /\ IsTree(heap, X, r)
      /\ \A n \in X : InSubtree(n, s) <=> n \in S
      /\ g \in Heap /\ \A n \in Node \ X : g[n] = heap[n]
      /\ IsTree(g, X \ S, r) /\ IsTree(f, S, s)
  <2>1. store[s] = t /\ s # root[t]
    BY <1>1
  <2> HIDE DEF X, S, r
  <2> QED BY <2>1, RemovalIs DEF X, S, r
<1>3. /\ heap' = f /\ live' = live \union {u}
      /\ store' = [n \in Node |-> IF n \in S THEN u ELSE store[n]]
      /\ root' = [root EXCEPT ![u] = s]
      /\ leftmost' = IF DropsLeftmost(t, s)
            THEN [leftmost EXCEPT ![t] = p, ![u] = leftmost[t]]
            ELSE [leftmost EXCEPT ![u] = LeftmostChildOrThis(heap, s)]
      /\ rightmost' = IF DropsRightmost(t, s)
            THEN [rightmost EXCEPT ![t] = p, ![u] = rightmost[t]]
            ELSE [rightmost EXCEPT ![u] = RightmostChildOrThis(heap, s)]
  BY DEF Chop, Give
<1> HIDE DEF g
<1>4. f \in Heap /\ \A n \in Node \ {s} : f[n] = g[n]
  BY <1>2, ClearMetadataIs
<1> HIDE DEF f, p
<1>5. IsTree(f, X \ S, r)
  <2> DEFINE Z == X \ S
  <2>1. \A n \in Z : f[n] = g[n]
    BY <1>2, <1>4
  <2> HIDE DEF Z
  <2>2. IsTree(f, Z, r)
    BY <1>2, <1>4, <2>1, TreeFrame DEF Z
  <2> QED BY <2>2 DEF Z
<1>6. LeftmostChildOrThis(heap, s) \in S /\ RightmostChildOrThis(heap, s) \in S
  <2>1. S \subseteq Node /\ \A m \in S : Children(heap, m) \subseteq S
    BY <1>1, <1>2, SubtreeParents
  <2> HIDE DEF S
  <2> QED BY <1>1, <1>2, <2>1, LeftmostChildOrThisStays, RightmostChildOrThisStays
<1> HIDE DEF S
<1>7. /\ leftmost' \in [Tree -> Node \union {Null}]
      /\ leftmost'[t] \in X \ S /\ leftmost'[u] \in S
      /\ \A v \in Tree \ {t, u} : leftmost'[v] = leftmost[v]
  <2>1. CASE DropsLeftmost(t, s)
    BY <1>1, <1>2, <1>3, <2>1 DEF DropsLeftmost
  <2>2. CASE ~DropsLeftmost(t, s)
    BY <1>1, <1>2, <1>3, <1>6, <2>2 DEF DropsLeftmost
  <2> QED BY <2>1, <2>2
<1>8. /\ rightmost' \in [Tree -> Node \union {Null}]
      /\ rightmost'[t] \in X \ S /\ rightmost'[u] \in S
      /\ \A v \in Tree \ {t, u} : rightmost'[v] = rightmost[v]
  <2>1. CASE DropsRightmost(t, s)
    BY <1>1, <1>2, <1>3, <2>1 DEF DropsRightmost
  <2>2. CASE ~DropsRightmost(t, s)
    BY <1>1, <1>2, <1>3, <1>6, <2>2 DEF DropsRightmost
  <2> QED BY <2>1, <2>2
<1>9. TypeOK'
  BY <1>1, <1>2, <1>3, <1>4, <1>7, <1>8 DEF TypeOK
<1>10. /\ Nodes(t)' = X \ S /\ Nodes(u)' = S
       /\ \A v \in Tree \ {t, u} : Nodes(v)' = Nodes(v)
  <2>1. Nodes(u) = {}
    BY <1>1, LiveIs
  <2> QED BY <1>1, <1>2, <1>3, <2>1 DEF Nodes
<1>11. \A n \in Node : store'[n] = Null => heap'[n] = FreshNode
  <2> SUFFICES ASSUME NEW n \in Node, store'[n] = Null PROVE heap'[n] = FreshNode
    OBVIOUS
  <2>1. store[n] = Null
    BY <1>1, <1>3
  <2>2. n \notin X /\ n # s /\ heap[n] = FreshNode
    BY <1>1, <1>2, <2>1 DEF IInv, FreeAreFresh, FreeNodes, Nodes
  <2> QED BY <1>2, <1>3, <1>4, <2>2
<1>12. \A v \in Tree \ live' : root'[v] = Null
  BY <1>1, <1>3 DEF IInv, DeadAreEmpty
<1> DEFINE T == {t, u}
<1>13. T \in SUBSET Tree
  OBVIOUS
<1>14. \A v \in T : Owned(heap', Nodes(v)', root'[v], leftmost'[v], rightmost'[v])
  <2>1. root'[t] = r /\ root'[u] = s /\ s # Null
    BY <1>1, <1>2, <1>3, NodeAssumption
  <2>2. Owned(heap', Nodes(t)', root'[t], leftmost'[t], rightmost'[t])
    BY <1>2, <1>3, <1>5, <1>7, <1>8, <1>10, <2>1 DEF Owned
  <2>3. Owned(heap', Nodes(u)', root'[u], leftmost'[u], rightmost'[u])
    BY <1>2, <1>3, <1>7, <1>8, <1>10, <2>1 DEF Owned
  <2> QED BY <2>2, <2>3
<1>15. \A v \in Tree \ T :
             /\ root'[v] = root[v] /\ leftmost'[v] = leftmost[v] /\ rightmost'[v] = rightmost[v]
             /\ Nodes(v)' = Nodes(v)
             /\ \A n \in Nodes(v) : heap'[n] = heap[n]
  <2> SUFFICES ASSUME NEW v \in Tree, v # t, v # u
               PROVE  /\ root'[v] = root[v] /\ leftmost'[v] = leftmost[v]
                      /\ rightmost'[v] = rightmost[v] /\ Nodes(v)' = Nodes(v)
                      /\ \A n \in Nodes(v) : heap'[n] = heap[n]
    OBVIOUS
  <2>1. \A n \in Nodes(v) : n \in Node \ X /\ n # s
    BY <1>1 DEF Nodes
  <2>2. \A n \in Nodes(v) : heap'[n] = heap[n]
    BY <1>2, <1>3, <1>4, <2>1
  <2>3. Nodes(v)' = Nodes(v) /\ leftmost'[v] = leftmost[v] /\ rightmost'[v] = rightmost[v]
    BY <1>7, <1>8, <1>10
  <2> QED BY <1>1, <1>3, <2>2, <2>3
<1> HIDE DEF T
<1> QED BY <1>9, <1>11, <1>12, <1>13, <1>14, <1>15, StepKeepsIInv

(* Taking a set S of nodes out of a tree and destroying them: what         *)
(* erase_subtree and merge_with_parent have in common.                     *)
LEMMA DestroyPartKeeps ==
    ASSUME IInv, NEW t \in Tree, t \in live, root[t] # Null, NEW S \in SUBSET Nodes(t),
           heap' \in Heap, IsTree(heap', Nodes(t) \ S, root[t]),
           \A n \in Node \ Nodes(t) : heap'[n] = heap[n],
           \A n \in S : heap'[n] = FreshNode,
           NEW lm \in Nodes(t) \ S, NEW rm \in Nodes(t) \ S,
           store' = Give(S, Null), SetExtrema(t, lm, rm), live' = live
    PROVE  IInv'
<1> DEFINE X == Nodes(t)
<1>1. /\ heap \in Heap /\ t # Null /\ X \subseteq Node
      /\ store \in [Node -> live \union {Null}] /\ live \subseteq Tree
      /\ root \in [Tree -> Node \union {Null}]
      /\ leftmost \in [Tree -> Node \union {Null}]
      /\ rightmost \in [Tree -> Node \union {Null}]
  BY LiveIs DEF IInv, TypeOK
<1>2. /\ store' = [n \in Node |-> IF n \in S THEN Null ELSE store[n]]
      /\ root' = [root EXCEPT ![t] = root[t]]
      /\ leftmost' = [leftmost EXCEPT ![t] = lm]
      /\ rightmost' = [rightmost EXCEPT ![t] = rm]
  BY DEF Give, SetExtrema, SetPointers
<1>3. TypeOK'
  BY <1>1, <1>2 DEF TypeOK
<1>4. Nodes(t)' = X \ S /\ \A u \in Tree \ {t} : Nodes(u)' = Nodes(u)
  BY <1>1, <1>2, TreeAssumption DEF Nodes
<1>5. \A n \in Node : store'[n] = Null => heap'[n] = FreshNode
  <2> SUFFICES ASSUME NEW n \in Node, store'[n] = Null PROVE heap'[n] = FreshNode
    OBVIOUS
  <2>1. CASE n \in S
    BY <2>1
  <2>2. CASE n \notin S
    <3>1. store[n] = Null /\ n \notin X
      BY <1>1, <1>2, <2>2 DEF Nodes
    <3> QED BY <3>1 DEF IInv, FreeAreFresh, FreeNodes
  <2> QED BY <2>1, <2>2
<1>6. \A u \in Tree \ live' : root'[u] = Null
  BY <1>1, <1>2 DEF IInv, DeadAreEmpty
<1> DEFINE T == {t}
<1>7. T \in SUBSET Tree
  OBVIOUS
<1>8. \A u \in T : Owned(heap', Nodes(u)', root'[u], leftmost'[u], rightmost'[u])
  <2>1. root'[t] = root[t] /\ leftmost'[t] = lm /\ rightmost'[t] = rm
    BY <1>1, <1>2
  <2> QED BY <1>4, <2>1 DEF Owned
<1>9. \A u \in Tree \ T :
             /\ root'[u] = root[u] /\ leftmost'[u] = leftmost[u] /\ rightmost'[u] = rightmost[u]
             /\ Nodes(u)' = Nodes(u)
             /\ \A n \in Nodes(u) : heap'[n] = heap[n]
  <2> SUFFICES ASSUME NEW u \in Tree, u # t
               PROVE  /\ root'[u] = root[u] /\ leftmost'[u] = leftmost[u]
                      /\ rightmost'[u] = rightmost[u] /\ Nodes(u)' = Nodes(u)
                      /\ \A n \in Nodes(u) : heap'[n] = heap[n]
    OBVIOUS
  <2>1. \A n \in Nodes(u) : n \in Node \ X
    BY DEF Nodes
  <2> QED BY <1>1, <1>2, <1>4, <2>1
<1> HIDE DEF T
<1> QED BY <1>3, <1>5, <1>6, <1>7, <1>8, <1>9, StepKeepsIInv

LEMMA EraseKeeps == ASSUME IInv, NEW t \in Tree, NEW s \in Node, Erase(t, s) PROVE IInv'
<1> DEFINE X == Nodes(t)
           r == root[t]
           S == Subtree(heap, s)
           p == heap[s].parent
           g == RemoveChild(heap, p, heap[s].index)
           lm == IF DropsLeftmost(t, s) THEN p ELSE leftmost[t]
           rm == IF DropsRightmost(t, s) THEN p ELSE rightmost[t]
<1>1. /\ store[s] = t /\ s # r /\ live' = live
      /\ heap' = Free(g, S) /\ store' = Give(S, Null) /\ SetExtrema(t, lm, rm)
  BY DEF Erase
<1>2. /\ t \in live /\ t # Null /\ r # Null /\ r \in X \ S
      /\ X \subseteq Node /\ s \in S /\ S \subseteq X /\ p \in X \ S
      /\ leftmost[t] \in X /\ rightmost[t] \in X
      /\ \A n \in X : InSubtree(n, s) <=> n \in S
      /\ g \in Heap /\ \A n \in Node \ X : g[n] = heap[n]
      /\ IsTree(g, X \ S, r)
  BY <1>1, RemovalIs
<1> HIDE DEF g, S, p
<1>3. /\ heap' \in Heap /\ \A n \in Node \ S : heap'[n] = g[n]
      /\ \A n \in S : heap'[n] = FreshNode
  BY <1>1, <1>2, FreeIs
<1>4. IsTree(heap', X \ S, r)
  <2> DEFINE Z == X \ S
  <2>1. \A n \in Z : heap'[n] = g[n]
    BY <1>2, <1>3
  <2> HIDE DEF Z
  <2>2. IsTree(heap', Z, r)
    BY <1>2, <1>3, <2>1, TreeFrame DEF Z
  <2> QED BY <2>2 DEF Z
<1>5. lm \in X \ S /\ rm \in X \ S
  BY <1>2 DEF DropsLeftmost, DropsRightmost
<1>6. \A n \in Node \ X : heap'[n] = heap[n]
  BY <1>2, <1>3
<1> HIDE DEF lm, rm
<1> QED BY <1>1, <1>2, <1>3, <1>4, <1>5, <1>6, DestroyPartKeeps

LEMMA MergeKeeps == ASSUME IInv, NEW t \in Tree, NEW n \in Node, Merge(t, n) PROVE IInv'
<1> DEFINE X == Nodes(t)
           r == root[t]
           p == heap[n].parent
           g == MergeChild(heap, p, heap[n].index)
           lm == IF leftmost[t] = n THEN LeftmostChildOrThis(g, p) ELSE leftmost[t]
           rm == IF rightmost[t] = n THEN RightmostChildOrThis(g, p) ELSE rightmost[t]
<1>1. /\ heap \in Heap /\ t # Null /\ store[n] = t /\ p # Null /\ live' = live
      /\ heap' = Free(g, {n}) /\ store' = Give({n}, Null) /\ SetExtrema(t, lm, rm)
  BY LiveIs DEF Merge
<1>2. /\ t \in live /\ n \in X /\ r # Null /\ IsTree(heap, X, r) /\ X \subseteq Node
      /\ leftmost[t] \in X /\ rightmost[t] \in X
  BY <1>1, OwnerIs DEF IsTree
<1>3. n \in X \ {r} /\ p \in X \ {n}
  <2>1. n # r
    BY <1>1, <1>2 DEF IsTree
  <2>2. n \in Subtree(heap, n) /\ p \in X \ Subtree(heap, n)
    BY <1>1, <1>2, <2>1, ParentIsOutside, SubtreeIn
  <2> QED BY <1>2, <2>1, <2>2
<1>4. /\ g \in Heap
      /\ \A m \in Node \ X : g[m] = heap[m]
      /\ \A m \in X \ {n} : Children(g, m) \subseteq X \ {n}
      /\ IsTree(Free(g, {n}), X \ {n}, r)
  <2>1. SameOutside(g, heap, X)
    <3> HIDE DEF X, r
    <3> QED BY <1>1, <1>2, <1>3, MergeKeepsTrees
  <2>2. /\ g \in Heap
        /\ \A m \in X \ {n} : Children(g, m) \subseteq X \ {n}
        /\ IsTree(Free(g, {n}), X \ {n}, r)
    <3> HIDE DEF X, r
    <3> QED BY <1>1, <1>2, <1>3, MergeKeepsTrees
  <2> QED BY <2>1, <2>2 DEF SameOutside
<1> HIDE DEF g, p
<1>5. lm \in X \ {n} /\ rm \in X \ {n}
  <2> DEFINE Z == X \ {n}
  <2>1. Z \subseteq Node /\ p \in Z /\ \A m \in Z : Children(g, m) \subseteq Z
    BY <1>2, <1>3, <1>4
  <2>2. LeftmostChildOrThis(g, p) \in Z /\ RightmostChildOrThis(g, p) \in Z
    <3> HIDE DEF Z
    <3> QED BY <1>4, <2>1, LeftmostChildOrThisStays, RightmostChildOrThisStays
  <2> QED BY <1>2, <2>2
<1>6. /\ heap' \in Heap /\ \A m \in Node \ {n} : heap'[m] = g[m]
      /\ heap'[n] = FreshNode
  <2> DEFINE S == {n}
  <2>1. /\ Free(g, S) \in Heap /\ \A m \in Node \ S : Free(g, S)[m] = g[m]
        /\ \A m \in Node \intersect S : Free(g, S)[m] = FreshNode
    <3> HIDE DEF S
    <3> QED BY <1>4, FreeIs
  <2> QED BY <1>1, <2>1
<1>7. \A m \in Node \ X : heap'[m] = heap[m]
  BY <1>2, <1>4, <1>6
<1> DEFINE S == {n}
<1>8. /\ S \in SUBSET X /\ IsTree(heap', X \ S, r) /\ store' = Give(S, Null)
      /\ \A m \in S : heap'[m] = FreshNode /\ lm \in X \ S /\ rm \in X \ S
  BY <1>1, <1>2, <1>4, <1>5, <1>6
<1>9. lm \in X \ S /\ rm \in X \ S
  BY <1>5
<1> HIDE DEF lm, rm, S
<1> QED BY <1>1, <1>2, <1>6, <1>7, <1>8, <1>9, DestroyPartKeeps

(* Inserting does not look at the child's own parent and index.            *)
LEMMA InsertForgets ==
    ASSUME NEW h \in Heap, NEW p \in Node, NEW c \in Node, p # c
    PROVE  InsertChild(ClearParentMetadata(h, c), p, c) = InsertChild(h, p, c)
<1> DEFINE k == ClearParentMetadata(h, c)
           a == InsertChild(h, p, c)
           b == InsertChild(k, p, c)
<1>1. /\ k \in Heap /\ k[c].children = h[c].children
      /\ \A n \in Node \ {c} : k[n] = h[n]
  BY ClearMetadataIs
<1> HIDE DEF k
<1>2. /\ a \in Heap
      /\ a[p].children = Append(h[p].children, c)
      /\ \A n \in Node \ {p} : a[n].children = h[n].children
      /\ a[c].parent = p /\ a[c].index = Len(h[p].children)
      /\ \A n \in Node \ {c} : a[n].parent = h[n].parent /\ a[n].index = h[n].index
  BY InsertChildIs
<1>3. /\ b \in Heap
      /\ b[p].children = Append(k[p].children, c)
      /\ \A n \in Node \ {p} : b[n].children = k[n].children
      /\ b[c].parent = p /\ b[c].index = Len(k[p].children)
      /\ \A n \in Node \ {c} : b[n].parent = k[n].parent /\ b[n].index = k[n].index
  BY <1>1, InsertChildIs
<1> HIDE DEF a, b
<1>4. \A n \in Node : k[n].children = h[n].children
  BY <1>1
<1>5. \A n \in Node : b[n].children = a[n].children
  <2>1. b[p].children = a[p].children
    BY <1>2, <1>3, <1>4
  <2>2. \A n \in Node \ {p} : b[n].children = a[n].children
    BY <1>2, <1>3, <1>4
  <2> QED BY <2>1, <2>2
<1>6. \A n \in Node : b[n].parent = a[n].parent /\ b[n].index = a[n].index
  <2>1. b[c].parent = a[c].parent /\ b[c].index = a[c].index
    BY <1>2, <1>3, <1>4
  <2>2. \A n \in Node \ {c} : b[n].parent = a[n].parent /\ b[n].index = a[n].index
    BY <1>1, <1>2, <1>3
  <2> QED BY <2>1, <2>2
<1>7. \A n \in Node : b[n] = a[n]
  BY <1>2, <1>3, <1>5, <1>6, SameFields
<1>8. a = b
  BY <1>2, <1>3, <1>7 DEF Heap
<1> QED BY <1>8 DEF a, b, k

(* Moving a subtree elsewhere in its tree; a destination that is the       *)
(* subtree itself ("move" in Wild) is left out.                            *)
LEMMA MoveKeeps ==
    ASSUME IInv, "move" \notin Wild,
           NEW t \in Tree, NEW where \in Node, NEW s \in Node, Move(t, where, s)
    PROVE  IInv'
<1> DEFINE X == Nodes(t)
           r == root[t]
           S == Subtree(heap, s)
           p == heap[s].parent
           g == RemoveChild(heap, p, heap[s].index)
           f == ClearParentMetadata(g, s)
           dropL == DropsLeftmost(t, s)
           dropR == DropsRightmost(t, s)
           updateL == EmplacingChangesLeftmost(t, where)
           updateR == EmplacingChangesRightmost(t, where)
           lm == CASE ~dropL /\ updateL -> LeftmostChildOrThis(heap', where)
                   [] dropL /\ ~updateL -> LeftmostChildOrThis(heap', p)
                   [] OTHER             -> leftmost[t]
           rm == CASE ~dropR /\ updateR -> RightmostChildOrThis(heap', where)
                   [] dropR /\ ~updateR -> RightmostChildOrThis(heap', p)
                   [] OTHER             -> rightmost[t]
<1>1. /\ heap \in Heap /\ store[s] = t /\ store[where] = t /\ s # r
      /\ where # s /\ ~HasParent(heap, where, s)
      /\ store \in [Node -> live \union {Null}] /\ live \subseteq Tree
      /\ root \in [Tree -> Node \union {Null}]
      /\ leftmost \in [Tree -> Node \union {Null}]
      /\ rightmost \in [Tree -> Node \union {Null}]
  BY LiveIs DEF IInv, TypeOK, Move
<1>2. /\ heap' = InsertChild(g, where, s) /\ SetExtrema(t, lm, rm)
      /\ store' = store /\ live' = live
  BY DEF Move
<1>3. /\ t \in live /\ t # Null /\ r # Null /\ r \in X \ S
      /\ X \subseteq Node /\ s \in S /\ S \subseteq X /\ p \in X \ S
      /\ leftmost[t] \in X /\ rightmost[t] \in X
      /\ \A n \in X : InSubtree(n, s) <=> n \in S
      /\ g \in Heap /\ \A n \in Node \ X : g[n] = heap[n]
      /\ IsTree(g, X \ S, r) /\ IsTree(f, S, s)
  <2>1. store[s] = t /\ s # root[t]
    BY <1>1
  <2> HIDE DEF X, S, r
  <2> QED BY <2>1, RemovalIs DEF X, S, r
<1>4. where \in X \ S
  <2>1. where \in X /\ ~InSubtree(where, s)
    BY <1>1 DEF Nodes, InSubtree
  <2> QED BY <1>3, <2>1
<1> HIDE DEF g, S, p
<1>5. f \in Heap /\ \A n \in Node \ {s} : f[n] = g[n]
  BY <1>3, ClearMetadataIs
<1>6. heap' = InsertChild(f, where, s)
  BY <1>1, <1>2, <1>3, InsertForgets
<1> HIDE DEF f
<1>7. IsTree(f, X \ S, r)
  <2> DEFINE Z == X \ S
  <2>1. \A n \in Z : f[n] = g[n]
    BY <1>3, <1>5
  <2> HIDE DEF Z
  <2>2. IsTree(f, Z, r)
    BY <1>3, <1>5, <2>1, TreeFrame DEF Z
  <2> QED BY <2>2 DEF Z
<1>8. IsTree(heap', X, r)
  <2> DEFINE Z == X \ S
  <2>1. Z \intersect S = {} /\ Z \union S = X
    BY <1>3
  <2>2. where \in Z /\ IsTree(f, Z, r)
    BY <1>4, <1>7
  <2> HIDE DEF Z
  <2>3. IsTree(InsertChild(f, where, s), Z \union S, r)
    BY <1>3, <1>5, <2>1, <2>2, InsertKeepsTrees
  <2> QED BY <1>6, <2>1, <2>3
<1>9. heap' \in Heap /\ \A n \in Node \ X : heap'[n] = heap[n]
  <2>1. /\ InsertChild(f, where, s) \in Heap
        /\ \A n \in Node \ {where, s} : InsertChild(f, where, s)[n] = f[n]
    BY <1>1, <1>5, InsertChildIs
  <2>2. where \in X /\ s \in X
    BY <1>3, <1>4
  <2> QED BY <1>3, <1>5, <1>6, <2>1, <2>2
<1>10. lm \in X /\ rm \in X
  <2>1. \A m \in X : Children(heap', m) \subseteq X
    BY <1>8, <1>9, TreeClosed
  <2>2. \A m \in X : LeftmostChildOrThis(heap', m) \in X /\ RightmostChildOrThis(heap', m) \in X
    <3> HIDE DEF X
    <3> QED BY <1>3, <1>9, <2>1, LeftmostChildOrThisStays, RightmostChildOrThisStays
  <2> HIDE DEF X, dropL, dropR, updateL, updateR
  <2> QED BY <1>3, <1>4, <2>2
<1> HIDE DEF lm, rm
<1>11. /\ root' = [root EXCEPT ![t] = root[t]]
       /\ leftmost' = [leftmost EXCEPT ![t] = lm]
       /\ rightmost' = [rightmost EXCEPT ![t] = rm]
  BY <1>2 DEF SetExtrema, SetPointers
<1>12. TypeOK'
  BY <1>1, <1>2, <1>3, <1>9, <1>10, <1>11 DEF TypeOK
<1>13. \A u \in Tree : Nodes(u)' = Nodes(u)
  BY <1>2 DEF Nodes
<1>14. \A n \in Node : store'[n] = Null => heap'[n] = FreshNode
  <2> SUFFICES ASSUME NEW n \in Node, store'[n] = Null PROVE heap'[n] = FreshNode
    OBVIOUS
  <2>1. n \notin X /\ heap[n] = FreshNode
    BY <1>2, <1>3 DEF IInv, FreeAreFresh, FreeNodes, Nodes
  <2> QED BY <1>9, <2>1
<1>15. \A u \in Tree \ live' : root'[u] = Null
  BY <1>1, <1>2, <1>3, <1>11 DEF IInv, DeadAreEmpty
<1> DEFINE T == {t}
<1>16. T \in SUBSET Tree
  OBVIOUS
<1>17. \A u \in T : Owned(heap', Nodes(u)', root'[u], leftmost'[u], rightmost'[u])
  <2>1. root'[t] = r /\ leftmost'[t] = lm /\ rightmost'[t] = rm
    BY <1>1, <1>11
  <2> QED BY <1>3, <1>8, <1>10, <1>13, <2>1 DEF Owned
<1>18. \A u \in Tree \ T :
             /\ root'[u] = root[u] /\ leftmost'[u] = leftmost[u] /\ rightmost'[u] = rightmost[u]
             /\ Nodes(u)' = Nodes(u)
             /\ \A n \in Nodes(u) : heap'[n] = heap[n]
  <2> SUFFICES ASSUME NEW u \in Tree, u # t
               PROVE  /\ root'[u] = root[u] /\ leftmost'[u] = leftmost[u]
                      /\ rightmost'[u] = rightmost[u] /\ Nodes(u)' = Nodes(u)
                      /\ \A n \in Nodes(u) : heap'[n] = heap[n]
    OBVIOUS
  <2>1. \A n \in Nodes(u) : n \in Node \ X
    BY DEF Nodes
  <2> QED BY <1>1, <1>9, <1>11, <1>13, <2>1
<1> HIDE DEF T
<1> QED BY <1>12, <1>14, <1>15, <1>16, <1>17, <1>18, StepKeepsIInv

-----------------------------------------------------------------------------
(* Every step.                                                             *)

LEMMA OrderKeptKeeps == ASSUME IInv, OrderKept PROVE IInv'
<1> SUFFICES ASSUME NEW t \in Tree,
                    \/ Construct(t) \/ Clear(t) \/ Destroy(t)
                    \/ \E u \in Tree : \/ MoveConstruct(t, u) \/ MoveAssign(t, u)
                                       \/ Swap(t, u) \/ ChopRoot(t, u)
                    \/ \E n \in Node : \/ CopyConstruct(t, n) \/ EmplaceRoot(t, n)
                                       \/ Erase(t, n) \/ Merge(t, n)
                    \/ \E n, m \in Node : Emplace(t, n, m)
                    \/ \E n \in Node, u \in Tree : Chop(t, n, u) \/ Adopt(t, n, u)
             PROVE  IInv'
  BY DEF OrderKept
<1>1. CASE Construct(t)
  BY <1>1, ConstructKeeps
<1>2. CASE Clear(t)
  BY <1>2, EmptyKeeps DEF Clear
<1>3. CASE Destroy(t)
  BY <1>3, EmptyKeeps DEF Destroy
<1>4. ASSUME NEW u \in Tree, NEW w \in Tree, MoveConstruct(u, w) PROVE IInv'
  <2>1. u # w /\ w \in live /\ Steal(u, w) /\ live' = live \union {u}
    BY <1>4 DEF MoveConstruct
  <2> QED BY <2>1, StealKeeps
<1>5. ASSUME NEW u \in Tree, MoveAssign(t, u) PROVE IInv'
  <2>1. t # u /\ u \in live /\ Steal(t, u) /\ live' = live \union {t}
    BY <1>5 DEF MoveAssign
  <2> QED BY <2>1, StealKeeps
<1>6. ASSUME NEW u \in Tree, ChopRoot(t, u) PROVE IInv'
  BY <1>4, <1>6 DEF ChopRoot
<1>7. ASSUME NEW n \in Node, CopyConstruct(t, n) PROVE IInv'
  <2>1. /\ store[n] # Null /\ t \notin live /\ CopyContents(t, n)
        /\ live' = live \union {t}
    BY <1>7 DEF CopyConstruct
  <2>2. store[n] # t
    BY <2>1 DEF IInv, TypeOK
  <2> QED BY <2>1, <2>2, CopyKeeps
<1> QED BY <1>1, <1>2, <1>3, <1>4, <1>5, <1>6, <1>7, SwapKeeps, EmplaceRootKeeps, EraseKeeps,
           MergeKeeps, EmplaceKeeps, ChopKeeps, AdoptKeeps

LEMMA NextKeeps == ASSUME IInv, "move" \notin Wild, [Next]_vars PROVE IInv'
<1>1. CASE OrderKept
  BY <1>1, OrderKeptKeeps
<1>2. ASSUME NEW t \in Tree, NEW u \in Tree, CopyAssign(t, u) PROVE IInv'
  <2>1. /\ t \in live /\ u \in live /\ t # u /\ root[u] # Null
        /\ CopyContents(t, root[u]) /\ live' = live
    BY <1>2 DEF CopyAssign
  <2>2. root[u] \in Nodes(u) /\ u # Null
    BY <2>1, LiveIs DEF IsTree
  <2>3. root[u] \in Node /\ store[root[u]] = u
    BY <2>2 DEF Nodes
  <2>4. live' = live \union {t}
    BY <2>1
  <2> QED BY <2>1, <2>2, <2>3, <2>4, CopyKeeps
<1>3. ASSUME NEW t \in Tree, NEW n \in Node, NEW m \in Node, Move(t, n, m) PROVE IInv'
  BY <1>3, MoveKeeps
<1>4. CASE UNCHANGED vars
  <2>1. TypeOK' /\ FreeAreFresh' /\ DeadAreEmpty'
    BY <1>4 DEF vars, IInv, TypeOK, FreeAreFresh, FreeNodes, DeadAreEmpty
  <2>2. \A t \in Tree : Owns(t)'
    BY <1>4 DEF vars, IInv, Owns, Nodes
  <2> QED BY <2>1, <2>2 DEF IInv
<1> QED BY <1>1, <1>2, <1>3, <1>4 DEF Next

(* The whole of what the trees' properties rest on: in every state each    *)
(* tree object of unsafe_tree.hpp owns exactly one well-linked tree of     *)
(* nodes, or none, and freed or unused addresses hold nothing.             *)
THEOREM TreesAreOwned == ASSUME "move" \notin Wild PROVE Spec => []IInv
<1>1. IInv /\ [Next]_vars => IInv'
  BY NextKeeps
<1> QED BY <1>1, InitIInv, PTL DEF Spec

(* The fields of nodes and tree objects keep their types: pointers are     *)
(* null or point at nodes, and no node belongs to a destroyed tree.        *)
THEOREM TypeCorrect == ASSUME "move" \notin Wild PROVE Spec => []TypeOK
<1>1. IInv => TypeOK
  BY DEF IInv
<1> QED BY <1>1, TreesAreOwned, PTL

(* Parent pointers, sibling indices and children vectors always agree,     *)
(* through all the shifts of indices of remove_child and merge_child.      *)
THEOREM LinksAlwaysAgree == ASSUME "move" \notin Wild PROVE Spec => []LinksAgree
<1>1. ASSUME IInv PROVE LinksAgree
  <2> SUFFICES ASSUME NEW n \in Node, store[n] # Null
               PROVE  /\ \A i \in DOMAIN heap[n].children :
                           LET c == heap[n].children[i]
                           IN  store[c] = store[n] /\ heap[c].parent = n
                               /\ heap[c].index = i - 1
                      /\ LET p == heap[n].parent
                         IN  p # Null => /\ heap[n].index < ChildCount(heap, p)
                                         /\ Child(heap, p, heap[n].index) = n
    BY DEF LinksAgree
  <2> DEFINE t == store[n]
             X == Nodes(t)
             p == heap[n].parent
  <2>1. /\ t \in Tree /\ n \in X /\ X \subseteq Node /\ IsTree(heap, X, root[t])
    BY <1>1, OwnerIs DEF IsTree
  <2>2. heap \in Heap
    BY <1>1 DEF IInv, TypeOK
  <2>3. ASSUME NEW i \in DOMAIN heap[n].children
        PROVE  LET c == heap[n].children[i]
               IN  store[c] = t /\ heap[c].parent = n /\ heap[c].index = i - 1
    <3>1. heap[n].children[i] \in X
      <4> HIDE DEF X
      <4> QED BY <2>1, <2>2, TreeClosed
    <3>2. /\ heap[heap[n].children[i]].parent = n
          /\ heap[heap[n].children[i]].index = i - 1
      BY <2>1 DEF IsTree
    <3> QED BY <3>1, <3>2 DEF Nodes
  <2>4. ASSUME p # Null
        PROVE  heap[n].index < ChildCount(heap, p) /\ Child(heap, p, heap[n].index) = n
    <3>1. /\ p \in X /\ heap[n].index + 1 \in DOMAIN heap[p].children
          /\ heap[p].children[heap[n].index + 1] = n
      BY <2>1, <2>4 DEF IsTree
    <3>2. /\ DOMAIN heap[p].children = 1..Len(heap[p].children)
          /\ Len(heap[p].children) \in Nat /\ heap[n].index \in Nat
      BY <2>1, <2>2, <3>1, HeapFields
    <3> QED BY <3>1, <3>2 DEF ChildCount, Child
  <2> QED BY <2>3, <2>4
<1> QED BY <1>1, TreesAreOwned, PTL

(* A tree owns exactly the nodes below its root: no member function leaves *)
(* a node in _nodes that nothing reaches, takes one away that is in use or *)
(* closes a cycle.                                                         *)
THEOREM AlwaysRooted == ASSUME "move" \notin Wild PROVE Spec => []Rooted
<1>1. ASSUME IInv PROVE Rooted
  <2> SUFFICES ASSUME NEW t \in live
               PROVE  /\ root[t] = Null => Nodes(t) = {}
                      /\ root[t] # Null => /\ Nodes(t) = Subtree(heap, root[t])
                                           /\ heap[root[t]].parent = Null
                                           /\ \A n \in Nodes(t) : InSubtree(n, root[t])
    BY DEF Rooted
  <2>1. t \in Tree
    BY <1>1 DEF IInv, TypeOK
  <2>2. heap \in Heap /\ (root[t] = Null => Nodes(t) = {})
        /\ (root[t] # Null => IsTree(heap, Nodes(t), root[t]))
    BY <1>1, <2>1, LiveIs
  <2>3. CASE root[t] # Null
    <3> DEFINE X == Nodes(t)
               r == root[t]
    <3>1. X = Subtree(heap, r) /\ heap[r].parent = Null /\ r \in X /\ IsTree(heap, X, r)
      BY <2>2, <2>3 DEF IsTree
    <3>2. \A n \in X : n \in Subtree(heap, r)
      BY <3>1
    <3>3. \A n \in X : IsUnder(heap, n, r)
      <4> HIDE DEF X, r
      <4> QED BY <2>2, <3>1, <3>2, TreeUnder
    <3>4. \A n \in X : InSubtree(n, r)
      BY <3>3 DEF IsUnder, InSubtree
    <3> QED BY <2>3, <3>1, <3>4
  <2> QED BY <2>2, <2>3
<1> QED BY <1>1, TreesAreOwned, PTL

(* _leftmost and _rightmost never dangle: they are null in an empty tree   *)
(* and point at nodes of their own tree otherwise, whatever the removals.  *)
THEOREM ExtremaStayInTree == ASSUME "move" \notin Wild PROVE Spec => []ExtremaInTree
<1>1. IInv => ExtremaInTree
  <2> SUFFICES ASSUME IInv, NEW t \in live
               PROVE  IF root[t] = Null THEN leftmost[t] = Null /\ rightmost[t] = Null
                      ELSE leftmost[t] \in Nodes(t) /\ rightmost[t] \in Nodes(t)
    BY DEF ExtremaInTree
  <2>1. t \in Tree
    BY DEF IInv, TypeOK
  <2> QED BY <2>1, LiveIs
<1> QED BY <1>1, TreesAreOwned, PTL

=============================================================================
