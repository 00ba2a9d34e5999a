--------------------------- MODULE TreeListProofs ----------------------------
(***************************************************************************)
(* Proofs about trees seen as lists, for any numbers of nodes, of tree     *)
(* objects and of values.                                                  *)
(*                                                                         *)
(* First, that UnsafeTree implements Forest.  The list of a tree is put    *)
(* together from the blocks of its subtrees; where a node's block is in it,*)
(* what is before and after, says what an operation on the children of a   *)
(* node does to the list.  Then every member function is one of Forest's   *)
(* actions.                                                                *)
(*                                                                         *)
(* Second, that the trees of TreeContents hold the values they are to hold.*)
(* While a tree is built its list is the beginning of the list wanted, and *)
(* the path leads to the node made last, so that the next node is appended *)
(* to the list; a merge takes one entry out of it.                         *)
(***************************************************************************)
EXTENDS TreeRefinement, TreeContents, TraversalProofs

-----------------------------------------------------------------------------
(* The operators of Forest on a list in three parts.                       *)

(* k is part of a subtree whose root is at depth d ...                     *)
Deeper(k, d) == \A j \in 1..Len(k) : k[j].depth > d

(* What may follow a node's block at depth d: nothing, or a node that is   *)
(* not below it.                                                           *)
Ends(b, d) == b # <<>> => b[1].depth <= d

(* What Forest's operators do to the subtree <<e>> \o k between a and b.   *)
IsCut(a, e, k, b) ==
    LET l == (a \o (<<e>> \o k)) \o b
        i == Len(a) + 1
    IN  /\ i \in DOMAIN l /\ l[i] = e /\ (a # <<>> => i \in 2..Len(l))
        /\ Abstract!Branch(l, i) = Abstract!Shift(<<e>> \o k, 0, e.depth)
        /\ Abstract!Without(l, i) = a \o b
        /\ \A m : Abstract!Under(l, i, m)
                    = ((a \o (<<e>> \o k)) \o Abstract!Shift(m, e.depth + 1, 0)) \o b
        /\ Abstract!Collapsed(l, i) = (a \o Abstract!Shift(k, 0, 1)) \o b

LEMMA CutIs ==
    ASSUME NEW a \in Seq(Entries), NEW e \in Entries, NEW k \in Seq(Entries),
           NEW b \in Seq(Entries), Deeper(k, e.depth), Ends(b, e.depth)
    PROVE  IsCut(a, e, k, b)
<1>0. /\ \A j \in 1..Len(k) : k[j].depth > e.depth
      /\ b # <<>> => b[1].depth <= e.depth
  BY DEF Deeper, Ends
<1> DEFINE one == <<e>>
           ek == one \o k
           l == (a \o ek) \o b
           i == Len(a) + 1
           n == Len(a) + Len(ek)
           d == e.depth
<1>1. one \in Seq(Entries) /\ Len(one) = 1 /\ one[1] = e
  OBVIOUS
<1> HIDE DEF one
<1>2. /\ ek \in Seq(Entries) /\ Len(ek) = 1 + Len(k) /\ Len(k) \in Nat
      /\ ek[1] = e /\ \A j \in 1..Len(k) : ek[j + 1] = k[j]
  <2>1. /\ one \o k \in Seq(Entries) /\ Len(one \o k) = Len(one) + Len(k) /\ Len(k) \in Nat
        /\ \A j \in 1..(Len(one) + Len(k)) :
             (one \o k)[j] = IF j <= Len(one) THEN one[j] ELSE k[j - Len(one)]
    BY <1>1, ConcatIs
  <2>2. /\ ek \in Seq(Entries) /\ Len(ek) = 1 + Len(k) /\ Len(k) \in Nat
        /\ \A j \in 1..(1 + Len(k)) : ek[j] = IF j <= 1 THEN one[j] ELSE k[j - 1]
    BY <1>1, <2>1
  <2> HIDE DEF ek
  <2>3. 1 \in 1..(1 + Len(k)) /\ 1 <= 1
    BY <2>2
  <2>4. ASSUME NEW j \in 1..Len(k) PROVE ek[j + 1] = k[j]
    <3>1. j + 1 \in 1..(1 + Len(k)) /\ ~(j + 1 <= 1) /\ (j + 1) - 1 = j
      BY <2>2
    <3> QED BY <2>2, <3>1
  <2> QED BY <1>1, <2>2, <2>3, <2>4
<1>3. (a \o one) \in Seq(Entries) /\ Len(a \o one) = i /\ Len(a) \in Nat /\ a \o ek = (a \o one) \o k
  <2>0. one \in Seq(Entries)
    BY <1>1
  <2>1. a \o one \in Seq(Entries) /\ Len(a \o one) = Len(a) + Len(one) /\ Len(a) \in Nat
    BY <2>0, ConcatIs
  <2>2. (a \o one) \o k = a \o (one \o k)
    BY <2>0, Associative
  <2> QED BY <1>1, <2>1, <2>2
<1> HIDE DEF ek
<1>4. /\ l \in Seq(Entries) /\ Len(l) = Len(a) + Len(ek) + Len(b) /\ Len(b) \in Nat
      /\ DOMAIN l = 1..Len(l)
      /\ \A j \in 1..Len(ek) : l[Len(a) + j] = ek[j]
      /\ \A j \in 1..Len(b) : l[Len(a) + Len(ek) + j] = b[j]
  <2>1. ek \in Seq(Entries)
    BY <1>2
  <2> QED BY <2>1, PartsAre
<1>5. /\ SubSeq(l, 1, Len(a)) = a
      /\ SubSeq(l, Len(a) + 1, Len(a) + Len(ek)) = ek
      /\ SubSeq(l, 1, Len(a) + Len(ek)) = a \o ek
      /\ SubSeq(l, Len(a) + Len(ek) + 1, Len(l)) = b
  <2>1. ek \in Seq(Entries)
    BY <1>2
  <2>2. HasParts(l, a, ek, b)
    BY <2>1, PartsBack
  <2> HIDE DEF l
  <2> QED BY <2>2 DEF HasParts
<1>6. SubSeq(l, i + 1, n) = k
  <2> DEFINE ao == a \o one
             z == (ao \o k) \o b
  <2>1. ao \in Seq(Entries) /\ Len(ao) = i
    BY <1>3
  <2> HIDE DEF ao
  <2>2. SubSeq(z, Len(ao) + 1, Len(ao) + Len(k)) = k
    <3>1. ao \in Seq(Entries)
      BY <2>1
    <3>2. HasParts(z, ao, k, b)
      BY <3>1, PartsBack
    <3> HIDE DEF z
    <3> QED BY <3>2 DEF HasParts
  <2>3. z = l
    BY <1>3 DEF ao
  <2>4. Len(ao) + Len(k) = n
    BY <2>1, <1>2, <1>3
  <2> QED BY <2>1, <2>2, <2>3, <2>4
<1> HIDE DEF l
<1>7. /\ Len(a) \in Nat /\ i \in Nat /\ n \in Nat /\ n = i + Len(k) /\ i <= n /\ n <= Len(l)
      /\ Len(l) = n + Len(b) /\ i \in 1..Len(l) /\ i - 1 = Len(a) /\ Len(l) \in Nat
  <2>1. /\ Len(ek) = 1 + Len(k) /\ Len(k) \in Nat /\ Len(a) \in Nat /\ Len(b) \in Nat
        /\ Len(l) = Len(a) + Len(ek) + Len(b)
    BY <1>2, <1>3, <1>4
  <2> QED BY ONLY <2>1
<1>8. l[i] = e
  <2>1. 1 \in 1..Len(ek)
    BY <1>2
  <2> QED BY <1>2, <1>4, <2>1
<1>9. a # <<>> => i \in 2..Len(l)
  <2>1. ASSUME a # <<>> PROVE Len(a) # 0
    BY <2>1, EmptySeq
  <2> QED BY <1>7, <2>1
<1> DEFINE Above(x) == \A j \in (i + 1)..x : l[j].depth > l[i].depth
           Stops(x) == x < Len(l) => l[x + 1].depth <= l[i].depth
<1>10. ASSUME NEW x \in i..Len(l), Above(x), Stops(x) PROVE x = n
  <2>1. ~(x < n)
    <3>1. SUFFICES ASSUME x < n PROVE FALSE
      OBVIOUS
    <3>2. x < Len(l) /\ x - i + 1 \in 1..Len(k) /\ x - i + 2 \in 1..Len(ek)
          /\ Len(a) + (x - i + 2) = x + 1 /\ (x - i + 1) + 1 = x - i + 2
      BY <3>1, <1>2, <1>7
    <3>3. l[x + 1] = k[x - i + 1]
      <4>1. l[x + 1] = ek[x - i + 2]
        BY <3>2, <1>4
      <4> QED BY <3>2, <4>1, <1>2
    <3>4. ~(l[x + 1].depth <= e.depth)
      <4>1. k[x - i + 1].depth > e.depth
        BY <1>0, <3>2
      <4>2. k[x - i + 1] \in Entries
        BY <3>2, ElementOfSeq
      <4>3. k[x - i + 1].depth \in Nat /\ e.depth \in Nat
        BY <4>2 DEF Entries
      <4> QED BY <3>3, <4>1, <4>3
    <3> QED BY <1>10, <1>8, <3>2, <3>4
  <2>2. ~(n < x)
    <3>1. SUFFICES ASSUME n < x PROVE FALSE
      OBVIOUS
    <3>2. n + 1 \in (i + 1)..x /\ 1 \in 1..Len(b) /\ Len(a) + Len(ek) + 1 = n + 1
      BY <3>1, <1>7
    <3>3. l[n + 1] = b[1]
      BY <3>2, <1>4
    <3>4. l[n + 1].depth > e.depth
      BY <1>10, <1>8, <3>2
    <3>5. b # <<>>
      BY <3>2
    <3>6. b[1] \in Entries
      BY <3>2, ElementOfSeq
    <3>7. b[1].depth \in Nat /\ e.depth \in Nat
      BY <3>6 DEF Entries
    <3> QED BY <1>0, <3>3, <3>4, <3>5, <3>7
  <2>3. n \in Nat /\ x \in Nat
    BY <1>7
  <2> HIDE DEF n
  <2> QED BY <2>1, <2>2, <2>3
<1>11. n \in i..Len(l) /\ Above(n) /\ Stops(n)
  <2>1. ASSUME NEW j \in (i + 1)..n PROVE l[j].depth > l[i].depth
    <3>1. j - i \in 1..Len(k) /\ (j - i) + 1 \in 1..Len(ek) /\ Len(a) + ((j - i) + 1) = j
      BY <1>2, <1>7
    <3>2. l[j] = k[j - i]
      BY <3>1, <1>2, <1>4
    <3> QED BY <1>0, <1>8, <3>1, <3>2
  <2>2. Stops(n)
    <3>1. SUFFICES ASSUME n < Len(l) PROVE l[n + 1].depth <= l[i].depth
      OBVIOUS
    <3>2. 1 \in 1..Len(b) /\ Len(a) + Len(ek) + 1 = n + 1
      BY <3>1, <1>7, <1>4
    <3>3. b # <<>>
      BY <3>2
    <3> QED BY <1>0, <1>4, <1>8, <3>2, <3>3
  <2> QED BY <1>7, <2>1, <2>2
<1>12. Abstract!End(l, i) = n
  <2> HIDE DEF n, i
  <2> QED BY <1>10, <1>11 DEF Abstract!End
<1>13. Abstract!Branch(l, i) = Abstract!Shift(ek, 0, d)
  BY <1>5, <1>8, <1>12 DEF Abstract!Branch
<1>14. Abstract!Without(l, i) = a \o b
  <2>1. Abstract!Without(l, i) = SubSeq(l, 1, i - 1) \o SubSeq(l, n + 1, Len(l))
    BY <1>12 DEF Abstract!Without
  <2> QED BY <1>5, <1>7, <2>1
<1>15. ASSUME NEW m
       PROVE  Abstract!Under(l, i, m) = ((a \o ek) \o Abstract!Shift(m, d + 1, 0)) \o b
  <2>1. Abstract!Under(l, i, m)
          = (SubSeq(l, 1, n) \o Abstract!Shift(m, d + 1, 0)) \o SubSeq(l, n + 1, Len(l))
    BY <1>8, <1>12 DEF Abstract!Under
  <2> QED BY <1>5, <2>1
<1>16. Abstract!Collapsed(l, i) = (a \o Abstract!Shift(k, 0, 1)) \o b
  <2>1. Abstract!Collapsed(l, i)
          = (SubSeq(l, 1, i - 1) \o Abstract!Shift(SubSeq(l, i + 1, n), 0, 1))
              \o SubSeq(l, n + 1, Len(l))
    BY <1>12 DEF Abstract!Collapsed
  <2> QED BY <1>5, <1>6, <1>7, <2>1
<1>17. i \in DOMAIN l
  BY <1>4, <1>7
<1> QED BY <1>8, <1>9, <1>13, <1>14, <1>15, <1>16, <1>17 DEF IsCut, l, ek, one

-----------------------------------------------------------------------------
(* Lists in which no node occurs twice.                                    *)

NoRepeat(l) == \A i, j \in DOMAIN l : l[i].node = l[j].node => i = j

(* Nodes and repetitions, list by list.                                    *)
LEMMA NodesConcat ==
    ASSUME NEW a \in Seq(Entries), NEW b \in Seq(Entries)
    PROVE  NodesOf(a \o b) = NodesOf(a) \union NodesOf(b)
<1>1. a \o b \in Seq(Entries)
  BY ConcatIs
<1>2. ToSet(a \o b) = ToSet(a) \union ToSet(b)
  BY InConcat
<1>3. /\ \A x : x \in NodesOf(a) <=> \E e \in ToSet(a) : x = e.node
      /\ \A x : x \in NodesOf(b) <=> \E e \in ToSet(b) : x = e.node
  BY NodesOfIs
<1>4. \A x : x \in NodesOf(a \o b) <=> \E e \in ToSet(a \o b) : x = e.node
  BY <1>1, NodesOfIs
<1> QED BY <1>2, <1>3, <1>4

LEMMA RepeatConcat ==
    ASSUME NEW a \in Seq(Entries), NEW b \in Seq(Entries), NoRepeat(a), NoRepeat(b),
           NodesOf(a) \intersect NodesOf(b) = {}
    PROVE  NoRepeat(a \o b)
<1> DEFINE c == a \o b
           m == Len(a)
           n == Len(b)
<1>1. /\ c \in Seq(Entries) /\ Len(c) = m + n /\ m \in Nat /\ n \in Nat
      /\ \A i \in 1..(m + n) : c[i] = IF i <= m THEN a[i] ELSE b[i - m]
  BY ConcatIs
<1>2. DOMAIN c = 1..(m + n) /\ DOMAIN a = 1..m /\ DOMAIN b = 1..n
  BY <1>1, LenProperties
<1> HIDE DEF c
<1>3. \A i \in 1..m : a[i].node \in NodesOf(a)
  BY <1>2 DEF NodesOf
<1>4. \A i \in 1..n : b[i].node \in NodesOf(b)
  BY <1>2 DEF NodesOf
<1> HIDE DEF m, n
<1>5. ASSUME NEW i \in 1..(m + n)
      PROVE  \/ (i <= m /\ i \in 1..m /\ c[i] = a[i])
             \/ (~(i <= m) /\ i - m \in 1..n /\ c[i] = b[i - m])
  <2>1. (i <= m /\ i \in 1..m) \/ (~(i <= m) /\ i - m \in 1..n)
    BY <1>1
  <2>2. c[i] = IF i <= m THEN a[i] ELSE b[i - m]
    BY <1>1
  <2> QED BY <2>1, <2>2
<1>6. ASSUME NEW i \in 1..(m + n), NEW j \in 1..(m + n), c[i].node = c[j].node
      PROVE  i = j
  <2>1. CASE i <= m /\ j <= m
    <3>1. i \in 1..m /\ j \in 1..m /\ c[i] = a[i] /\ c[j] = a[j]
      BY <1>5, <2>1
    <3> QED BY <1>2, <1>6, <3>1 DEF NoRepeat
  <2>2. CASE ~(i <= m) /\ ~(j <= m)
    <3>1. i - m \in 1..n /\ j - m \in 1..n /\ c[i] = b[i - m] /\ c[j] = b[j - m]
      BY <1>5, <2>2
    <3>2. i - m = j - m
      BY <1>2, <1>6, <3>1 DEF NoRepeat
    <3> QED BY <1>1, <3>2
  <2>3. CASE i <= m /\ ~(j <= m)
    <3>1. i \in 1..m /\ j - m \in 1..n /\ c[i] = a[i] /\ c[j] = b[j - m]
      BY <1>5, <2>3
    <3> QED BY <1>3, <1>4, <1>6, <3>1
  <2>4. CASE ~(i <= m) /\ j <= m
    <3>1. j \in 1..m /\ i - m \in 1..n /\ c[j] = a[j] /\ c[i] = b[i - m]
      BY <1>5, <2>4
    <3> QED BY <1>3, <1>4, <1>6, <3>1
  <2> QED BY <2>1, <2>2, <2>3, <2>4
<1> QED BY <1>2, <1>6 DEF NoRepeat, c

LEMMA FlatHasNoRepeat ==
    ASSUME NEW f \in [Node -> Seq(Entries)], NEW q \in Seq(Node),
           \A i \in 1..Len(q) : NoRepeat(f[q[i]]),
           \A i, j \in 1..Len(q) : i # j => NodesOf(f[q[i]]) \intersect NodesOf(f[q[j]]) = {}
    PROVE  NoRepeat(Flat(f, q))
<1> DEFINE n == Len(q)
<1>1. n \in Nat /\ \A i \in 1..n : q[i] \in Node
  BY LenProperties, ElementOfSeq
<1>2. PICK F : IsFlat(F, Entries, f, q) /\ F[n] = Flat(f, q)
  BY FlatIs
<1>3. /\ F \in [0..n -> Seq(Entries)] /\ F[0] = <<>>
      /\ \A k \in 1..n : F[k] = F[k - 1] \o f[q[k]]
  BY <1>2 DEF IsFlat
<1> DEFINE From(k) == \A x \in NodesOf(F[k]) : \E i \in 1..k : x \in NodesOf(f[q[i]])
           T == {k \in Nat : k <= n => NoRepeat(F[k]) /\ From(k)}
<1>4. 0 \in T
  <2>1. NodesOf(F[0]) = {} /\ NoRepeat(F[0])
    BY <1>3 DEF NodesOf, NoRepeat
  <2> QED BY <2>1
<1>5. ASSUME NEW k \in Nat, k \in T PROVE k + 1 \in T
  <2>1. SUFFICES ASSUME k + 1 <= n PROVE NoRepeat(F[k + 1]) /\ From(k + 1)
    OBVIOUS
  <2>2. k \in 0..n /\ k + 1 \in 1..n /\ (k + 1) - 1 = k /\ k <= n
    BY <1>1, <2>1
  <2>3. PICK u, v : u = F[k] /\ v = f[q[k + 1]]
    OBVIOUS
  <2>4. u \in Seq(Entries) /\ v \in Seq(Entries) /\ F[k + 1] = u \o v
    BY <1>1, <1>3, <2>2, <2>3
  <2>5. NoRepeat(u) /\ From(k)
    BY <1>5, <2>2, <2>3
  <2>6. NoRepeat(v)
    BY <2>2, <2>3
  <2>7. ASSUME NEW x \in NodesOf(u) PROVE x \notin NodesOf(v)
    <3>1. PICK i \in 1..k : x \in NodesOf(f[q[i]])
      BY <2>3, <2>5, <2>7
    <3>2. i \in 1..n /\ i # k + 1
      BY <1>1, <2>2
    <3>3. NodesOf(f[q[i]]) \intersect NodesOf(f[q[k + 1]]) = {}
      BY <2>2, <3>2
    <3> QED BY <2>3, <3>1, <3>3
  <2>8. NoRepeat(u \o v)
    BY <2>4, <2>5, <2>6, <2>7, RepeatConcat
  <2>9. NodesOf(u \o v) = NodesOf(u) \union NodesOf(v)
    BY <2>4, NodesConcat
  <2>10. ASSUME NEW x \in NodesOf(F[k + 1]) PROVE \E i \in 1..(k + 1) : x \in NodesOf(f[q[i]])
    <3>1. x \in NodesOf(u) \/ x \in NodesOf(v)
      BY <2>4, <2>9, <2>10
    <3>2. CASE x \in NodesOf(u)
      <4>1. PICK i \in 1..k : x \in NodesOf(f[q[i]])
        BY <2>3, <2>5, <3>2
      <4>2. i \in 1..(k + 1)
        BY <2>2
      <4> QED BY <4>1, <4>2
    <3>3. CASE x \in NodesOf(v)
      <4>1. k + 1 \in 1..(k + 1)
        BY <2>2
      <4> QED BY <2>3, <3>3, <4>1
    <3> QED BY <3>1, <3>2, <3>3
  <2> QED BY <2>4, <2>8, <2>10
<1>6. Nat \subseteq T
  <2> HIDE DEF T
  <2> QED BY <1>4, <1>5, SetInduction
<1>7. n \in T
  <2> HIDE DEF T
  <2> QED BY <1>1, <1>6
<1> QED BY <1>1, <1>2, <1>7

(* No node is in a block twice.                                            *)
LEMMA BlockHasNoRepeat ==
    ASSUME NEW h \in Heap, NEW X, NEW r, IsTree(h, X, r), NEW m \in X, NEW d, Fits(h, m, d)
    PROVE  NoRepeat(Block(h, d, m))
<1> DEFINE T == {n \in X : \A k : Fits(h, n, k) => NoRepeat(Block(h, k, n))}
<1>1. ASSUME NEW n \in X, Children(h, n) \subseteq T PROVE n \in T
  <2>1. SUFFICES ASSUME NEW k, Fits(h, n, k) PROVE NoRepeat(Block(h, k, n))
    OBVIOUS
  <2> DEFINE q == h[n].children
             f == PreRow(h, k + 1)
             one == <<Entry(n, k)>>
             b == Below(h, k, n)
  <2>2. /\ k \in 0..NodeCount /\ f \in [Node -> Seq(Entries)] /\ q \in Seq(Node) /\ n \in Node
        /\ b \in Seq(Entries) /\ Block(h, k, n) = one \o b
        /\ \A c \in Children(h, n) : c \in X /\ Fits(h, c, k + 1)
    BY <2>1, BlockIs
  <2>3. k \in Nat
    BY <2>2, NodeCountType
  <2>4. one \in Seq(Entries) /\ NodesOf(one) = {n} /\ NoRepeat(one)
    <3>1. one \in Seq(Entries) /\ DOMAIN one = {1} /\ one[1].node = n
      BY <2>2, <2>3, EntryIs DEF Entry
    <3> HIDE DEF one
    <3> QED BY <3>1 DEF NodesOf, NoRepeat
  <2>5. \A i \in 1..Len(q) : q[i] \in Children(h, n) /\ i \in DOMAIN q
    BY <2>2, HeapFields, InChildren
  <2>6. \A i \in 1..Len(q) : f[q[i]] = Block(h, k + 1, q[i])
    BY DEF Block
  <2>7. \A i \in 1..Len(q) : NodesOf(f[q[i]]) = Subtree(h, q[i])
    <3> TAKE i \in 1..Len(q)
    <3>1. q[i] \in X /\ Fits(h, q[i], k + 1)
      BY <2>2, <2>5
    <3>2. IsBlock(Block(h, k + 1, q[i]), q[i], k + 1, Subtree(h, q[i]))
      BY <3>1, BlocksAre
    <3> QED BY <2>6, <3>2 DEF IsBlock
  <2>8. \A i \in 1..Len(q) : NoRepeat(f[q[i]])
    BY <1>1, <2>2, <2>5, <2>6
  <2>9. \A i, j \in 1..Len(q) : i # j => NodesOf(f[q[i]]) \intersect NodesOf(f[q[j]]) = {}
    <3> SUFFICES ASSUME NEW i \in 1..Len(q), NEW j \in 1..Len(q), i # j
                 PROVE  Subtree(h, q[i]) \intersect Subtree(h, q[j]) = {}
      BY <2>7
    <3>1. i \in DOMAIN h[n].children /\ j \in DOMAIN h[n].children
      BY <2>5
    <3> HIDE DEF T, f, b, one
    <3> QED BY <3>1, SiblingsAreApart
  <2>10. NoRepeat(b)
    <3>1. NoRepeat(Flat(f, q))
      <4> HIDE DEF f, q
      <4> QED BY <2>2, <2>8, <2>9, FlatHasNoRepeat
    <3> QED BY <3>1 DEF Below
  <2>11. n \notin NodesOf(b)
    <3>1. SUFFICES ASSUME n \in NodesOf(b) PROVE FALSE
      OBVIOUS
    <3>2. PICK x \in ToSet(b) : x.node = n
      BY <2>2, <3>1, NodesOfIs
    <3>3. PICK i \in 1..Len(q) : x \in ToSet(f[q[i]])
      <4> HIDE DEF f, q
      <4> QED BY <2>2, <3>2, InFlat DEF Below, f, q
    <3>4. q[i] \in Node
      BY <2>2, ElementOfSeq
    <3>5. n \in Subtree(h, q[i])
      <4>1. f[q[i]] \in Seq(Entries)
        BY <2>2, <3>4
      <4>2. n \in NodesOf(f[q[i]])
        BY <3>2, <3>3, <4>1, NodesOfIs
      <4> QED BY <2>7, <4>2
    <3>6. h[q[i]].parent = n /\ q[i] \in X
      BY <2>2, <2>5 DEF IsTree
    <3>7. q[i] # r
      <4>1. h[r].parent = Null
        BY DEF IsTree
      <4> QED BY <2>2, <3>6, <4>1, NodeAssumption
    <3> QED BY <3>5, <3>6, <3>7, ParentIsOutside
  <2> HIDE DEF one, b
  <2>12. NoRepeat(one \o b)
    BY <2>2, <2>4, <2>10, <2>11, RepeatConcat
  <2> QED BY <2>2, <2>12
<1>2. X \subseteq T
  <2> HIDE DEF T
  <2> QED BY <1>1, TreeInduction
<1> QED BY <1>2

-----------------------------------------------------------------------------
(* Depths shifted.                                                         *)

(* Shift is Raise, and undoes it.                                          *)
LEMMA ShiftIs ==
    ASSUME NEW l \in Seq(Entries), NEW k \in Nat
    PROVE  /\ Abstract!Shift(l, k, 0) = Imaged(Raise(k), l)
           /\ Abstract!Shift(Imaged(Raise(k), l), 0, k) = l
           /\ Abstract!Shift(l, 0, 0) = l
<1>1. DOMAIN l = 1..Len(l) /\ Len(l) \in Nat /\ \A i \in 1..Len(l) : l[i] \in Entries
  BY LenProperties, ElementOfSeq
<1>2. \A e \in Entries : /\ e.depth \in Nat /\ e.node \in Node /\ e = Entry(e.node, e.depth)
                         /\ Raise(k)[e] = Entry(e.node, e.depth + k)
  BY DEF Entries, Entry, Raise
<1>3. \A x, y : Abstract!Entry(x, y) = Entry(x, y)
  BY DEF Entry, Abstract!Entry
<1> DEFINE g == Raise(k)
           z == Imaged(g, l)
<1>4. /\ z \in Seq(Entries) /\ Len(z) = Len(l) /\ DOMAIN z = 1..Len(l)
      /\ \A i \in 1..Len(l) : z[i] = g[l[i]]
  <2>1. IsMap(g, Entries, Entries)
    BY RaiseIs
  <2> HIDE DEF g
  <2>2. z \in Seq(Entries) /\ Len(z) = Len(l) /\ \A i \in 1..Len(l) : z[i] = g[l[i]]
    BY <2>1, ImagedIs
  <2> QED BY <2>2, LenProperties
<1> HIDE DEF z
<1>5. Abstract!Shift(l, k, 0) = z
  <2>1. \A i \in 1..Len(l) : z[i] = Abstract!Entry(l[i].node, l[i].depth + k - 0)
    <3> TAKE i \in 1..Len(l)
    <3>1. z[i] = Entry(l[i].node, l[i].depth + k)
      BY <1>1, <1>2, <1>4
    <3>2. l[i].depth + k - 0 = l[i].depth + k
      BY <1>1, <1>2
    <3> QED BY <1>3, <3>1, <3>2
  <2>2. Abstract!Shift(l, k, 0)
          = [i \in 1..Len(l) |-> Abstract!Entry(l[i].node, l[i].depth + k - 0)]
    BY <1>1 DEF Abstract!Shift
  <2>3. z = [i \in 1..Len(l) |-> z[i]]
    BY <1>4
  <2> QED BY <2>1, <2>2, <2>3
<1>6. l = [i \in 1..Len(l) |-> l[i]]
  BY <1>1
<1>7. Abstract!Shift(z, 0, k) = l
  <2>1. \A i \in 1..Len(l) : l[i] = Abstract!Entry(z[i].node, z[i].depth + 0 - k)
    <3> TAKE i \in 1..Len(l)
    <3>1. z[i] = Entry(l[i].node, l[i].depth + k)
      BY <1>1, <1>2, <1>4
    <3>2. z[i].node = l[i].node /\ z[i].depth = l[i].depth + k
      BY <3>1 DEF Entry
    <3>3. (l[i].depth + k) + 0 - k = l[i].depth
      BY <1>1, <1>2
    <3> QED BY <1>1, <1>2, <1>3, <3>2, <3>3
  <2>2. Abstract!Shift(z, 0, k)
          = [i \in 1..Len(l) |-> Abstract!Entry(z[i].node, z[i].depth + 0 - k)]
    BY <1>4 DEF Abstract!Shift
  <2> QED BY <1>6, <2>1, <2>2
<1>8. Abstract!Shift(l, 0, 0) = l
  <2>1. \A i \in 1..Len(l) : l[i] = Abstract!Entry(l[i].node, l[i].depth + 0 - 0)
    <3> TAKE i \in 1..Len(l)
    <3>1. l[i].depth + 0 - 0 = l[i].depth
      BY <1>1, <1>2
    <3> QED BY <1>1, <1>2, <1>3, <3>1
  <2>2. Abstract!Shift(l, 0, 0)
          = [i \in 1..Len(l) |-> Abstract!Entry(l[i].node, l[i].depth + 0 - 0)]
    BY <1>1 DEF Abstract!Shift
  <2> QED BY <1>6, <2>1, <2>2
<1> QED BY <1>5, <1>7, <1>8 DEF z

(* A block shifted is the block at another depth.                          *)
LEMMA BlockShifts ==
    ASSUME NEW h \in Heap, NEW X, NEW r, IsTree(h, X, r), NEW m \in X, NEW d, Fits(h, m, d)
    PROVE  /\ Abstract!Shift(Block(h, d, m), 0, d) = Block(h, 0, m)
           /\ Abstract!Shift(Block(h, 0, m), d, 0) = Block(h, d, m)
           /\ d # 0 => Abstract!Shift(Below(h, d, m), 0, 1) = Below(h, d - 1, m)
<1>1. d \in Nat /\ Fits(h, m, 0) /\ d = 0 + d
  BY FitsIs DEF Fits
<1> DEFINE z == Block(h, 0, m)
<1>2. z \in Seq(Entries)
  BY <1>1, BlocksAre DEF IsBlock
<1>3. Block(h, d, m) = Imaged(Raise(d), z)
  <2>1. Fits(h, m, 0 + d)
    BY <1>1
  <2>2. Block(h, 0 + d, m) = Imaged(Raise(d), z)
    BY <1>1, <2>1, BlockRaised
  <2> QED BY <1>1, <2>2
<1> HIDE DEF z
<1>4. Abstract!Shift(z, d, 0) = Imaged(Raise(d), z) /\ Abstract!Shift(Imaged(Raise(d), z), 0, d) = z
  BY <1>1, <1>2, ShiftIs
<1>5. ASSUME d # 0 PROVE Abstract!Shift(Below(h, d, m), 0, 1) = Below(h, d - 1, m)
  <2> DEFINE c == d - 1
             y == Below(h, c, m)
  <2>1. c \in Nat /\ d = c + 1
    BY <1>1, <1>5
  <2>2. Fits(h, m, c) /\ Fits(h, m, c + 1)
    <3>1. TreeSize(h, m) \in Nat /\ NodeCount \in Nat
      BY SizeIs, NodeCountType
    <3> QED BY <2>1, <3>1 DEF Fits
  <2> HIDE DEF c
  <2>3. y \in Seq(Entries)
    BY <2>2, BlockIs
  <2>4. Below(h, c + 1, m) = Imaged(Raise(1), y)
    BY <2>2, BlockRaised
  <2> HIDE DEF y
  <2>5. Abstract!Shift(Imaged(Raise(1), y), 0, 1) = y
    BY <2>3, ShiftIs
  <2> QED BY <2>1, <2>4, <2>5 DEF y, c
<1> QED BY <1>3, <1>4, <1>5 DEF z

(* What Forest's operators do to a block between a and b.                  *)
IsBlockCut(h, m, d, a, b) ==
    LET l == (a \o Block(h, d, m)) \o b
        i == Len(a) + 1
    IN  /\ i \in DOMAIN l /\ l[i] = Entry(m, d) /\ (a # <<>> => i \in 2..Len(l))
        /\ Abstract!Branch(l, i) = Block(h, 0, m)
        /\ Abstract!Without(l, i) = a \o b
        /\ \A w : Abstract!Under(l, i, w)
                    = ((a \o Block(h, d, m)) \o Abstract!Shift(w, d + 1, 0)) \o b
        /\ d # 0 => Abstract!Collapsed(l, i) = (a \o Below(h, d - 1, m)) \o b

LEMMA BlockCut ==
    ASSUME NEW h \in Heap, NEW X, NEW r, IsTree(h, X, r), NEW m \in X, NEW d, Fits(h, m, d),
           NEW a \in Seq(Entries), NEW b \in Seq(Entries), Ends(b, d)
    PROVE  IsBlockCut(h, m, d, a, b)
<1> DEFINE e == Entry(m, d)
           k == Below(h, d, m)
           c == <<e>> \o k
<1>1. k \in Seq(Entries) /\ Block(h, d, m) = c /\ m \in Node /\ d \in Nat
  BY BlockIs DEF Fits
<1>2. e \in Entries /\ e.depth = d
  BY <1>1 DEF Entry, Entries
<1>3. ASSUME NEW j \in 1..Len(k) PROVE k[j].depth > d
  <2>1. /\ c \in Seq(Entries) /\ Len(c) = 1 + Len(k) /\ Len(k) \in Nat
        /\ \A i \in 1..(1 + Len(k)) : c[i] = IF i <= 1 THEN <<e>>[i] ELSE k[i - 1]
    <3> DEFINE one == <<e>>
    <3>1. one \in Seq(Entries) /\ Len(one) = 1
      BY <1>2
    <3> HIDE DEF one, e, k
    <3>2. k \in Seq(Entries)
      BY <1>1
    <3>3. /\ one \o k \in Seq(Entries) /\ Len(one \o k) = Len(one) + Len(k) /\ Len(k) \in Nat
          /\ \A i \in 1..(Len(one) + Len(k)) :
               (one \o k)[i] = IF i <= Len(one) THEN one[i] ELSE k[i - Len(one)]
      BY <3>1, <3>2, ConcatIs
    <3> QED BY <3>1, <3>3 DEF one
  <2> HIDE DEF c, k
  <2>2. IsBlock(c, m, d, Subtree(h, m))
    BY <1>1, BlocksAre
  <2>3. j + 1 \in 2..Len(c) /\ j + 1 \in 1..(1 + Len(k)) /\ ~(j + 1 <= 1) /\ (j + 1) - 1 = j
    BY <2>1
  <2>4. c[j + 1].depth > d
    BY <2>2, <2>3 DEF IsBlock
  <2> QED BY <2>1, <2>3, <2>4
<1>4. /\ Abstract!Shift(c, 0, d) = Block(h, 0, m)
      /\ d # 0 => Abstract!Shift(k, 0, 1) = Below(h, d - 1, m)
  BY <1>1, BlockShifts
<1> HIDE DEF e, k
<1>5. b # <<>> => b[1].depth <= e.depth
  BY <1>2 DEF Ends
<1> DEFINE l == (a \o c) \o b
           i == Len(a) + 1
<1>6. /\ i \in DOMAIN l /\ l[i] = e /\ (a # <<>> => i \in 2..Len(l))
      /\ Abstract!Branch(l, i) = Abstract!Shift(c, 0, e.depth)
      /\ Abstract!Without(l, i) = a \o b
      /\ \A w : Abstract!Under(l, i, w)
                  = ((a \o c) \o Abstract!Shift(w, e.depth + 1, 0)) \o b
      /\ Abstract!Collapsed(l, i) = (a \o Abstract!Shift(k, 0, 1)) \o b
  <2>1. Deeper(k, e.depth) /\ Ends(b, e.depth)
    BY <1>2, <1>3, <1>5 DEF Deeper, Ends
  <2>2. IsCut(a, e, k, b)
    BY <1>1, <1>2, <2>1, CutIs
  <2> QED BY <2>2 DEF IsCut
<1> HIDE DEF c
<1> QED BY <1>1, <1>2, <1>4, <1>6 DEF e, IsBlockCut

-----------------------------------------------------------------------------
(* Where a node's block is in the list of its tree.                        *)

(* The list of r's tree has the block of s at depth d between a and b, and *)
(* still has it there whatever changes below s.                            *)
IsContext(h, X, r, s, a, b, d) ==
    /\ a \in Seq(Entries) /\ b \in Seq(Entries) /\ Fits(h, s, d) /\ Ends(b, d)
    /\ s # r => a # <<>> /\ d # 0
    /\ \A g \in Heap : (\A n \in X \ Subtree(h, s) : g[n].children = h[n].children)
                         => Block(g, 0, r) = (a \o Block(g, d, s)) \o b

(* The same for a child of p, whose place among p's children other nodes   *)
(* may take.                                                               *)
IsPlace(h, X, r, p, s, u, v, a, b, d) ==
    /\ a \in Seq(Entries) /\ b \in Seq(Entries) /\ a # <<>> /\ d # 0
    /\ Fits(h, s, d) /\ Ends(b, d)
    /\ u \in Seq(Node) /\ v \in Seq(Node) /\ h[p].children = (u \o <<s>>) \o v
    /\ \A g \in Heap, w \in Seq(Node) :
          /\ \A n \in X \ (Subtree(h, s) \union {p}) : g[n].children = h[n].children
          /\ g[p].children = (u \o w) \o v
          => Block(g, 0, r) = (a \o Flat(PreRow(g, d), w)) \o b

(* Concatenation, regrouped.                                               *)
Joins(a, b, c) == (a \o b) \o c = a \o (b \o c)

LEMMA JoinsIs ==
    ASSUME NEW V
    PROVE  /\ \A a, b, c \in Seq(V) : Joins(a, b, c)
           /\ \A a, b \in Seq(V) : a \o b \in Seq(V)
BY Associative, ConcatIs DEF Joins

Regroups(a, o, u, w, v, b) ==
    /\ (a \o (o \o ((u \o w) \o v))) \o b = (((a \o o) \o u) \o w) \o (v \o b)
    /\ Len((a \o o) \o u) = Len(a) + Len(o) + Len(u)

LEMMA Regroup ==
    ASSUME NEW V
    PROVE  \A a, o, u, w, v, b \in Seq(V) : Regroups(a, o, u, w, v, b)
<1> TAKE a, o, u, w, v, b \in Seq(V)
<1>1. /\ \A x, y, z \in Seq(V) : Joins(x, y, z)
      /\ \A x, y \in Seq(V) : x \o y \in Seq(V)
  BY JoinsIs
<1>2. /\ u \o w \in Seq(V) /\ (u \o w) \o v \in Seq(V) /\ a \o o \in Seq(V)
      /\ (a \o o) \o u \in Seq(V) /\ w \o v \in Seq(V) /\ v \o b \in Seq(V)
      /\ ((a \o o) \o u) \o w \in Seq(V)
  BY <1>1
<1>3. /\ Joins(a, o, (u \o w) \o v) /\ Joins(u, w, v) /\ Joins(a \o o, u, w \o v)
      /\ Joins((a \o o) \o u, w, v) /\ Joins(((a \o o) \o u) \o w, v, b)
  BY <1>1, <1>2
<1>4. (a \o (o \o ((u \o w) \o v))) \o b = (((a \o o) \o u) \o w) \o (v \o b)
  BY <1>3 DEF Joins
<1>5. Len((a \o o) \o u) = Len(a) + Len(o) + Len(u)
  <2> DEFINE ao == a \o o
  <2>1. ao \in Seq(V)
    BY <1>2
  <2>2. Len(ao) = Len(a) + Len(o)
    BY ConcatIs
  <2> HIDE DEF ao
  <2>3. Len(ao \o u) = Len(ao) + Len(u)
    BY <2>1, ConcatIs
  <2> QED BY <2>2, <2>3 DEF ao
<1> QED BY <1>4, <1>5 DEF Regroups

(* What follows a sibling's block is not deeper than it.                   *)
LEMMA FlatBegins ==
    ASSUME NEW f \in [Node -> Seq(Entries)], NEW v \in Seq(Node), NEW d \in Nat,
           NEW b \in Seq(Entries), Ends(b, d),
           \A i \in 1..Len(v) : f[v[i]] # <<>> /\ f[v[i]][1].depth = d
    PROVE  Ends(Flat(f, v) \o b, d)
<1>1. CASE v = <<>>
  <2>1. Flat(f, v) = <<>>
    BY <1>1, FlatEmpty
  <2>2. <<>> \o b = b
    OBVIOUS
  <2> QED BY <2>1, <2>2
<1>2. CASE v # <<>>
  <2>1. 1 \in 1..Len(v)
    BY <1>2, EmptySeq, LenProperties
  <2> DEFINE y == f[v[1]]
             x == Flat(f, SubSeq(v, 1, 1 - 1))
             z == Flat(f, SubSeq(v, 2, Len(v)))
  <2>2. /\ SubSeq(v, 1, 1 - 1) \in Seq(Node) /\ Len(SubSeq(v, 1, 1 - 1)) = 1 - 1
        /\ SubSeq(v, 1 + 1, Len(v)) \in Seq(Node) /\ v[1] \in Node
        /\ Flat(f, v) = (x \o y) \o Flat(f, SubSeq(v, 1 + 1, Len(v)))
    <3>1. \A i \in 1..Len(v) :
             /\ SubSeq(v, 1, i - 1) \in Seq(Node) /\ SubSeq(v, i + 1, Len(v)) \in Seq(Node)
             /\ v[i] \in Node /\ Len(SubSeq(v, 1, i - 1)) = i - 1
             /\ Flat(f, v) = (Flat(f, SubSeq(v, 1, i - 1)) \o f[v[i]])
                                \o Flat(f, SubSeq(v, i + 1, Len(v)))
      BY FlatSplit, ZenonT(60)
    <3> QED BY <2>1, <3>1, Zenon
  <2>3. x = <<>>
    <3>1. SubSeq(v, 1, 1 - 1) = <<>>
      BY <2>2, EmptySeq
    <3> QED BY <3>1, FlatEmpty
  <2>4. y \in Seq(Entries) /\ z \in Seq(Entries) /\ Flat(f, v) = y \o z
    <3>1. y \in Seq(Entries)
      BY <2>2
    <3>2. z \in Seq(Entries)
      <4>1. SubSeq(v, 2, Len(v)) \in Seq(Node)
        BY <2>2
      <4> QED BY <4>1, FlatType
    <3>3. Flat(f, v) = (<<>> \o y) \o z
      <4>1. 1 + 1 = 2
        OBVIOUS
      <4> HIDE DEF x, y
      <4> QED BY <2>2, <2>3, <4>1
    <3> HIDE DEF y, z
    <3>4. <<>> \o y = y
      BY <3>1
    <3> QED BY <3>1, <3>2, <3>3, <3>4
  <2> HIDE DEF y, z
  <2>5. (y \o z) \o b = y \o (z \o b) /\ z \o b \in Seq(Entries)
    <3>1. y \in Seq(Entries) /\ z \in Seq(Entries)
      BY <2>4
    <3>2. Joins(y, z, b) /\ z \o b \in Seq(Entries)
      BY <3>1, JoinsIs
    <3> QED BY <3>2 DEF Joins
  <2> DEFINE zb == z \o b
  <2>6. 1 \in 1..Len(y) /\ Len(y) \in Nat
    <3>1. y # <<>>
      BY <2>1 DEF y
    <3> QED BY <2>4, <3>1, EmptySeq, LenProperties
  <2> HIDE DEF zb
  <2>7. (y \o zb)[1] = y[1]
    <3>1. zb \in Seq(Entries)
      BY <2>5 DEF zb
    <3>2. /\ Len(zb) \in Nat
          /\ \A i \in 1..(Len(y) + Len(zb)) : (y \o zb)[i] = IF i <= Len(y) THEN y[i] ELSE zb[i - Len(y)]
      BY <2>4, <3>1, ConcatIs
    <3>3. 1 \in 1..(Len(y) + Len(zb)) /\ 1 <= Len(y)
      BY <2>6, <3>2
    <3> QED BY <3>2, <3>3
  <2>8. y[1].depth = d
    BY <2>1 DEF y
  <2> QED BY <2>4, <2>5, <2>7, <2>8 DEF Ends, zb
<1> QED BY <1>1, <1>2

(* The place of a child, from the block of its parent.                     *)
LEMMA PlaceIs ==
    ASSUME NEW h \in Heap, NEW X, NEW r, IsTree(h, X, r), NEW p \in X,
           NEW i \in 1..Len(h[p].children),
           NEW a0, NEW b0, NEW d0, IsContext(h, X, r, p, a0, b0, d0)
    PROVE  LET q == h[p].children
               u == SubSeq(q, 1, i - 1)
               v == SubSeq(q, i + 1, Len(q))
           IN  \E a, b, d : IsPlace(h, X, r, p, q[i], u, v, a, b, d)
<1> DEFINE q == h[p].children
           s == q[i]
           u == SubSeq(q, 1, i - 1)
           v == SubSeq(q, i + 1, Len(q))
           d == d0 + 1
           f == PreRow(h, d)
           one == <<Entry(p, d0)>>
           U == Flat(f, u)
           W == Flat(f, v)
           a == (a0 \o one) \o U
           b == W \o b0
<1>1. /\ a0 \in Seq(Entries) /\ b0 \in Seq(Entries) /\ Fits(h, p, d0) /\ Ends(b0, d0)
      /\ \A g \in Heap : (\A n \in X \ Subtree(h, p) : g[n].children = h[n].children)
                           => Block(g, 0, r) = (a0 \o Block(g, d0, p)) \o b0
  BY DEF IsContext
<1>2. /\ d0 \in 0..(NodeCount - 1) /\ d0 \in 0..NodeCount /\ d \in 0..NodeCount /\ d0 # NodeCount
      /\ d0 \in Nat /\ d \in Nat
  BY <1>1, FitsIs, NodeCountType
<1>3. /\ p \in Node /\ q \in Seq(Node) /\ Len(q) \in Nat /\ DOMAIN q = 1..Len(q)
      /\ X \subseteq Node /\ \A j \in 1..Len(q) : q[j] \in Children(h, p)
  BY HeapFields, InChildren DEF IsTree
<1>4. \A c \in Children(h, p) : c \in X /\ Fits(h, c, d)
  BY <1>1, FitsIs
<1>5. f \in [Node -> Seq(Entries)]
  BY <1>2, PreRowIs
<1> HIDE DEF f
<1>6. /\ u \in Seq(Node) /\ v \in Seq(Node) /\ s \in Node /\ q = (u \o <<s>>) \o v
      /\ Len(u) = i - 1 /\ \A j \in 1..(i - 1) : u[j] = q[j]
      /\ Len(v) = Len(q) - i /\ \A j \in 1..(Len(q) - i) : v[j] = q[i + j]
  <2>1. i \in 1..Len(q) /\ q \in Seq(Node)
    BY <1>3
  <2> HIDE DEF q
  <2> QED BY <1>5, <2>1, FlatSplit
<1> HIDE DEF u, v
<1>7. one \in Seq(Entries) /\ Len(one) = 1
  BY <1>2, <1>3, EntryIs DEF Entry
<1>8. s \in X /\ Fits(h, s, d) /\ h[s].parent = p /\ s \in Children(h, p)
  BY <1>3, <1>4 DEF IsTree
<1>9. s # r /\ p \notin Subtree(h, s) /\ s \in Subtree(h, s)
  <2>1. h[r].parent = Null
    BY DEF IsTree
  <2>2. s # r
    BY <1>3, <1>8, <2>1, NodeAssumption
  <2> QED BY <1>6, <1>8, <2>2, ParentIsOutside, SubtreeIn
(* The siblings' subtrees hold neither p nor what is below s.              *)
<1> DEFINE Far(c) == /\ c \in X /\ Fits(h, c, d) /\ c \in Children(h, p)
                     /\ Subtree(h, c) \subseteq X \ (Subtree(h, s) \union {p})
<1>10. ASSUME NEW j \in 1..Len(q), j # i PROVE Far(q[j])
  <2>1. q[j] \in Children(h, p) /\ q[j] \in X /\ Fits(h, q[j], d) /\ h[q[j]].parent = p
    BY <1>3, <1>4 DEF IsTree
  <2>2. Subtree(h, q[j]) \intersect Subtree(h, s) = {}
    BY <1>3, <1>10, SiblingsAreApart
  <2>3. h[r].parent = Null
    BY DEF IsTree
  <2>4. q[j] # r
    BY <1>3, <2>1, <2>3, NodeAssumption
  <2>5. p \notin Subtree(h, q[j])
    BY <2>1, <2>4, ParentIsOutside
  <2>6. Subtree(h, q[j]) \subseteq X
    BY <2>1, SubtreeParents
  <2> QED BY <2>1, <2>2, <2>5, <2>6
<1> HIDE DEF Far, q, s
<1>11. \A j \in 1..Len(u) : Far(u[j])
  <2> TAKE j \in 1..Len(u)
  <2>1. j \in 1..(i - 1) /\ j \in 1..Len(q) /\ j # i
    BY <1>3, <1>6 DEF q
  <2> QED BY <1>6, <1>10, <2>1
<1>12. \A j \in 1..Len(v) : Far(v[j])
  <2> TAKE j \in 1..Len(v)
  <2>1. j \in 1..(Len(q) - i) /\ i + j \in 1..Len(q) /\ i + j # i
    BY <1>3, <1>6 DEF q
  <2> QED BY <1>6, <1>10, <2>1
<1>13. U \in Seq(Entries) /\ W \in Seq(Entries)
  BY <1>5, <1>6, FlatType
<1>14. b \in Seq(Entries) /\ a \in Seq(Entries)
  <2> HIDE DEF U, W, one
  <2>1. \A x, y \in Seq(Entries) : x \o y \in Seq(Entries)
    BY JoinsIs
  <2>2. a0 \o one \in Seq(Entries)
    BY <1>1, <1>7, <2>1
  <2> QED BY <1>1, <1>13, <2>1, <2>2
<1>15. Ends(b, d)
  <2>1. ASSUME NEW j \in 1..Len(v) PROVE f[v[j]] # <<>> /\ f[v[j]][1].depth = d
    <3>1. IsBlock(Block(h, d, v[j]), v[j], d, Subtree(h, v[j]))
      BY <1>12, BlocksAre DEF Far
    <3>2. f[v[j]] = Block(h, d, v[j])
      BY DEF f, Block
    <3> DEFINE l == Block(h, d, v[j])
    <3> HIDE DEF l
    <3>3. l \in Seq(Entries) /\ Len(l) # 0 /\ l[1] = Entry(v[j], d)
      BY <3>1 DEF l, IsBlock
    <3>4. l # <<>> /\ l[1].depth = d
      BY <3>3, EmptySeq DEF Entry
    <3> QED BY <3>2, <3>4 DEF l
  <2>2. Ends(b0, d)
    <3>1. b0 # <<>> => b0[1].depth <= d0
      BY <1>1 DEF Ends
    <3>2. b0 # <<>> => b0[1] \in Entries
      <4>1. b0 # <<>> => 1 \in 1..Len(b0)
        BY <1>1, EmptySeq, LenProperties
      <4> QED BY <1>1, <4>1, ElementOfSeq
    <3>3. \A x \in Entries : x.depth \in Nat
      BY DEF Entries
    <3>4. b0 # <<>> => b0[1].depth <= d0 + 1
      BY <1>2, <3>1, <3>2, <3>3
    <3> QED BY <3>4 DEF Ends
  <2> HIDE DEF d
  <2> QED BY <1>1, <1>2, <1>5, <1>6, <2>1, <2>2, FlatBegins
<1>16. a # <<>> /\ d # 0
  <2> HIDE DEF U, one
  <2>1. Len((a0 \o one) \o U) = Len(a0) + Len(one) + Len(U)
    <3>1. a0 \in Seq(Entries) /\ one \in Seq(Entries) /\ U \in Seq(Entries)
      BY <1>1, <1>7, <1>13
    <3>2. Regroups(a0, one, U, U, U, U)
      BY <3>1, Regroup
    <3> QED BY <3>2 DEF Regroups
  <2>2. Len(a0) \in Nat /\ Len(U) \in Nat
    BY <1>1, <1>13, LenProperties
  <2>3. Len(a) # 0
    BY <1>7, <2>1, <2>2
  <2>4. Len(<<>>) = 0
    OBVIOUS
  <2>5. d # 0
    BY <1>2
  <2> HIDE DEF a
  <2> QED BY <2>3, <2>4, <2>5
<1>17. ASSUME NEW g \in Heap, NEW w \in Seq(Node),
              \A n \in X \ (Subtree(h, s) \union {p}) : g[n].children = h[n].children,
              g[p].children = (u \o w) \o v
       PROVE  Block(g, 0, r) = (a \o Flat(PreRow(g, d), w)) \o b
  <2> DEFINE G == PreRow(g, d)
  <2>1. G \in [Node -> Seq(Entries)]
    BY <1>2, PreRowIs
  <2>2. Block(g, 0, r) = (a0 \o Block(g, d0, p)) \o b0
    <3>1. Subtree(h, s) \subseteq Subtree(h, p) /\ p \in Subtree(h, p)
      BY <1>8, SubtreeSplits
    <3>2. \A n \in X \ Subtree(h, p) : g[n].children = h[n].children
      BY <1>17, <3>1
    <3> QED BY <1>1, <3>2
  <2>3. Block(g, d0, p) = one \o Flat(G, g[p].children)
    <3> HIDE DEF d
    <3> QED BY <1>2, <1>3, PreRowIs DEF Block, Entry, d
  <2>4. Flat(G, u) = U
    <3>1. \A j \in DOMAIN u : /\ u[j] \in X /\ Fits(h, u[j], d)
                              /\ \A n \in Subtree(h, u[j]) : g[n].children = h[n].children
      <4>1. DOMAIN u = 1..Len(u)
        BY <1>6, LenProperties
      <4> QED BY <1>11, <1>17, <4>1 DEF Far
    <3>2. u \in Seq(Node)
      BY <1>6
    <3> HIDE DEF d, G
    <3>3. Flat(PreRow(g, d), u) = Flat(PreRow(h, d), u)
      BY <3>1, <3>2, BelowFrame
    <3> QED BY <3>3 DEF f, G
  <2>5. Flat(G, v) = W
    <3>1. \A j \in DOMAIN v : /\ v[j] \in X /\ Fits(h, v[j], d)
                              /\ \A n \in Subtree(h, v[j]) : g[n].children = h[n].children
      <4>1. DOMAIN v = 1..Len(v)
        BY <1>6, LenProperties
      <4> QED BY <1>12, <1>17, <4>1 DEF Far
    <3>2. v \in Seq(Node)
      BY <1>6
    <3> HIDE DEF d, G
    <3>3. Flat(PreRow(g, d), v) = Flat(PreRow(h, d), v)
      BY <3>1, <3>2, BelowFrame
    <3> QED BY <3>3 DEF f, G
  <2> HIDE DEF G, U, W, one
  <2> DEFINE Y == Flat(G, w)
  <2>6. Flat(G, (u \o w) \o v) = (U \o Y) \o W
    <3> DEFINE uw == u \o w
    <3>1. uw \in Seq(Node)
      BY <1>6, JoinsIs
    <3>2. Flat(G, uw) = Flat(G, u) \o Y
      BY <1>6, <2>1, FlatConcat
    <3> HIDE DEF uw
    <3>3. Flat(G, uw \o v) = Flat(G, uw) \o Flat(G, v)
      BY <1>6, <2>1, <3>1, FlatConcat
    <3> QED BY <2>4, <2>5, <3>2, <3>3 DEF uw
  <2>7. Y \in Seq(Entries)
    BY <2>1, FlatType
  <2> HIDE DEF Y
  <2>8. (a0 \o (one \o ((U \o Y) \o W))) \o b0 = (((a0 \o one) \o U) \o Y) \o (W \o b0)
    <3>1. /\ a0 \in Seq(Entries) /\ one \in Seq(Entries) /\ U \in Seq(Entries)
          /\ Y \in Seq(Entries) /\ W \in Seq(Entries) /\ b0 \in Seq(Entries)
      BY <1>1, <1>7, <1>13, <2>7
    <3>2. Regroups(a0, one, U, Y, W, b0)
      BY <3>1, Regroup
    <3> QED BY <3>2 DEF Regroups
  <2> QED BY <1>17, <2>2, <2>3, <2>6, <2>8 DEF Y, G
<1>18. IsPlace(h, X, r, p, s, u, v, a, b, d)
  <2>1. h[p].children = (u \o <<s>>) \o v
    BY <1>6 DEF q
  <2> HIDE DEF a, b, d
  <2> QED BY <1>6, <1>8, <1>14, <1>15, <1>16, <1>17, <2>1 DEF IsPlace
<1> QED BY <1>18 DEF u, v, s, q

(* A place is a context.                                                   *)
LEMMA PlaceIsContext ==
    ASSUME NEW h \in Heap, NEW X, NEW r, IsTree(h, X, r), NEW p \in X, NEW s \in X \ {r},
           h[s].parent = p,
           NEW u, NEW v, NEW a, NEW b, NEW d, IsPlace(h, X, r, p, s, u, v, a, b, d)
    PROVE  IsContext(h, X, r, s, a, b, d)
<1>1. p \notin Subtree(h, s) /\ s \in Node
  BY ParentIsOutside DEF IsTree
<1>2. ASSUME NEW g \in Heap, \A n \in X \ Subtree(h, s) : g[n].children = h[n].children
      PROVE  Block(g, 0, r) = (a \o Block(g, d, s)) \o b
  <2>1. <<s>> \in Seq(Node)
    BY <1>1
  <2>2. g[p].children = (u \o <<s>>) \o v
    BY <1>1, <1>2 DEF IsPlace
  <2>3. Block(g, 0, r) = (a \o Flat(PreRow(g, d), <<s>>)) \o b
    BY <1>2, <2>1, <2>2 DEF IsPlace
  <2>4. d \in 0..NodeCount
    BY FitsIs, NodeCountType DEF IsPlace
  <2>5. PreRow(g, d) \in [Node -> Seq(Entries)]
    BY <2>4, PreRowIs
  <2>6. Flat(PreRow(g, d), <<s>>) = Block(g, d, s)
    BY <1>1, <2>5, FlatOne DEF Block
  <2> QED BY <2>3, <2>6
<1> QED BY <1>2 DEF IsContext, IsPlace

(* Every node of a tree has a context ...                                  *)
LEMMA ContextExists ==
    ASSUME NEW h \in Heap, NEW X, NEW r, IsTree(h, X, r), NEW s \in X
    PROVE  \E a, b, d : IsContext(h, X, r, s, a, b, d)
<1> DEFINE T == {n \in X : \E a, b, d : IsContext(h, X, r, n, a, b, d)}
<1>1. X \subseteq Node /\ r \in X /\ X = Subtree(h, r)
  BY DEF IsTree
<1>2. r \in T
  <2>1. 0 \in 0..NodeCount
    BY NodeCountType
  <2>2. ASSUME NEW g \in Heap PROVE Block(g, 0, r) = (<<>> \o Block(g, 0, r)) \o <<>>
    <3>1. Block(g, 0, r) \in Seq(Entries)
      BY <1>1, <2>1, PreRowIs DEF Block
    <3> QED BY <3>1
  <2>3. IsContext(h, X, r, r, <<>>, <<>>, 0)
    BY <1>1, <2>2, FitsIs DEF IsContext, Ends
  <2> QED BY <1>1, <2>3
<1>3. ASSUME NEW p \in T \intersect Node, NEW c \in Children(h, p) PROVE c \in T
  <2>1. PICK a0, b0, d0 : IsContext(h, X, r, p, a0, b0, d0)
    OBVIOUS
  <2>2. PICK i \in DOMAIN h[p].children : h[p].children[i] = c
    BY InChildren
  <2>3. i \in 1..Len(h[p].children) /\ p \in X
    BY HeapFields
  <2>4. c \in X /\ h[c].parent = p
    BY <2>2, <2>3, TreeClosed DEF IsTree
  <2>5. c # r
    <3>1. h[r].parent = Null
      BY DEF IsTree
    <3> QED BY <2>4, <3>1, NodeAssumption
  <2> DEFINE q == h[p].children
             u == SubSeq(q, 1, i - 1)
             v == SubSeq(q, i + 1, Len(q))
  <2>6. PICK a, b, d : IsPlace(h, X, r, p, q[i], u, v, a, b, d)
    BY <2>1, <2>3, PlaceIs
  <2>7. IsPlace(h, X, r, p, c, u, v, a, b, d)
    BY <2>2, <2>6
  <2> HIDE DEF u, v
  <2>8. IsContext(h, X, r, c, a, b, d)
    BY <2>3, <2>4, <2>5, <2>7, PlaceIsContext
  <2> QED BY <2>4, <2>8
<1>4. Subtree(h, r) \subseteq T
  <2>1. \A p \in T \intersect Node : Children(h, p) \subseteq T
    BY <1>3
  <2> HIDE DEF T
  <2> QED BY <1>1, <1>2, <2>1, SubtreeLeast
<1> QED BY <1>1, <1>4

(* Every node but the root has a place.                                    *)
LEMMA PlaceExists ==
    ASSUME NEW h \in Heap, NEW X, NEW r, IsTree(h, X, r), NEW s \in X \ {r}
    PROVE  LET p == h[s].parent
               q == h[p].children
               i == h[s].index + 1
               u == SubSeq(q, 1, i - 1)
               v == SubSeq(q, i + 1, Len(q))
           IN  /\ p \in X /\ i \in 1..Len(q) /\ q[i] = s
               /\ \E a, b, d : IsPlace(h, X, r, p, s, u, v, a, b, d)
<1> DEFINE p == h[s].parent
           q == h[p].children
           i == h[s].index + 1
<1>1. p \in X /\ p \in Node /\ i \in DOMAIN q /\ q[i] = s
  BY DEF IsTree
<1>2. i \in 1..Len(q)
  BY <1>1, HeapFields
<1>3. PICK a0, b0, d0 : IsContext(h, X, r, p, a0, b0, d0)
  BY <1>1, ContextExists
<1> DEFINE u == SubSeq(q, 1, i - 1)
           v == SubSeq(q, i + 1, Len(q))
<1>4. \E a, b, d : IsPlace(h, X, r, p, q[i], u, v, a, b, d)
  <2> HIDE DEF p, i
  <2> QED BY <1>1, <1>2, <1>3, PlaceIs
<1> HIDE DEF u, v
<1>5. \E a, b, d : IsPlace(h, X, r, p, s, u, v, a, b, d)
  BY <1>1, <1>4
<1> QED BY <1>1, <1>2, <1>5 DEF u, v

-----------------------------------------------------------------------------
(* What the operations on nodes do to the list of a tree.                  *)

(* The list of a tree is a block, with the tree's nodes, each once.        *)
LEMMA ListIs ==
    ASSUME NEW h \in Heap, NEW X, NEW r, IsTree(h, X, r)
    PROVE  /\ Preorder(h, r) = Block(h, 0, r)
           /\ Block(h, 0, r) \in Seq(Entries) /\ Block(h, 0, r) # <<>>
           /\ NodesOf(Block(h, 0, r)) = X /\ NoRepeat(Block(h, 0, r))
<1>1. r \in X /\ r \in Node /\ X = Subtree(h, r)
  BY DEF IsTree
<1>2. Fits(h, r, 0)
  BY <1>1, FitsIs
<1>3. IsBlock(Block(h, 0, r), r, 0, Subtree(h, r)) /\ NoRepeat(Block(h, 0, r))
  BY <1>1, <1>2, BlocksAre, BlockHasNoRepeat
<1> DEFINE l == Block(h, 0, r)
<1> HIDE DEF l
<1>4. l \in Seq(Entries) /\ l # <<>> /\ NodesOf(l) = X
  BY <1>1, <1>3 DEF IsBlock, l
<1>5. Preorder(h, r) = Block(h, 0, r)
  BY <1>1, PreorderIs DEF Block
<1> QED BY <1>3, <1>4, <1>5 DEF l

(* A node and its block are somewhere in the list.                         *)
LEMMA BranchIs ==
    ASSUME NEW h \in Heap, NEW X, NEW r, IsTree(h, X, r), NEW s \in X
    PROVE  \E i \in DOMAIN Block(h, 0, r) :
              /\ Block(h, 0, r)[i].node = s
              /\ Abstract!Branch(Block(h, 0, r), i) = Block(h, 0, s)
<1>1. PICK a, b, d : IsContext(h, X, r, s, a, b, d)
  BY ContextExists
<1>2. /\ a \in Seq(Entries) /\ b \in Seq(Entries) /\ Fits(h, s, d) /\ Ends(b, d)
      /\ Block(h, 0, r) = (a \o Block(h, d, s)) \o b
  BY <1>1 DEF IsContext
<1> DEFINE l == (a \o Block(h, d, s)) \o b
           i == Len(a) + 1
<1>3. i \in DOMAIN l /\ l[i] = Entry(s, d) /\ Abstract!Branch(l, i) = Block(h, 0, s)
  BY <1>2, BlockCut DEF IsBlockCut
<1> HIDE DEF i, l
<1>4. l[i].node = s
  BY <1>3 DEF Entry
<1>5. Block(h, 0, r) = l
  BY <1>2 DEF l
<1> QED BY <1>3, <1>4, <1>5

(* s is no longer among its parent's children: its subtree is out of the   *)
(* list.                                                                   *)
Removed(h, g, X, s) ==
    LET p == h[s].parent
    IN  /\ g[p].children = RemoveAt(h[p].children, h[s].index + 1)
        /\ \A n \in X \ (Subtree(h, s) \union {p}) : g[n].children = h[n].children

LEMMA RemovalLists ==
    ASSUME NEW h \in Heap, NEW X, NEW r, IsTree(h, X, r), NEW s \in X \ {r},
           NEW g \in Heap, Removed(h, g, X, s)
    PROVE  \E i \in 2..Len(Block(h, 0, r)) :
              /\ Block(h, 0, r)[i].node = s /\ i \in DOMAIN Block(h, 0, r)
              /\ Abstract!Branch(Block(h, 0, r), i) = Block(h, 0, s)
              /\ Abstract!Without(Block(h, 0, r), i) = Block(g, 0, r)
<1> DEFINE p == h[s].parent
           q == h[p].children
           j == h[s].index + 1
           u == SubSeq(q, 1, j - 1)
           v == SubSeq(q, j + 1, Len(q))
<1>1. p \in X /\ j \in 1..Len(q) /\ q[j] = s /\ \E a, b, d : IsPlace(h, X, r, p, s, u, v, a, b, d)
  BY PlaceExists
<1>2. PICK a, b, d : IsPlace(h, X, r, p, s, u, v, a, b, d)
  BY <1>1, SMTT(30)
<1>3. g[p].children = u \o v /\ \A n \in X \ (Subtree(h, s) \union {p}) : g[n].children = h[n].children
  BY DEF Removed, RemoveAt
<1> HIDE DEF p, u, v, q, j
<1>4. /\ a \in Seq(Entries) /\ b \in Seq(Entries) /\ a # <<>> /\ Fits(h, s, d) /\ Ends(b, d)
      /\ u \in Seq(Node) /\ v \in Seq(Node)
  BY <1>2 DEF IsPlace
<1>5. h[s].parent = p
  BY DEF p
<1>6. IsContext(h, X, r, s, a, b, d)
  BY <1>1, <1>2, <1>5, PlaceIsContext
<1>7. Block(h, 0, r) = (a \o Block(h, d, s)) \o b
  BY <1>6 DEF IsContext
<1>8. Block(g, 0, r) = a \o b
  <2>1. <<>> \in Seq(Node) /\ g[p].children = (u \o <<>>) \o v
    BY <1>3, <1>4
  <2>2. Block(g, 0, r) = (a \o Flat(PreRow(g, d), <<>>)) \o b
    BY <1>2, <1>3, <2>1 DEF IsPlace
  <2>3. d \in 0..NodeCount
    BY <1>4, FitsIs, NodeCountType
  <2>4. Flat(PreRow(g, d), <<>>) = <<>>
    BY <2>3, PreRowIs, FlatEmpty
  <2>5. a \o <<>> = a
    BY <1>4
  <2> QED BY <2>2, <2>4, <2>5
<1> DEFINE l == (a \o Block(h, d, s)) \o b
           i == Len(a) + 1
<1>9. /\ i \in DOMAIN l /\ l[i] = Entry(s, d) /\ i \in 2..Len(l)
      /\ Abstract!Branch(l, i) = Block(h, 0, s)
      /\ Abstract!Without(l, i) = a \o b
  BY <1>4, BlockCut DEF IsBlockCut
<1> HIDE DEF i, l
<1>10. l[i].node = s
  BY <1>9 DEF Entry
<1>11. Block(h, 0, r) = l
  BY <1>7 DEF l
<1> QED BY <1>8, <1>9, <1>10, <1>11

(* A smaller subtree fits as well.                                         *)
LEMMA FitsFrame ==
    ASSUME NEW h \in Heap, NEW g \in Heap, NEW m \in Node, NEW d,
           Subtree(h, m) \subseteq Subtree(g, m), Fits(g, m, d)
    PROVE  Fits(h, m, d)
<1>1. IsFiniteSet(Subtree(g, m)) /\ IsFiniteSet(Subtree(h, m))
  BY SubtreeIn, FS_Subset, NodeAssumption
<1>2. TreeSize(h, m) <= TreeSize(g, m) /\ TreeSize(h, m) \in Nat /\ TreeSize(g, m) \in Nat
  BY <1>1, FS_Subset, FS_CardinalityType DEF TreeSize
<1> QED BY <1>2, NodeCountType DEF Fits

(* The list m is l with the tree of the list w as last child of n.         *)
Grows(l, n, w, m) == \E i \in DOMAIN l : l[i].node = n /\ Abstract!Under(l, i, w) = m

(* The list after insert_child: Under.                                     *)
LEMMA InsertionLists ==
    ASSUME NEW h \in Heap, NEW X, NEW r, NEW Y, NEW c, NEW p \in X,
           IsTree(h, X, r), IsTree(h, Y, c), X \intersect Y = {}
    PROVE  Grows(Block(h, 0, r), p, Block(h, 0, c), Block(InsertChild(h, p, c), 0, r))
<1> DEFINE g == InsertChild(h, p, c)
           Z == X \union Y
           q == h[p].children
<1>1. p \in Node /\ c \in Node /\ p # c /\ c \in Y
  BY DEF IsTree
<1>2. /\ g \in Heap /\ g[p].children = Append(q, c) /\ g[c].parent = p
      /\ \A n \in Node \ {p} : g[n].children = h[n].children
  BY <1>1, InsertChildIs
<1>3. IsTree(g, Z, r)
  BY InsertKeepsTrees
<1>4. q \in Seq(Node) /\ Append(q, c) = q \o <<c>> /\ <<c>> \in Seq(Node)
  BY <1>1, HeapFields
<1> HIDE DEF g
<1>5. PICK a, b, d : IsContext(g, Z, r, p, a, b, d)
  BY <1>2, <1>3, ContextExists
<1>6. /\ a \in Seq(Entries) /\ b \in Seq(Entries) /\ Fits(g, p, d) /\ Ends(b, d)
      /\ \A k \in Heap : (\A n \in Z \ Subtree(g, p) : k[n].children = g[n].children)
                           => Block(k, 0, r) = (a \o Block(k, d, p)) \o b
  BY <1>5 DEF IsContext
<1>7. p \in Subtree(g, p) /\ Z \subseteq Node /\ p \in Z
  BY <1>1, <1>2, <1>3, SubtreeIn DEF IsTree
<1>8. Block(g, 0, r) = (a \o Block(g, d, p)) \o b /\ Block(h, 0, r) = (a \o Block(h, d, p)) \o b
  BY <1>2, <1>6, <1>7
<1>9. \A x \in Children(g, p) : /\ x \in Z /\ Fits(g, x, d + 1)
                                /\ \A n \in Subtree(g, x) : h[n].children = g[n].children
  <2> TAKE x \in Children(g, p)
  <2>1. x \in Z /\ Fits(g, x, d + 1)
    BY <1>2, <1>3, <1>6, <1>7, BlockIs
  <2>2. g[x].parent = p
    BY <1>2, <1>3, <1>7, InChildren DEF IsTree
  <2>3. x # r
    <3>1. g[r].parent = Null
      BY <1>3 DEF IsTree
    <3> QED BY <1>1, <2>2, <3>1, NodeAssumption
  <2>4. p \notin Subtree(g, x)
    BY <1>2, <1>3, <2>1, <2>2, <2>3, ParentIsOutside
  <2>5. Subtree(g, x) \subseteq Node
    BY <1>2, <1>7, <2>1, SubtreeIn
  <2> QED BY <1>2, <2>1, <2>4, <2>5
<1>10. \A x \in Children(h, p) \union {c} : x \in Children(g, p)
  <2>1. ASSUME NEW x \in Children(h, p) PROVE x \in Children(g, p)
    <3>1. PICK i \in DOMAIN q : q[i] = x
      BY <1>1, InChildren
    <3>2. i \in DOMAIN Append(q, c) /\ Append(q, c)[i] = x
      BY <1>1, <1>4, <3>1
    <3> QED BY <1>1, <1>2, <3>2, InChildren
  <2>2. c \in Children(g, p)
    <3>1. Len(q) + 1 \in DOMAIN Append(q, c) /\ Append(q, c)[Len(q) + 1] = c
      BY <1>1, <1>4
    <3> QED BY <1>1, <1>2, <3>1, InChildren
  <2> QED BY <2>1, <2>2
<1>11. \A i \in DOMAIN q : q[i] \in Children(g, p)
  BY <1>1, <1>10, InChildren
<1>12. d \in Nat /\ d \in 0..NodeCount /\ d # NodeCount /\ d + 1 \in 0..NodeCount
  <2>1. p \in Z /\ g \in Heap /\ IsTree(g, Z, r) /\ Fits(g, p, d)
    BY <1>2, <1>3, <1>6, <1>7
  <2> HIDE DEF Z
  <2>2. d \in 0..(NodeCount - 1) /\ d + 1 \in 0..NodeCount
    BY <2>1, FitsIs
  <2> QED BY <2>2, NodeCountType
<1> DEFINE e == d + 1
           K == Block(h, 0, c)
<1>13. Flat(PreRow(h, e), q) = Flat(PreRow(g, e), q)
  <2>1. \A i \in DOMAIN q : /\ q[i] \in Z /\ Fits(g, q[i], e)
                            /\ \A n \in Subtree(g, q[i]) : h[n].children = g[n].children
    BY <1>9, <1>11
  <2> HIDE DEF e, Z
  <2> QED BY <1>2, <1>3, <1>4, <2>1, BelowFrame
<1>14. Block(g, e, c) = Abstract!Shift(K, e, 0)
  <2>1. c \in Z /\ Fits(g, c, e) /\ \A n \in Subtree(g, c) : h[n].children = g[n].children
    BY <1>9, <1>10
  <2>2. Fits(g, c, 0)
    BY <1>2, <1>3, <2>1, FitsIs
  <2> HIDE DEF e, Z
  <2>3. Block(h, 0, c) = Block(g, 0, c)
    BY <1>2, <1>3, <2>1, <2>2, BlockFrame
  <2>4. Abstract!Shift(Block(g, 0, c), e, 0) = Block(g, e, c)
    BY <1>2, <1>3, <2>1, BlockShifts
  <2> QED BY <2>3, <2>4
<1>15. Block(g, d, p) = Block(h, d, p) \o Abstract!Shift(K, e, 0)
  <2> DEFINE G == PreRow(g, e)
             one == <<Entry(p, d)>>
             B == Flat(G, q)
  <2>0. e \in 0..NodeCount
    BY <1>12
  <2>1. G \in [Node -> Seq(Entries)]
    <3> HIDE DEF e
    <3> QED BY <1>2, <2>0, PreRowIs
  <2>2. Block(g, d, p) = one \o Flat(G, g[p].children)
    <3>1. d # NodeCount /\ d \in 0..NodeCount /\ p \in Node
      BY <1>1, <1>12
    <3>2. PreRow(g, d)[p] = <<[node |-> p, depth |-> d]>> \o Flat(PreRow(g, d + 1), g[p].children)
      BY <1>2, <3>1, PreRowIs
    <3> QED BY <3>2 DEF Block, Entry
  <2>3. Block(h, d, p) = one \o B
    <3>1. Block(h, d, p) = one \o Flat(PreRow(h, e), q)
      <4>1. d # NodeCount /\ d \in 0..NodeCount /\ p \in Node
        BY <1>1, <1>12
      <4>2. PreRow(h, d)[p] = <<[node |-> p, depth |-> d]>> \o Flat(PreRow(h, d + 1), h[p].children)
        BY <4>1, PreRowIs
      <4> QED BY <4>2 DEF Block, Entry
    <3> QED BY <1>13, <3>1
  <2>4. one \in Seq(Entries)
    BY <1>1, <1>12, EntryIs DEF Entry
  <2> HIDE DEF G, one
  <2>5. Flat(G, q \o <<c>>) = B \o G[c]
    <3>1. q \in Seq(Node) /\ <<c>> \in Seq(Node) /\ c \in Node
      BY <1>1, <1>4
    <3> HIDE DEF q, B
    <3>2. Flat(G, q \o <<c>>) = Flat(G, q) \o Flat(G, <<c>>)
      BY <2>1, <3>1, FlatConcat
    <3>3. Flat(G, <<c>>) = G[c]
      BY <2>1, <3>1, FlatOne
    <3> QED BY <3>2, <3>3 DEF B
  <2>6. B \in Seq(Entries) /\ G[c] \in Seq(Entries)
    BY <1>1, <1>4, <2>1, FlatType
  <2> HIDE DEF B
  <2>7. Joins(one, B, G[c])
    BY <2>4, <2>6, JoinsIs
  <2>8. G[c] = Block(g, e, c)
    BY DEF Block, G
  <2> QED BY <1>2, <1>4, <1>14, <2>2, <2>3, <2>5, <2>7, <2>8 DEF Joins
<1>16. Fits(h, p, d)
  <2>1. \A m \in Subtree(g, p) \intersect Node : Children(h, m) \subseteq Subtree(g, p)
    <3> TAKE m \in Subtree(g, p) \intersect Node
    <3>1. Children(h, m) \subseteq Children(g, m)
      <4>1. CASE m = p
        BY <1>10, <4>1
      <4>2. CASE m # p
        BY <1>2, <4>2 DEF Children
      <4> QED BY <4>1, <4>2
    <3> QED BY <1>1, <1>2, <3>1, SubtreeClosed
  <2>2. Subtree(h, p) \subseteq Subtree(g, p)
    BY <1>1, <1>7, <2>1, SubtreeLeast
  <2> QED BY <1>1, <1>2, <1>6, <2>2, FitsFrame
<1> DEFINE l == (a \o Block(h, d, p)) \o b
           i == Len(a) + 1
<1>17. /\ i \in DOMAIN l /\ l[i] = Entry(p, d)
       /\ Abstract!Under(l, i, K) = ((a \o Block(h, d, p)) \o Abstract!Shift(K, d + 1, 0)) \o b
  <2>1. a \in Seq(Entries) /\ b \in Seq(Entries) /\ Ends(b, d)
    BY <1>6
  <2> HIDE DEF K
  <2>2. p \in X /\ h \in Heap /\ IsTree(h, X, r) /\ Fits(h, p, d)
    BY <1>16
  <2> HIDE DEF Z, q, e
  <2>3. IsBlockCut(h, p, d, a, b)
    BY <2>1, <2>2, BlockCut
  <2> QED BY <2>3 DEF IsBlockCut
<1> HIDE DEF K, i
<1>18. (a \o Block(h, d, p)) \o Abstract!Shift(K, d + 1, 0) = a \o Block(g, d, p)
  <2> DEFINE B == Block(h, d, p)
             C == Abstract!Shift(K, e, 0)
  <2>1. B \in Seq(Entries)
    BY <1>16, BlocksAre DEF IsBlock
  <2>2. C \in Seq(Entries)
    <3>0. e \in 0..NodeCount
      BY <1>12
    <3>1. PreRow(g, e) \in [Node -> Seq(Entries)]
      <4> HIDE DEF e
      <4> QED BY <1>2, <3>0, PreRowIs
    <3> QED BY <1>1, <1>14, <3>1 DEF Block
  <2> HIDE DEF B, C
  <2>3. Joins(a, B, C)
    BY <1>6, <2>1, <2>2, JoinsIs
  <2> QED BY <1>15, <2>3 DEF Joins, B, C
<1>19. l[i].node = p
  <2> HIDE DEF l
  <2> QED BY <1>17 DEF Entry
<1>20. Block(h, 0, r) = l /\ Abstract!Under(l, i, K) = Block(g, 0, r)
  BY <1>8, <1>17, <1>18
<1> HIDE DEF l
<1>21. Grows(Block(h, 0, r), p, K, Block(g, 0, r))
  BY <1>17, <1>19, <1>20 DEF Grows
<1> QED BY <1>21 DEF g, K

(* The children of p after merge_child.                                    *)
LEMMA MergedChildren ==
    ASSUME NEW h \in Heap, NEW p \in Node, NEW i
    PROVE  MergeChild(h, p, i)[p].children
             = Replaced(h[p].children, i, h[h[p].children[i + 1]].children)
BY DEF MergeChild, Replaced, Child, ChildCount

(* What takes the place of a node is what was below it.                    *)
LeavesChildren(h, g, X, s) ==
    LET p == h[s].parent
    IN  /\ g[p].children = Replaced(h[p].children, h[s].index, h[s].children)
        /\ \A n \in X \ {p, s} : g[n].children = h[n].children

(* The list after merge_child: Collapsed.                                  *)
LEMMA MergeLists ==
    ASSUME NEW h \in Heap, NEW X, NEW r, IsTree(h, X, r), NEW s \in X \ {r},
           NEW g \in Heap, LeavesChildren(h, g, X, s)
    PROVE  \E i \in 2..Len(Block(h, 0, r)) :
              /\ Block(h, 0, r)[i].node = s /\ i \in DOMAIN Block(h, 0, r)
              /\ Abstract!Collapsed(Block(h, 0, r), i) = Block(g, 0, r)
<1> DEFINE p == h[s].parent
           q == h[p].children
           j == h[s].index + 1
           u == SubSeq(q, 1, j - 1)
           v == SubSeq(q, j + 1, Len(q))
           w == h[s].children
<1>1. p \in X /\ j \in 1..Len(q) /\ q[j] = s /\ \E a, b, d : IsPlace(h, X, r, p, s, u, v, a, b, d)
  BY PlaceExists
<1>2. PICK a, b, d : IsPlace(h, X, r, p, s, u, v, a, b, d)
  BY <1>1
<1>3. s \in Node /\ X \subseteq Node /\ w \in Seq(Node) /\ h[s].index \in Nat /\ p \in Node
  BY <1>1, HeapFields, SMTT(30) DEF IsTree
<1>4. g[p].children = (u \o w) \o v /\ \A n \in X \ {p, s} : g[n].children = h[n].children
  <2>1. j - 1 = h[s].index /\ j + 1 = h[s].index + 2
    BY <1>3, SMTT(30)
  <2>2. Replaced(q, h[s].index, w) = (u \o w) \o v
    BY <2>1 DEF Replaced
  <2> QED BY <2>2 DEF LeavesChildren
<1>5. h[s].parent = p
  OBVIOUS
<1> HIDE DEF p, u, v, q, j
<1>6. /\ a \in Seq(Entries) /\ b \in Seq(Entries) /\ a # <<>> /\ d # 0 /\ Fits(h, s, d) /\ Ends(b, d)
  BY <1>2 DEF IsPlace
<1>7. d \in Nat /\ d - 1 \in Nat /\ (d - 1) + 1 = d
  BY <1>6 DEF Fits
<1>8. IsContext(h, X, r, s, a, b, d)
  BY <1>1, <1>2, <1>5, PlaceIsContext
<1>9. Block(h, 0, r) = (a \o Block(h, d, s)) \o b
  BY <1>8 DEF IsContext
<1>10. s \in Subtree(h, s) /\ p \notin Subtree(h, s) /\ r \notin Subtree(h, s)
  BY <1>3, <1>5, ParentIsOutside, SubtreeIn
<1>11. ASSUME NEW i \in DOMAIN w
       PROVE  /\ w[i] \in X /\ Fits(h, w[i], d)
              /\ \A n \in Subtree(h, w[i]) : g[n].children = h[n].children
  <2> DEFINE c == w[i]
  <2>1. c \in Children(h, s) /\ h[c].parent = s
    BY <1>3, InChildren DEF IsTree
  <2>2. c \in X /\ Fits(h, c, d + 1)
    BY <1>6, <2>1, FitsIs
  <2>3. Fits(h, c, d)
    <3>1. TreeSize(h, c) \in Nat /\ NodeCount \in Nat
      BY <2>2, SizeIs, NodeCountType
    <3> QED BY <1>7, <2>2, <3>1 DEF Fits
  <2>4. c \in Subtree(h, s) /\ c # r
    BY <1>3, <1>10, <2>1, SubtreeClosed
  <2> HIDE DEF c
  <2>5. s \notin Subtree(h, c)
    BY <2>1, <2>2, <2>4, ParentIsOutside
  <2>6. \A m \in Subtree(h, s) : Children(h, m) \subseteq Subtree(h, s)
    BY <1>3, SubtreeClosed
  <2>7. Subtree(h, c) \subseteq Subtree(h, s)
    BY <1>3, <2>2, <2>4, <2>6, SubtreeLeast
  <2>8. Subtree(h, c) \subseteq X
    BY <2>2, SubtreeParents
  <2> QED BY <1>4, <1>10, <2>2, <2>3, <2>5, <2>7, <2>8 DEF c
<1> HIDE DEF w
<1>12. Block(g, 0, r) = (a \o Flat(PreRow(g, d), w)) \o b
  BY <1>2, <1>3, <1>4, <1>10 DEF IsPlace
<1>13. Flat(PreRow(g, d), w) = Flat(PreRow(h, d), w)
  BY <1>3, <1>11, BelowFrame
<1>14. Flat(PreRow(h, d), w) = Below(h, d - 1, s)
  BY <1>7 DEF Below, w
<1> DEFINE l == (a \o Block(h, d, s)) \o b
           i == Len(a) + 1
<1>15. IsBlockCut(h, s, d, a, b)
  BY <1>6, BlockCut
<1>16. /\ i \in DOMAIN l /\ l[i] = Entry(s, d) /\ i \in 2..Len(l)
       /\ Abstract!Collapsed(l, i) = (a \o Below(h, d - 1, s)) \o b
  BY <1>6, <1>15 DEF IsBlockCut
<1> HIDE DEF i, l
<1>17. l[i].node = s
  BY <1>16 DEF Entry
<1>18. Block(h, 0, r) = l
  BY <1>9 DEF l
<1> QED BY <1>12, <1>13, <1>14, <1>16, <1>17, <1>18

-----------------------------------------------------------------------------
(* The list of a copy: the same depths, other nodes.                       *)
Renamed(copy) ==
    [e \in Entries |-> IF e.node \in DOMAIN copy THEN Entry(copy[e.node], e.depth) ELSE e]

IsCopy(h, g, copy, S) ==
    /\ S \subseteq Node /\ copy \in [S -> Node]
    /\ \A n \in S : /\ Children(h, n) \subseteq S
                    /\ g[copy[n]].children = Imaged(copy, h[n].children)

(* The entries of a copy.                                                  *)
LEMMA RenamedIs ==
    ASSUME NEW S, S \subseteq Node, NEW copy \in [S -> Node]
    PROVE  /\ IsMap(Renamed(copy), Entries, Entries)
           /\ \A m \in S, d \in Nat : Renamed(copy)[Entry(m, d)] = Entry(copy[m], d)
           /\ \A e \in Entries : Renamed(copy)[e].depth = e.depth
<1>1. \A e \in Entries : e.node \in S => Entry(copy[e.node], e.depth) \in Entries
  BY DEF Entry, Entries
<1>2. ASSUME NEW m \in S, NEW d \in Nat PROVE Renamed(copy)[Entry(m, d)] = Entry(copy[m], d)
  <2>1. Entry(m, d) \in Entries /\ Entry(m, d).node = m /\ Entry(m, d).depth = d
    BY DEF Entry, Entries
  <2> QED BY <2>1 DEF Renamed
<1>3. \A e \in Entries : Renamed(copy)[e].depth = e.depth
  BY DEF Renamed, Entry
<1>4. IsMap(Renamed(copy), Entries, Entries)
  BY <1>1 DEF Renamed, IsMap
<1> QED BY <1>2, <1>3, <1>4

LEMMA BelowCopied ==
    ASSUME NEW h \in Heap, NEW g \in Heap, NEW X, NEW r, IsTree(h, X, r), NEW S, NEW copy,
           IsCopy(h, g, copy, S), NEW m \in X \intersect S, NEW d, Fits(h, m, d),
           \A c \in Children(h, m) :
             Block(g, d + 1, copy[c]) = Imaged(Renamed(copy), Block(h, d + 1, c))
    PROVE  Below(g, d, copy[m]) = Imaged(Renamed(copy), Below(h, d, m))
<1> DEFINE q == h[m].children
           p == g[copy[m]].children
           f == PreRow(h, d + 1)
           e == PreRow(g, d + 1)
           R == Renamed(copy)
<1>1. /\ q \in Seq(Node) /\ m \in Node /\ f \in [Node -> Seq(Entries)]
      /\ d + 1 \in 0..NodeCount
  BY BlockIs
<1>2. e \in [Node -> Seq(Entries)]
  BY <1>1, PreRowIs
<1>3. \A i \in 1..Len(q) : q[i] \in Children(h, m)
  BY <1>1, HeapFields, InChildren
<1>4. /\ copy \in [S -> Node] /\ S \subseteq Node /\ Children(h, m) \subseteq S
      /\ p = [i \in DOMAIN q |-> copy[q[i]]]
  BY DEF IsCopy, Imaged
<1>5. p \in Seq(Node) /\ Len(p) = Len(q)
  <2>1. \A i \in 1..Len(q) : copy[q[i]] \in Node
    BY <1>3, <1>4
  <2>2. DOMAIN q = 1..Len(q) /\ Len(q) \in Nat
    BY <1>1, HeapFields
  <2> HIDE DEF q, p
  <2> QED BY <1>4, <2>1, <2>2
<1>6. \A i \in 1..Len(q) : e[p[i]] = Imaged(R, f[q[i]])
  <2>1. ASSUME NEW i \in 1..Len(q) PROVE p[i] = copy[q[i]]
    <3>1. DOMAIN q = 1..Len(q)
      BY <1>1, HeapFields
    <3> QED BY <1>4, <3>1
  <2> QED BY <1>3, <2>1 DEF Block
<1>7. IsMap(R, Entries, Entries)
  BY <1>4, RenamedIs
<1> HIDE DEF f, e, R, q, p
<1>8. Flat(e, p) = Imaged(R, Flat(f, q))
  <2>1. AreImages(e, p, R, f, q, Entries, Entries)
    BY <1>1, <1>2, <1>5, <1>6, <1>7 DEF AreImages
  <2> QED BY <2>1, FlatImaged
<1> QED BY <1>8 DEF Below, f, e, R, q, p

(* The block of a copy.                                                    *)
LEMMA BlockCopied ==
    ASSUME NEW h \in Heap, NEW g \in Heap, NEW X, NEW r, IsTree(h, X, r), NEW S, NEW copy,
           IsCopy(h, g, copy, S), NEW m \in X \intersect S, NEW d, Fits(h, m, d)
    PROVE  Block(g, d, copy[m]) = Imaged(Renamed(copy), Block(h, d, m))
<1> DEFINE R == Renamed(copy)
           Good(n, j) == Block(g, j, copy[n]) = Imaged(R, Block(h, j, n))
           T == {n \in X : n \in S => \A j : Fits(h, n, j) => Good(n, j)}
<1>1. ASSUME NEW n \in X, n \in S, NEW j, Children(h, n) \subseteq T, Fits(h, n, j)
      PROVE  Below(g, j, copy[n]) = Imaged(R, Below(h, j, n))
  <2>1. \A c \in Children(h, n) : Fits(h, c, j + 1)
    BY <1>1, BlockIs
  <2>2. \A c \in Children(h, n) : Good(c, j + 1)
    BY <1>1, <2>1 DEF IsCopy
  <2> QED BY <1>1, <2>2, BelowCopied
<1>2. ASSUME NEW n \in X, Children(h, n) \subseteq T PROVE n \in T
  <2>1. SUFFICES ASSUME n \in S, NEW j, Fits(h, n, j) PROVE Good(n, j)
    OBVIOUS
  <2>2. /\ j \in 0..NodeCount /\ j + 1 \in 0..NodeCount /\ n \in Node /\ Below(h, j, n) \in Seq(Entries)
        /\ Block(h, j, n) = <<Entry(n, j)>> \o Below(h, j, n)
    BY <2>1, BlockIs
  <2>3. S \subseteq Node /\ copy \in [S -> Node] /\ copy[n] \in Node
    BY <2>1 DEF IsCopy
  <2>4. Block(g, j, copy[n]) = <<Entry(copy[n], j)>> \o Below(g, j, copy[n])
    <3>1. j # NodeCount
      BY <2>2, NodeCountType
    <3>2. \A k \in Node : PreRow(g, j)[k]
            = <<[node |-> k, depth |-> j]>> \o Flat(PreRow(g, j + 1), g[k].children)
      BY <2>2, <3>1, PreRowIs
    <3> QED BY <2>3, <3>2 DEF Block, Entry, Below
  <2>5. Below(g, j, copy[n]) = Imaged(R, Below(h, j, n))
    BY <1>1, <1>2, <2>1
  <2>6. j \in Nat
    BY <2>2, NodeCountType
  <2> DEFINE one == <<Entry(n, j)>>
  <2>7. one \in Seq(Entries) /\ Len(one) = 1 /\ one[1] = Entry(n, j)
    BY <2>2, <2>6, EntryIs DEF Entry
  <2>8. IsMap(R, Entries, Entries) /\ R[Entry(n, j)] = Entry(copy[n], j)
    BY <2>1, <2>3, <2>6, RenamedIs
  <2>9. Imaged(R, one) = <<Entry(copy[n], j)>>
    BY <2>7, <2>8 DEF Imaged
  <2>10. PICK b : b = Below(h, j, n)
    OBVIOUS
  <2> HIDE DEF one, R
  <2>11. \A u, v \in Seq(Entries) : Imaged(R, u \o v) = Imaged(R, u) \o Imaged(R, v)
    BY <2>8, ImagedConcat
  <2>12. b \in Seq(Entries) /\ one \in Seq(Entries)
    BY <2>2, <2>7, <2>10
  <2>13. Imaged(R, one \o b) = Imaged(R, one) \o Imaged(R, b)
    BY <2>11, <2>12
  <2>14. Block(h, j, n) = one \o b
    BY <2>2, <2>10 DEF one
  <2>15. Block(g, j, copy[n]) = Imaged(R, one) \o Imaged(R, b)
    BY <2>4, <2>5, <2>9, <2>10
  <2> QED BY <2>13, <2>14, <2>15
<1>3. X \subseteq T
  <2> HIDE DEF T
  <2> QED BY <1>2, TreeInduction
<1> QED BY <1>3

(* A list without a repeated node has as many nodes as entries.            *)
LEMMA NoRepeatCount ==
    ASSUME NEW l \in Seq(Entries), NoRepeat(l)
    PROVE  Cardinality(NodesOf(l)) = Len(l)
<1> DEFINE f == [i \in 1..Len(l) |-> l[i].node]
<1>1. DOMAIN l = 1..Len(l) /\ Len(l) \in Nat
  BY LenProperties
<1>2. f \in Bijection(1..Len(l), NodesOf(l))
  <2>1. f \in [1..Len(l) -> NodesOf(l)]
    BY <1>1 DEF NodesOf
  <2>2. \A i, j \in 1..Len(l) : f[i] = f[j] => i = j
    BY <1>1 DEF NoRepeat
  <2>3. \A x \in NodesOf(l) : \E i \in 1..Len(l) : f[i] = x
    BY <1>1 DEF NodesOf
  <2> HIDE DEF f
  <2> QED BY <2>1, <2>2, <2>3 DEF Bijection, Injection, Surjection, IsInjective
<1>3. IsFiniteSet(1..Len(l)) /\ Cardinality(1..Len(l)) = Len(l)
  BY <1>1, FS_Interval
<1>4. ExistsBijection(1..Len(l), NodesOf(l))
  BY <1>2 DEF ExistsBijection
<1> QED BY <1>3, <1>4, FS_Bijection

-----------------------------------------------------------------------------
(* remove_child and what is done to the removed nodes afterwards.          *)
LEMMA RemovedIs ==
    ASSUME NEW h \in Heap, NEW X, NEW r, IsTree(h, X, r), NEW s \in X \ {r}, NEW g,
           \A n \in X \ Subtree(h, s) :
             g[n].children = RemoveChild(h, h[s].parent, h[s].index)[n].children
    PROVE  Removed(h, g, X, s)
<1> DEFINE p == h[s].parent
           k == RemoveChild(h, p, h[s].index)
<1>1. p \in X \ Subtree(h, s) /\ X \subseteq Node
  BY ParentIsOutside DEF IsTree
<1>2. \A n \in Node : k[n].children = IF n = p THEN RemoveAt(h[p].children, h[s].index + 1)
                                      ELSE h[n].children
  BY DEF RemoveChild
<1> HIDE DEF k, p
<1>3. /\ g[p].children = RemoveAt(h[p].children, h[s].index + 1)
      /\ \A n \in X \ (Subtree(h, s) \union {p}) : g[n].children = h[n].children
  BY <1>1, <1>2 DEF k, p
<1> QED BY <1>3 DEF Removed, p

(* In a list without repetition At is where the node is.                   *)
LEMMA AtIs ==
    ASSUME NEW l, NoRepeat(l), NEW i \in DOMAIN l, NEW n, l[i].node = n
    PROVE  Abstract!At(l, n) = i
BY DEF Abstract!At, NoRepeat

(* The list after remove_child and insert_child of the same node: Transfer.*)
LEMMA MoveLists ==
    ASSUME NEW h \in Heap, NEW X, NEW r, IsTree(h, X, r), NEW s \in X \ {r},
           NEW w \in X \ Subtree(h, s)
    PROVE  LET l == Block(h, 0, r)
               g == RemoveChild(h, h[s].parent, h[s].index)
           IN  \E i \in 2..Len(l) :
                 /\ i \in DOMAIN l
                 /\ w \in NodesOf(Abstract!Without(l, i))
                 /\ Abstract!Under(Abstract!Without(l, i), Abstract!At(Abstract!Without(l, i), w),
                                   Abstract!Branch(l, i))
                      = Block(InsertChild(g, w, s), 0, r)
<1> DEFINE l == Block(h, 0, r)
           p == h[s].parent
           S == Subtree(h, s)
           g == RemoveChild(h, p, h[s].index)
           C == ClearParentMetadata(g, s)
<1>1. /\ X \subseteq Node /\ s \in Node /\ w \in Node /\ s \in S /\ S \subseteq X /\ w # s
      /\ p \in X \ S /\ r \in X \ S
  BY ParentIsOutside, SubtreeIn, SubtreeParents DEF IsTree
<1>2. g \in Heap /\ IsTree(g, X \ S, r) /\ IsTree(C, S, s)
  BY DetachKeepsTrees
<1>3. \A n \in Node : g[n].children = IF n = p THEN RemoveAt(h[p].children, h[s].index + 1)
                                      ELSE h[n].children
  BY DEF RemoveChild
<1> HIDE DEF g
<1>4. /\ C \in Heap /\ C[s].children = g[s].children
      /\ \A n \in Node \ {s} : C[n] = g[n]
  BY <1>1, <1>2, ClearMetadataIs
<1> HIDE DEF C
<1>5. IsTree(C, X \ S, r)
  <2>1. \A n \in X \ S : C[n] = g[n]
    BY <1>1, <1>4
  <2> HIDE DEF S
  <2> QED BY <1>2, <1>4, <2>1, TreeFrame
<1>6. Removed(h, C, X, s)
  <2>1. \A n \in X \ S : C[n].children = g[n].children
    BY <1>1, <1>4
  <2> QED BY <2>1, RemovedIs DEF g
<1>7. PICK i \in 2..Len(l) : /\ i \in DOMAIN l
                             /\ Abstract!Branch(l, i) = Block(h, 0, s)
                             /\ Abstract!Without(l, i) = Block(C, 0, r)
  BY <1>4, <1>6, RemovalLists
<1>8. Block(h, 0, s) = Block(C, 0, s)
  <2>1. \A n \in S : C[n].children = h[n].children
    BY <1>1, <1>3, <1>4
  <2>2. Fits(h, s, 0)
    BY FitsIs
  <2> QED BY <1>4, <2>1, <2>2, BlockFrame
<1> DEFINE m == Block(C, 0, r)
<1>9. PICK j \in DOMAIN m :
        /\ m[j].node = w
        /\ Abstract!Under(m, j, Block(C, 0, s)) = Block(InsertChild(C, w, s), 0, r)
  <2> DEFINE Z == X \ S
  <2>1. Z \intersect S = {} /\ w \in Z /\ C \in Heap /\ IsTree(C, Z, r) /\ IsTree(C, S, s)
    BY <1>2, <1>4, <1>5
  <2> HIDE DEF S, Z, m
  <2>2. Grows(Block(C, 0, r), w, Block(C, 0, s), Block(InsertChild(C, w, s), 0, r))
    BY <2>1, InsertionLists
  <2> QED BY <2>2 DEF m, Grows
<1>10. NodesOf(m) = X \ S /\ NoRepeat(m)
  <2> HIDE DEF S
  <2> QED BY <1>4, <1>5, ListIs
<1> HIDE DEF m
<1>11. Abstract!At(m, w) = j
  BY <1>9, <1>10, AtIs
<1>12. InsertChild(C, w, s) = InsertChild(g, w, s)
  BY <1>1, <1>2, InsertForgets DEF C
<1> HIDE DEF S, p, l
<1>13. i \in 2..Len(l) /\ i \in DOMAIN l
  BY <1>7
<1>14. w \in NodesOf(Abstract!Without(l, i))
  BY <1>7, <1>10 DEF m, S
<1>15. Abstract!Under(Abstract!Without(l, i), Abstract!At(Abstract!Without(l, i), w),
                      Abstract!Branch(l, i)) = Block(InsertChild(g, w, s), 0, r)
  BY <1>7, <1>8, <1>9, <1>11, <1>12 DEF m
<1> QED BY <1>13, <1>14, <1>15 DEF l, g, p

-----------------------------------------------------------------------------
(* The lists of all the trees, and which of them a step changes.           *)
ListOf(h, r) == IF r = Null THEN <<>> ELSE Block(h, 0, r)

ListsAreTracked == preorder = [t \in Tree |-> ListOf(heap, root[t])]

(* The step leaves tree v and its nodes' children alone.                   *)
Kept(v) ==
    /\ root'[v] = root[v]
    /\ \A n \in Nodes(v) : heap'[n].children = heap[n].children

(* Lists, by the blocks.                                                   *)
LEMMA ListsAre ==
    ASSUME NEW h \in Heap, NEW R \in [Tree -> Node \union {Null}]
    PROVE  [t \in Tree |-> IF R[t] = Null THEN <<>> ELSE Preorder(h, R[t])]
             = [t \in Tree |-> ListOf(h, R[t])]
<1>1. \A n \in Node : Preorder(h, n) = Block(h, 0, n)
  BY PreorderIs DEF Block
<1>2. \A t \in Tree : (IF R[t] = Null THEN <<>> ELSE Preorder(h, R[t])) = ListOf(h, R[t])
  BY <1>1 DEF ListOf
<1> QED BY <1>2

(* The list of what a tree object owns ...                                 *)
LEMMA OwnedList ==
    ASSUME NEW h \in Heap, NEW X, NEW r, NEW lm, NEW rm, Owned(h, X, r, lm, rm)
    PROVE  /\ ListOf(h, r) \in Seq(Entries) /\ NodesOf(ListOf(h, r)) = X
           /\ NoRepeat(ListOf(h, r))
           /\ r = Null <=> ListOf(h, r) = <<>>
<1>1. CASE r = Null
  <2>1. ListOf(h, r) = <<>> /\ X = {}
    BY <1>1 DEF ListOf, Owned
  <2> QED BY <1>1, <2>1 DEF NodesOf, NoRepeat
<1>2. CASE r # Null
  <2>1. IsTree(h, X, r) /\ ListOf(h, r) = Block(h, 0, r)
    BY <1>2 DEF ListOf, Owned
  <2> QED BY <1>2, <2>1, ListIs
<1> QED BY <1>1, <1>2

(* ... depends on the children vectors of its nodes only.                  *)
LEMMA ListFrame ==
    ASSUME NEW h \in Heap, NEW g \in Heap, NEW X, NEW r, NEW lm, NEW rm, Owned(h, X, r, lm, rm),
           \A n \in X : g[n].children = h[n].children
    PROVE  ListOf(g, r) = ListOf(h, r)
<1>1. CASE r = Null
  BY <1>1 DEF ListOf
<1>2. CASE r # Null
  <2>1. IsTree(h, X, r) /\ r \in X /\ X = Subtree(h, r)
    BY <1>2 DEF Owned, IsTree
  <2>2. Fits(h, r, 0)
    BY <2>1, FitsIs
  <2>3. Block(g, 0, r) = Block(h, 0, r)
    BY <2>1, <2>2, BlockFrame
  <2> QED BY <1>2, <2>3 DEF ListOf
<1> QED BY <1>1, <1>2

LEMMA KeptList ==
    ASSUME IInv, heap' \in Heap, ListsAreTracked, ListsAreTracked', NEW v \in Tree, Kept(v)
    PROVE  preorder'[v] = preorder[v]
<1>1. heap \in Heap /\ Owned(heap, Nodes(v), root[v], leftmost[v], rightmost[v])
  BY DEF IInv, TypeOK, Owns
<1>2. ListOf(heap', root[v]) = ListOf(heap, root[v])
  <2>1. \A n \in Nodes(v) : heap'[n].children = heap[n].children
    BY DEF Kept
  <2> DEFINE X == Nodes(v)
  <2>2. IsTree(heap, X, root[v]) \/ root[v] = Null
    BY <1>1 DEF Owned
  <2> QED BY <1>1, <2>1, ListFrame
<1> QED BY <1>2 DEF ListsAreTracked, Kept

(* A step that changes one tree, and one that changes two.                 *)
LEMMA OneChanges ==
    ASSUME IInv, heap' \in Heap, ListsAreTracked, ListsAreTracked', NEW t \in Tree, NEW l,
           ListOf(heap', root'[t]) = l,
           \A v \in Tree \ {t} : Kept(v)
    PROVE  preorder' = [preorder EXCEPT ![t] = l]
<1>1. \A v \in Tree \ {t} : preorder'[v] = preorder[v]
  BY KeptList
<1>2. preorder'[t] = l
  BY DEF ListsAreTracked
<1>3. preorder = [v \in Tree |-> preorder[v]] /\ preorder' = [v \in Tree |-> preorder'[v]]
  BY DEF ListsAreTracked
<1> QED BY <1>1, <1>2, <1>3

LEMMA TwoChange ==
    ASSUME IInv, heap' \in Heap, ListsAreTracked, ListsAreTracked', NEW t \in Tree, NEW u \in Tree, t # u,
           NEW l, NEW m,
           ListOf(heap', root'[t]) = l, ListOf(heap', root'[u]) = m,
           \A v \in Tree \ {t, u} : Kept(v)
    PROVE  preorder' = [preorder EXCEPT ![t] = l, ![u] = m]
<1>1. \A v \in Tree \ {t, u} : preorder'[v] = preorder[v]
  BY KeptList
<1>2. preorder'[t] = l /\ preorder'[u] = m
  BY DEF ListsAreTracked
<1>3. preorder = [v \in Tree |-> preorder[v]] /\ preorder' = [v \in Tree |-> preorder'[v]]
  BY DEF ListsAreTracked
<1> QED BY <1>1, <1>2, <1>3

(* The list of a tree object.                                              *)
LEMMA TreeList ==
    ASSUME IInv, ListsAreTracked, NEW t \in Tree
    PROVE  /\ preorder[t] \in Seq(Entries) /\ NodesOf(preorder[t]) = Nodes(t)
           /\ NoRepeat(preorder[t]) /\ preorder[t] = ListOf(heap, root[t])
           /\ root[t] = Null <=> preorder[t] = <<>>
           /\ root[t] # Null => preorder[t] = Block(heap, 0, root[t])
<1>1. heap \in Heap /\ Owned(heap, Nodes(t), root[t], leftmost[t], rightmost[t])
  BY DEF IInv, TypeOK, Owns
<1>2. preorder[t] = ListOf(heap, root[t])
  BY DEF ListsAreTracked
<1>3. /\ ListOf(heap, root[t]) \in Seq(Entries) /\ NodesOf(ListOf(heap, root[t])) = Nodes(t)
      /\ NoRepeat(ListOf(heap, root[t]))
      /\ root[t] = Null <=> ListOf(heap, root[t]) = <<>>
  BY <1>1, OwnedList
<1>4. root[t] # Null => ListOf(heap, root[t]) = Block(heap, 0, root[t])
  BY DEF ListOf
<1> QED BY <1>2, <1>3, <1>4

(* The nodes in use are those that some _nodes has.                        *)
LEMMA UsedIs ==
    ASSUME IInv, ListsAreTracked
    PROVE  Abstract!Used = Node \ FreeNodes
<1>1. Abstract!Used = UNION {Nodes(t) : t \in Tree}
  <2>1. \A t \in Tree : Abstract!NodesOf(preorder[t]) = Nodes(t)
    BY TreeList DEF Abstract!NodesOf, NodesOf
  <2> QED BY <2>1 DEF Abstract!Used
<1>2. store \in [Node -> live \union {Null}] /\ live \subseteq Tree
  BY DEF IInv, TypeOK
<1> QED BY <1>1, <1>2, TreeAssumption DEF Nodes, FreeNodes

-----------------------------------------------------------------------------
(* What each member function does to the lists.                            *)
Step == IInv /\ IInv' /\ ListsAreTracked /\ ListsAreTracked'

LEMMA StepIs ==
    ASSUME Step
    PROVE  /\ heap \in Heap /\ heap' \in Heap /\ live \subseteq Tree
           /\ store \in [Node -> live \union {Null}]
           /\ root \in [Tree -> Node \union {Null}] /\ root' \in [Tree -> Node \union {Null}]
           /\ IInv /\ ListsAreTracked /\ ListsAreTracked'
           /\ \A t \in Tree : t # Null
BY TreeAssumption DEF Step, IInv, TypeOK

LEMMA ConstructIsNew ==
    ASSUME Step, NEW t \in Tree, Construct(t) PROVE Abstract!New(t)
BY DEF Step, ListsAreTracked, Construct, pointers, Abstract!New

(* What clear and the destructor do.                                       *)
LEMMA EmptyIs ==
    ASSUME Step, NEW t \in Tree, Destroyed(Nodes(t)), SetPointers(t, Null, Null, Null)
    PROVE  preorder' = [preorder EXCEPT ![t] = <<>>]
<1>1. \A v \in Tree \ {t} : Kept(v)
  <2> TAKE v \in Tree \ {t}
  <2>1. \A n \in Nodes(v) : n \in Node \ Nodes(t)
    BY DEF Nodes
  <2>2. \A n \in Nodes(v) : heap'[n] = heap[n]
    BY <2>1, StepIs, FreeIs DEF Destroyed
  <2>3. root'[v] = root[v]
    BY StepIs DEF SetPointers
  <2> QED BY <2>2, <2>3 DEF Kept
<1>2. ListOf(heap', root'[t]) = <<>>
  BY StepIs DEF SetPointers, ListOf
<1> QED BY <1>1, <1>2, StepIs, OneChanges

LEMMA ClearIsEmpty ==
    ASSUME Step, NEW t \in Tree, Clear(t) PROVE Abstract!Empty(t)
BY EmptyIs DEF Clear, Abstract!Empty

LEMMA DestroyIsDelete ==
    ASSUME Step, NEW t \in Tree, Destroy(t) PROVE Abstract!Delete(t)
BY EmptyIs DEF Destroy, Abstract!Delete

(* Move construction and assignment.                                       *)
LEMMA StealIsTake ==
    ASSUME Step, NEW t \in Tree, NEW u \in Tree, t # u, u \in live, Steal(t, u),
           live' = live \union {t}
    PROVE  Abstract!Take(t, u)
<1>1. \A v \in Tree \ {t} : \A n \in Nodes(v) : heap'[n] = heap[n]
  <2> TAKE v \in Tree \ {t}
  <2>1. \A n \in Nodes(v) : n \in Node \ Nodes(t)
    BY DEF Nodes
  <2> QED BY <2>1, StepIs, FreeIs DEF Steal
<1>2. /\ root'[t] = root[u] /\ root'[u] = Null
      /\ \A v \in Tree \ {t, u} : root'[v] = root[v]
  BY StepIs DEF Steal
<1>3. \A v \in Tree \ {t, u} : Kept(v)
  BY <1>1, <1>2 DEF Kept
<1>4. ListOf(heap', root[u]) = preorder[u]
  <2>1. Owned(heap, Nodes(u), root[u], leftmost[u], rightmost[u]) /\ preorder[u] = ListOf(heap, root[u])
    BY DEF Step, IInv, Owns, ListsAreTracked
  <2>2. \A n \in Nodes(u) : heap'[n].children = heap[n].children
    BY <1>1
  <2> QED BY <2>1, <2>2, StepIs, ListFrame
<1>5. ListOf(heap', root'[t]) = preorder[u] /\ ListOf(heap', root'[u]) = <<>>
  BY <1>2, <1>4 DEF ListOf
<1>6. preorder' = [preorder EXCEPT ![t] = preorder[u], ![u] = <<>>]
  BY <1>3, <1>5, StepIs, TwoChange
<1> QED BY <1>6 DEF Abstract!Take

(* swap.                                                                   *)
LEMMA SwapIsExchange ==
    ASSUME Step, NEW t \in Tree, NEW u \in Tree, Swap(t, u) PROVE Abstract!Exchange(t, u)
<1>1. /\ root'[t] = root[u] /\ root'[u] = root[t] /\ heap' = heap /\ t # u
      /\ \A v \in Tree \ {t, u} : root'[v] = root[v]
  BY StepIs DEF Swap
<1>2. \A v \in Tree \ {t, u} : Kept(v)
  BY <1>1 DEF Kept
<1>3. ListOf(heap', root'[t]) = preorder[u] /\ ListOf(heap', root'[u]) = preorder[t]
  BY <1>1 DEF Step, ListsAreTracked
<1>4. preorder' = [preorder EXCEPT ![t] = preorder[u], ![u] = preorder[t]]
  BY <1>1, <1>2, <1>3, StepIs, TwoChange
<1> QED BY <1>4 DEF Swap, Abstract!Exchange

(* The list of a node alone.                                               *)
LEMMA SingleIs ==
    ASSUME NEW h \in Heap, NEW n \in Node, h[n] = FreshNode
    PROVE  IsTree(h, {n}, n) /\ Block(h, 0, n) = <<Entry(n, 0)>>
<1>1. IsTree(h, {n}, n) /\ h[n].children = <<>>
  BY FreshIsTree DEF FreshNode
<1>2. Fits(h, n, 0)
  BY <1>1, FitsIs
<1>3. /\ Block(h, 0, n) = <<Entry(n, 0)>> \o Below(h, 0, n)
      /\ PreRow(h, 0 + 1) \in [Node -> Seq(Entries)]
  BY <1>1, <1>2, BlockIs
<1>4. Below(h, 0, n) = <<>>
  BY <1>1, <1>3, FlatEmpty DEF Below
<1>5. <<Entry(n, 0)>> \in Seq(Entries)
  BY EntryIs DEF Entry
<1>6. <<Entry(n, 0)>> \o <<>> = <<Entry(n, 0)>>
  BY <1>5
<1> QED BY <1>1, <1>3, <1>4, <1>6

(* emplace_node under a node of the tree.                                  *)
LEMMA EmplaceIsAdd ==
    ASSUME Step, NEW t \in Tree, NEW where \in Node, NEW n \in Node, Emplace(t, where, n)
    PROVE  \E i \in DOMAIN preorder[t] : Abstract!Add(t, i, n)
<1> DEFINE r == root[t]
           X == Nodes(t)
<1>1. /\ store[where] = t /\ t # Null /\ n \in FreeNodes /\ heap' = InsertChild(heap, where, n)
      /\ root' = [root EXCEPT ![t] = root[t]] /\ live' = live
  BY DEF Emplace, SetExtrema, SetPointers
<1>2. where \in X /\ r # Null /\ IsTree(heap, X, r)
  BY <1>1, StepIs, OwnerIs
<1>3. heap[n] = FreshNode /\ n \notin X
  BY <1>1, StepIs DEF IInv, FreeAreFresh, FreeNodes, Nodes
<1>4. IsTree(heap, {n}, n) /\ Block(heap, 0, n) = <<Entry(n, 0)>>
  BY <1>3, StepIs, SingleIs
<1>5. preorder[t] = Block(heap, 0, r)
  BY <1>2, StepIs, TreeList
<1>6. Grows(Block(heap, 0, r), where, Block(heap, 0, n), Block(InsertChild(heap, where, n), 0, r))
  <2>1. X \intersect {n} = {}
    BY <1>3
  <2> HIDE DEF X, r
  <2> QED BY <1>2, <1>4, <2>1, StepIs, InsertionLists
<1>7. PICK i \in DOMAIN preorder[t] :
        Abstract!Under(preorder[t], i, <<Entry(n, 0)>>) = Block(heap', 0, r)
  BY <1>1, <1>4, <1>5, <1>6 DEF Grows
<1>8. \A v \in Tree \ {t} : Kept(v)
  <2> TAKE v \in Tree \ {t}
  <2>1. \A m \in Nodes(v) : m \in Node \ {where}
    BY <1>1 DEF Nodes
  <2>2. where # n
    BY <1>2, <1>3
  <2>3. \A m \in Nodes(v) : heap'[m].children = heap[m].children
    BY <1>1, <2>1, <2>2, StepIs, InsertChildIs
  <2> QED BY <1>1, <2>3, StepIs DEF Kept
<1>9. ListOf(heap', root'[t]) = Abstract!Under(preorder[t], i, <<Entry(n, 0)>>)
  BY <1>1, <1>2, <1>7, StepIs DEF ListOf
<1>10. preorder' = [preorder EXCEPT ![t] = Abstract!Under(preorder[t], i, <<Entry(n, 0)>>)]
  BY <1>8, <1>9, StepIs, OneChanges
<1>11. Abstract!Entry(n, 0) = Entry(n, 0)
  BY DEF Abstract!Entry, Entry
<1>12. n \notin Abstract!Used
  BY <1>1, StepIs, UsedIs
<1> QED BY <1>1, <1>10, <1>11, <1>12 DEF Abstract!Add

(* emplace_node above the old root, or in an empty tree.                   *)
LEMMA EmplaceRootIsAddRoot ==
    ASSUME Step, NEW t \in Tree, NEW n \in Node, EmplaceRoot(t, n)
    PROVE  Abstract!AddRoot(t, n)
<1> DEFINE c == root[t]
           Y == Nodes(t)
           one == <<Entry(n, 0)>>
<1>1. n \in FreeNodes /\ t \in live /\ live' = live /\ t # Null
  BY StepIs DEF EmplaceRoot
<1>2. heap[n] = FreshNode /\ n \notin Y
  BY <1>1, StepIs DEF IInv, FreeAreFresh, FreeNodes, Nodes
<1>3. IsTree(heap, {n}, n) /\ Block(heap, 0, n) = one /\ one \in Seq(Entries)
  BY <1>2, StepIs, SingleIs, EntryIs DEF Entry
<1>4. root'[t] = n /\ \A v \in Tree \ {t} : root'[v] = root[v]
  BY StepIs DEF EmplaceRoot, SetPointers
<1>5. ListOf(heap', n) = one \o Abstract!Shift(preorder[t], 1, 0)
  <2>1. CASE c = Null
    <3>1. heap' = heap
      BY <2>1 DEF EmplaceRoot
    <3>2. ListOf(heap', n) = one
      BY <1>3, <3>1, NodeAssumption DEF ListOf
    <3>3. preorder[t] = <<>>
      BY <2>1, StepIs, TreeList
    <3>4. Abstract!Shift(<<>>, 1, 0) = <<>>
      BY DEF Abstract!Shift
    <3>5. one \o <<>> = one
      BY <1>3
    <3> QED BY <3>2, <3>3, <3>4, <3>5
  <2>2. CASE c # Null
    <3> DEFINE g == InsertChild(heap, n, c)
    <3>1. heap' = g
      BY <2>2 DEF EmplaceRoot
    <3>2. IsTree(heap, Y, c) /\ c \in Y /\ c \in Node /\ c # n /\ Fits(heap, c, 0)
      <4>1. IsTree(heap, Y, c)
        BY <2>2, StepIs, LiveIs
      <4>2. c \in Y /\ Y \subseteq Node
        BY <4>1 DEF IsTree
      <4> HIDE DEF Y, c
      <4> QED BY <1>2, <4>1, <4>2, StepIs, FitsIs
    <3>3. /\ g \in Heap /\ g[n].children = Append(heap[n].children, c)
          /\ \A m \in Node \ {n} : g[m].children = heap[m].children
      BY <3>2, StepIs, InsertChildIs
    <3>4. g[n].children = <<c>>
      BY <1>2, <3>3 DEF FreshNode
    <3>5. IsTree(g, {n} \union Y, n)
      <4>1. {n} \intersect Y = {} /\ n \in {n}
        BY <1>2
      <4> HIDE DEF Y, c
      <4> QED BY <1>3, <3>2, <4>1, StepIs, InsertKeepsTrees
    <3> DEFINE Z == {n} \union Y
    <3>6. n \in Z /\ c \in Z /\ c \in Children(g, n)
      <4>1. 1 \in DOMAIN g[n].children /\ g[n].children[1] = c
        BY <3>4
      <4> QED BY <3>2, <3>3, <4>1, InChildren
    <3> HIDE DEF g
    <3>7. Fits(g, n, 0)
      <4> HIDE DEF Z
      <4> QED BY <3>3, <3>5, <3>6, FitsIs DEF Z
    <3>8. /\ PreRow(g, 0 + 1) \in [Node -> Seq(Entries)] /\ Block(g, 0, n) = one \o Below(g, 0, n)
          /\ Fits(g, c, 0 + 1)
      <4> HIDE DEF Z, c
      <4> QED BY <3>3, <3>5, <3>6, <3>7, BlockIs DEF Z
    <3>9. Below(g, 0, n) = Block(g, 1, c)
      <4> HIDE DEF c
      <4> QED BY <3>2, <3>4, <3>8, FlatOne DEF Below, Block
    <3>10. Abstract!Shift(Block(g, 0, c), 1, 0) = Block(g, 1, c)
      <4> HIDE DEF Z, c
      <4> QED BY <3>3, <3>5, <3>6, <3>8, BlockShifts DEF Z
    <3>11. Block(g, 0, c) = Block(heap, 0, c)
      <4>1. Subtree(heap, c) = Y
        BY <3>2 DEF IsTree
      <4>2. \A m \in Subtree(heap, c) : g[m].children = heap[m].children
        BY <1>2, <3>3, <4>1 DEF Nodes
      <4> HIDE DEF Y, c
      <4> QED BY <3>2, <3>3, <4>2, StepIs, BlockFrame
    <3>12. preorder[t] = Block(heap, 0, c)
      BY <2>2, StepIs, TreeList
    <3>13. ListOf(g, n) = Block(g, 0, n)
      BY NodeAssumption DEF ListOf
    <3> HIDE DEF c
    <3> QED BY <3>1, <3>8, <3>9, <3>10, <3>11, <3>12, <3>13
  <2> QED BY <2>1, <2>2
<1>6. \A v \in Tree \ {t} : Kept(v)
  <2> TAKE v \in Tree \ {t}
  <2>1. \A m \in Nodes(v) : m \in Node \ {n}
    BY <1>1, StepIs DEF Nodes, FreeNodes
  <2>2. \A m \in Nodes(v) : heap'[m].children = heap[m].children
    <3>1. CASE root[t] = Null
      BY <3>1 DEF EmplaceRoot
    <3>2. CASE root[t] # Null
      <4>1. heap' = InsertChild(heap, n, c)
        BY <3>2 DEF EmplaceRoot
      <4>2. c \in Node /\ c # n
        <5>1. IsTree(heap, Y, c)
          BY <3>2, StepIs, LiveIs
        <5> QED BY <1>2, <5>1 DEF IsTree
      <4> QED BY <2>1, <4>1, <4>2, StepIs, InsertChildIs
    <3> QED BY <3>1, <3>2
  <2> QED BY <1>4, <2>2 DEF Kept
<1> HIDE DEF one
<1>7. preorder' = [preorder EXCEPT ![t] = one \o Abstract!Shift(preorder[t], 1, 0)]
  BY <1>4, <1>5, <1>6, StepIs, OneChanges
<1>8. <<Abstract!Entry(n, 0)>> = one
  BY DEF Abstract!Entry, Entry, one
<1>9. n \notin Abstract!Used
  BY <1>1, StepIs, UsedIs
<1> QED BY <1>1, <1>7, <1>8, <1>9 DEF Abstract!AddRoot

(* chop_subtree.                                                           *)
LEMMA ChopIsDetach ==
    ASSUME Step, NEW t \in Tree, NEW s \in Node, NEW u \in Tree, Chop(t, s, u)
    PROVE  \E i \in DOMAIN preorder[t] : Abstract!Detach(t, i, u)
<1> DEFINE X == Nodes(t)
           S == Subtree(heap, s)
           r == root[t]
           p == heap[s].parent
           g == RemoveChild(heap, p, heap[s].index)
<1>1. /\ store[s] = t /\ t # Null /\ s # r /\ u \in Tree \ live /\ live' = live \union {u}
      /\ heap' = ClearParentMetadata(g, s) /\ root' = [root EXCEPT ![u] = s]
  BY DEF Chop
<1>2. /\ t \in live /\ r # Null /\ r \in X \ S /\ X \subseteq Node /\ s \in S /\ S \subseteq X
      /\ p \in X \ S /\ IsTree(heap, X, r) /\ g \in Heap
      /\ \A n \in Node \ X : g[n] = heap[n]
  BY <1>1, StepIs, RemovalIs
<1>3. \A n \in Node : g[n].children = IF n = p THEN RemoveAt(heap[p].children, heap[s].index + 1)
                                      ELSE heap[n].children
  BY DEF RemoveChild
<1>4. \A n \in Node : heap'[n].children = g[n].children
  <2> HIDE DEF g
  <2>1. /\ heap'[s].children = g[s].children /\ \A n \in Node \ {s} : heap'[n] = g[n]
    BY <1>1, <1>2, ClearMetadataIs
  <2> QED BY <2>1
<1>5. s \in X \ {r}
  BY <1>1, <1>2
<1>6. Removed(heap, heap', X, s)
  <2>1. \A n \in X \ S : heap'[n].children = g[n].children
    BY <1>2, <1>4
  <2> HIDE DEF X, r
  <2> QED BY <1>2, <1>5, <2>1, StepIs, RemovedIs
<1>7. preorder[t] = Block(heap, 0, r)
  BY <1>2, StepIs, TreeList
<1>8. PICK i \in 2..Len(Block(heap, 0, r)) :
        /\ i \in DOMAIN Block(heap, 0, r)
        /\ Abstract!Branch(Block(heap, 0, r), i) = Block(heap, 0, s)
        /\ Abstract!Without(Block(heap, 0, r), i) = Block(heap', 0, r)
  <2> HIDE DEF X, r
  <2> QED BY <1>2, <1>5, <1>6, StepIs, RemovalLists
<1>9. Block(heap', 0, s) = Block(heap, 0, s)
  <2>1. \A n \in S : heap'[n].children = heap[n].children
    BY <1>2, <1>3, <1>4
  <2>2. Fits(heap, s, 0)
    <3> HIDE DEF X, r
    <3> QED BY <1>2, <1>5, StepIs, FitsIs
  <2> HIDE DEF X, r
  <2> QED BY <1>2, <1>5, <2>1, <2>2, StepIs, BlockFrame
<1>10. t # u /\ root'[t] = r /\ root'[u] = s /\ \A v \in Tree \ {t, u} : root'[v] = root[v]
  BY <1>1, <1>2, StepIs
<1>11. ListOf(heap', root'[t]) = Abstract!Without(preorder[t], i)
  BY <1>2, <1>7, <1>8, <1>10 DEF ListOf
<1>12. ListOf(heap', root'[u]) = Abstract!Branch(preorder[t], i)
  BY <1>7, <1>8, <1>9, <1>10, NodeAssumption DEF ListOf
<1>13. \A v \in Tree \ {t, u} : Kept(v)
  <2> TAKE v \in Tree \ {t, u}
  <2>1. \A n \in Nodes(v) : n \in Node \ X
    BY DEF Nodes
  <2>2. \A n \in Nodes(v) : heap'[n].children = heap[n].children
    BY <1>2, <1>4, <2>1
  <2> QED BY <1>10, <2>2 DEF Kept
<1>14. preorder' = [preorder EXCEPT ![t] = Abstract!Without(preorder[t], i),
                                    ![u] = Abstract!Branch(preorder[t], i)]
  BY <1>10, <1>11, <1>12, <1>13, StepIs, TwoChange
<1>15. i \in DOMAIN preorder[t]
  BY <1>7, <1>8
<1> QED BY <1>1, <1>14, <1>15 DEF Abstract!Detach

(* adopt_subtree.                                                          *)
LEMMA AdoptIsAttach ==
    ASSUME Step, NEW t \in Tree, NEW where \in Node, NEW u \in Tree, Adopt(t, where, u)
    PROVE  \E i \in DOMAIN preorder[t] : Abstract!Attach(t, i, u)
<1> DEFINE X == Nodes(t)
           Y == Nodes(u)
           r == root[t]
           c == root[u]
           g == InsertChild(heap, where, c)
<1>1. /\ store[where] = t /\ t # Null /\ u \in live /\ u # t /\ c # Null /\ live' = live
      /\ root' = [root EXCEPT ![u] = Null]
  BY DEF Adopt
<1>2. where \in X /\ r # Null /\ IsTree(heap, X, r)
  BY <1>1, StepIs, OwnerIs
<1>3. IsTree(heap, Y, c) /\ Y = Subtree(heap, c) /\ c \in Y
  BY <1>1, StepIs, LiveIs DEF IsTree
<1>4. X \intersect Y = {} /\ X \subseteq Node /\ Y \subseteq Node /\ c # where
  BY <1>1, <1>2, <1>3 DEF Nodes
<1>5. /\ g \in Heap /\ \A m \in Node \ {where} : g[m].children = heap[m].children
  BY <1>3, <1>4, StepIs, InsertChildIs
<1>6. heap' = Free(g, {})
  <2>1. Nodes(u) \ Subtree(heap, root[u]) = {}
    BY <1>3
  <2> QED BY <2>1 DEF Adopt
<1> HIDE DEF g
<1>7. \A m \in Node : heap'[m] = g[m]
  BY <1>5, <1>6, FreeIs
<1>8. heap' = g
  BY <1>5, <1>7, StepIs DEF Heap
<1>9. preorder[t] = Block(heap, 0, r) /\ preorder[u] = Block(heap, 0, c) /\ preorder[u] # <<>>
  BY <1>1, <1>2, StepIs, TreeList
<1>10. Grows(Block(heap, 0, r), where, Block(heap, 0, c), Block(g, 0, r))
  <2> HIDE DEF X, Y, r, c
  <2> QED BY <1>2, <1>3, <1>4, StepIs, InsertionLists DEF g
<1>11. PICK i \in DOMAIN preorder[t] :
         Abstract!Under(preorder[t], i, preorder[u]) = Block(heap', 0, r)
  BY <1>8, <1>9, <1>10 DEF Grows
<1>12. root'[t] = r /\ root'[u] = Null /\ \A v \in Tree \ {t, u} : root'[v] = root[v]
  BY <1>1, StepIs
<1>13. ListOf(heap', root'[t]) = Abstract!Under(preorder[t], i, preorder[u])
  BY <1>2, <1>11, <1>12 DEF ListOf
<1>14. ListOf(heap', root'[u]) = <<>>
  BY <1>12 DEF ListOf
<1>15. \A v \in Tree \ {t, u} : Kept(v)
  <2> TAKE v \in Tree \ {t, u}
  <2>1. \A m \in Nodes(v) : m \in Node \ {where}
    BY <1>1 DEF Nodes
  <2>2. \A m \in Nodes(v) : heap'[m].children = heap[m].children
    BY <1>5, <1>8, <2>1
  <2> QED BY <1>12, <2>2 DEF Kept
<1>16. preorder' = [preorder EXCEPT ![t] = Abstract!Under(preorder[t], i, preorder[u]), ![u] = <<>>]
  BY <1>1, <1>13, <1>14, <1>15, StepIs, TwoChange
<1> QED BY <1>1, <1>9, <1>16 DEF Abstract!Attach

(* move_subtree.                                                           *)
LEMMA MoveIsTransfer ==
    ASSUME Step, NEW t \in Tree, NEW where \in Node, NEW s \in Node, Move(t, where, s),
           "move" \notin Wild
    PROVE  \E i \in DOMAIN preorder[t] : Abstract!Transfer(t, i, where)
<1> DEFINE X == Nodes(t)
           S == Subtree(heap, s)
           r == root[t]
           p == heap[s].parent
           g == RemoveChild(heap, p, heap[s].index)
<1>1. /\ store[s] = t /\ store[where] = t /\ t # Null /\ s # r /\ ~HasParent(heap, where, s)
      /\ where # s /\ live' = live
      /\ heap' = InsertChild(g, where, s) /\ root' = [root EXCEPT ![t] = root[t]]
  BY DEF Move, SetExtrema, SetPointers
<1>2. /\ t \in live /\ r # Null /\ r \in X \ S /\ X \subseteq Node /\ s \in S /\ S \subseteq X
      /\ p \in X \ S /\ IsTree(heap, X, r) /\ g \in Heap
      /\ \A n \in Node \ X : g[n] = heap[n]
      /\ \A n \in X : InSubtree(n, s) <=> n \in S
  BY <1>1, StepIs, RemovalIs
<1>3. where \in X \ S
  BY <1>1, <1>2 DEF InSubtree, Nodes
<1>4. s \in X \ {r}
  BY <1>1, <1>2
<1>5. preorder[t] = Block(heap, 0, r)
  BY <1>2, StepIs, TreeList
<1>6. PICK i \in 2..Len(preorder[t]) :
        /\ i \in DOMAIN preorder[t]
        /\ where \in NodesOf(Abstract!Without(preorder[t], i))
        /\ Abstract!Under(Abstract!Without(preorder[t], i),
                          Abstract!At(Abstract!Without(preorder[t], i), where),
                          Abstract!Branch(preorder[t], i)) = Block(heap', 0, r)
  <2> HIDE DEF X, r
  <2> QED BY <1>1, <1>2, <1>3, <1>4, <1>5, StepIs, MoveLists
<1>7. \A v \in Tree \ {t} : Kept(v)
  <2> TAKE v \in Tree \ {t}
  <2>1. \A n \in Nodes(v) : n \in Node \ X
    BY DEF Nodes
  <2>2. \A n \in Node \ {where} : heap'[n].children = g[n].children
    <3>1. g \in Heap /\ where # s
      BY <1>1, <1>2
    <3> HIDE DEF g
    <3>2. \A n \in Node \ {where} : InsertChild(g, where, s)[n].children = g[n].children
      BY <3>1, InsertChildIs
    <3> QED BY <1>1, <3>2
  <2>3. \A n \in Nodes(v) : heap'[n].children = heap[n].children
    BY <1>2, <1>3, <2>1, <2>2
  <2> QED BY <1>1, <2>3, StepIs DEF Kept
<1> DEFINE rest == Abstract!Without(preorder[t], i)
           new == Abstract!Under(rest, Abstract!At(rest, where), Abstract!Branch(preorder[t], i))
<1>8. ListOf(heap', root'[t]) = new
  BY <1>1, <1>2, <1>6, StepIs DEF ListOf
<1>9. where \in Abstract!NodesOf(rest)
  BY <1>6 DEF Abstract!NodesOf, NodesOf
<1> HIDE DEF new
<1>10. preorder' = [preorder EXCEPT ![t] = new]
  BY <1>7, <1>8, StepIs, OneChanges
<1> QED BY <1>1, <1>6, <1>9, <1>10 DEF Abstract!Transfer, new

(* erase_subtree.                                                          *)
LEMMA EraseIsDrop ==
    ASSUME Step, NEW t \in Tree, NEW s \in Node, Erase(t, s)
    PROVE  \E i \in DOMAIN preorder[t] : Abstract!Drop(t, i)
<1> DEFINE X == Nodes(t)
           S == Subtree(heap, s)
           r == root[t]
           p == heap[s].parent
           g == RemoveChild(heap, p, heap[s].index)
<1>1. /\ store[s] = t /\ t # Null /\ s # r /\ live' = live
      /\ heap' = Free(g, S) /\ root' = [root EXCEPT ![t] = root[t]]
  BY DEF Erase, SetExtrema, SetPointers
<1>2. /\ t \in live /\ r # Null /\ r \in X \ S /\ X \subseteq Node /\ s \in S /\ S \subseteq X
      /\ p \in X \ S /\ IsTree(heap, X, r) /\ g \in Heap
      /\ \A n \in Node \ X : g[n] = heap[n]
  BY <1>1, StepIs, RemovalIs
<1>3. \A n \in Node \ S : heap'[n] = g[n]
  <2> HIDE DEF g, S
  <2> QED BY <1>1, <1>2, FreeIs
<1>4. s \in X \ {r}
  BY <1>1, <1>2
<1>5. Removed(heap, heap', X, s)
  <2>1. \A n \in X \ S : heap'[n].children = g[n].children
    BY <1>2, <1>3
  <2> HIDE DEF X, r
  <2> QED BY <1>2, <1>4, <2>1, StepIs, RemovedIs
<1>6. preorder[t] = Block(heap, 0, r)
  BY <1>2, StepIs, TreeList
<1>7. PICK i \in 2..Len(Block(heap, 0, r)) :
        /\ i \in DOMAIN Block(heap, 0, r)
        /\ Abstract!Without(Block(heap, 0, r), i) = Block(heap', 0, r)
  <2> HIDE DEF X, r
  <2> QED BY <1>2, <1>4, <1>5, StepIs, RemovalLists
<1>8. \A v \in Tree \ {t} : Kept(v)
  <2> TAKE v \in Tree \ {t}
  <2>1. \A n \in Nodes(v) : n \in Node \ X
    BY DEF Nodes
  <2>2. \A n \in Nodes(v) : heap'[n].children = heap[n].children
    BY <1>2, <1>3, <2>1
  <2> QED BY <1>1, <2>2, StepIs DEF Kept
<1>9. ListOf(heap', root'[t]) = Abstract!Without(preorder[t], i)
  BY <1>1, <1>2, <1>6, <1>7, StepIs DEF ListOf
<1>10. preorder' = [preorder EXCEPT ![t] = Abstract!Without(preorder[t], i)]
  BY <1>8, <1>9, StepIs, OneChanges
<1> QED BY <1>1, <1>6, <1>7, <1>10 DEF Abstract!Drop

(* merge_with_parent.                                                      *)
LEMMA MergedIs ==
    ASSUME IInv, NEW t \in Tree, NEW n \in Node, Merge(t, n)
    PROVE  LET X == Nodes(t)
               p == heap[n].parent
           IN  /\ heap \in Heap /\ heap' \in Heap /\ t # Null /\ t \in live /\ live' = live
               /\ store' = Give({n}, Null) /\ root' = [root EXCEPT ![t] = root[t]]
               /\ root[t] # Null /\ IsTree(heap, X, root[t])
               /\ n \in X \ {root[t]} /\ p \in X \ {n}
               /\ LeavesChildren(heap, heap', X, n)
               /\ \A m \in Node \ X : heap'[m] = heap[m]
<1> DEFINE X == Nodes(t)
           r == root[t]
           p == heap[n].parent
           g == MergeChild(heap, p, heap[n].index)
<1>1. /\ store[n] = t /\ t # Null /\ p # Null /\ live' = live /\ heap \in Heap
      /\ heap' = Free(g, {n}) /\ root' = [root EXCEPT ![t] = root[t]] /\ store' = Give({n}, Null)
  BY DEF Merge, SetExtrema, SetPointers, IInv, TypeOK
<1>2. /\ r # Null /\ IsTree(heap, X, r) /\ n \in X /\ X \subseteq Node /\ t \in live
  BY <1>1, OwnerIs DEF IsTree
<1>3. n \in X \ {r}
  BY <1>1, <1>2 DEF IsTree
<1>4. /\ p \in X /\ heap[n].index + 1 \in DOMAIN heap[p].children
      /\ heap[p].children[heap[n].index + 1] = n /\ heap[n].index \in Nat
  BY <1>1, <1>2, <1>3, HeapFields DEF IsTree
<1>5. g \in Heap /\ SameOutside(g, heap, X)
  <2> HIDE DEF X, r
  <2> QED BY <1>1, <1>2, <1>3, MergeKeepsTrees
<1>6. p # n
  <2> HIDE DEF X, r
  <2> QED BY <1>1, <1>2, <1>3, ParentIsOutside, SubtreeIn
<1>7. g[p].children = Replaced(heap[p].children, heap[n].index, heap[n].children)
  BY <1>1, <1>2, <1>4, MergedChildren, SMTT(30)
<1>8. \A m \in Node \ {p, n} : g[m].children = heap[m].children
  BY <1>1, <1>2, <1>4 DEF MergeChild, Child
<1> HIDE DEF g
<1>9. heap' \in Heap /\ \A m \in Node \ {n} : heap'[m] = g[m]
  BY <1>1, <1>5, FreeIs
<1>10. LeavesChildren(heap, heap', X, n)
  <2>1. heap'[p].children = Replaced(heap[p].children, heap[n].index, heap[n].children)
    BY <1>2, <1>4, <1>6, <1>7, <1>9
  <2>2. \A m \in X \ {p, n} : heap'[m].children = heap[m].children
    BY <1>2, <1>8, <1>9
  <2> QED BY <2>1, <2>2 DEF LeavesChildren
<1>11. \A m \in Node \ X : heap'[m] = heap[m]
  BY <1>2, <1>5, <1>9 DEF SameOutside
<1> QED BY <1>1, <1>2, <1>3, <1>4, <1>6, <1>9, <1>10, <1>11

LEMMA MergeIsCollapse ==
    ASSUME Step, NEW t \in Tree, NEW n \in Node, Merge(t, n)
    PROVE  \E i \in DOMAIN preorder[t] : Abstract!Collapse(t, i)
<1> DEFINE X == Nodes(t)
           r == root[t]
<1>1. /\ live' = live /\ root' = [root EXCEPT ![t] = root[t]]
      /\ r # Null /\ IsTree(heap, X, r) /\ n \in X \ {r}
      /\ LeavesChildren(heap, heap', X, n) /\ \A m \in Node \ X : heap'[m] = heap[m]
  BY StepIs, MergedIs
<1>2. preorder[t] = Block(heap, 0, r)
  BY <1>1, StepIs, TreeList DEF Nodes
<1>3. PICK i \in 2..Len(Block(heap, 0, r)) :
        /\ i \in DOMAIN Block(heap, 0, r)
        /\ Abstract!Collapsed(Block(heap, 0, r), i) = Block(heap', 0, r)
  <2> HIDE DEF X, r
  <2> QED BY <1>1, StepIs, MergeLists
<1>4. \A v \in Tree \ {t} : Kept(v)
  <2> TAKE v \in Tree \ {t}
  <2>1. \A m \in Nodes(v) : m \in Node \ X
    BY DEF Nodes
  <2> QED BY <1>1, <2>1, StepIs DEF Kept
<1>5. ListOf(heap', root'[t]) = Abstract!Collapsed(preorder[t], i)
  BY <1>1, <1>2, <1>3, StepIs DEF ListOf
<1>6. preorder' = [preorder EXCEPT ![t] = Abstract!Collapsed(preorder[t], i)]
  BY <1>4, <1>5, StepIs, OneChanges
<1> QED BY <1>1, <1>2, <1>3, <1>6 DEF Abstract!Collapse

(* Cardinality, seen from Forest.                                          *)
LEMMA CardinalityIs == ASSUME NEW S PROVE Abstract!Cardinality(S) = Cardinality(S)
BY DEF Abstract!Cardinality, Cardinality

(* Copy construction and assignment.                                       *)
LEMMA CopyIs ==
    ASSUME Step, NEW t \in Tree, NEW from \in Node, store[from] # Null, store[from] # t,
           CopyContents(t, from), live' = live \union {t}
    PROVE  \E u \in Tree : \E i \in DOMAIN preorder[u] : Abstract!Copy(t, u, i)
<1> DEFINE u == store[from]
           X == Nodes(u)
           r == root[u]
           cleared == Free(heap, Nodes(t))
           S == Subtree(heap, from)
<1>1. PICK copy \in [S -> FreeNodes \union Nodes(t)] :
        /\ \A m, n \in S : copy[m] = copy[n] => m = n
        /\ heap' = Copies(cleared, from, copy)
        /\ store' = [n \in Node |-> IF \E m \in S : copy[m] = n THEN t
                                    ELSE IF store[n] = t THEN Null ELSE store[n]]
        /\ SetPointers(t, copy[from], LeftmostChildOrThis(heap', copy[from]),
                                      RightmostChildOrThis(heap', copy[from]))
  BY DEF CopyContents
<1>2. /\ cleared \in Heap
      /\ \A n \in Node \ Nodes(t) : cleared[n] = heap[n]
  BY StepIs, FreeIs
<1>3. /\ from \in X /\ X \subseteq Node /\ IsTree(heap, X, r) /\ u \in Tree /\ r # Null
  BY StepIs, OwnerIs DEF Nodes
<1>4. \A n \in X : cleared[n] = heap[n]
  BY <1>2 DEF Nodes
<1>5. IsTree(cleared, X, r) /\ Subtree(cleared, from) = S
  <2> HIDE DEF cleared, X, u
  <2>1. IsTree(cleared, X, r)
    BY <1>2, <1>3, <1>4, StepIs, TreeFrame
  <2>2. Subtree(cleared, from) = S
    BY <1>2, <1>3, <1>4, StepIs, SubtreeFrame
  <2> QED BY <2>1, <2>2
<1>6. from \in S /\ S \subseteq X /\ \A n \in S : Children(heap, n) \subseteq S
  <2> HIDE DEF X, u, r
  <2> QED BY <1>3, StepIs, SubtreeParents
<1>7. /\ copy \in [S -> Node] /\ \A n \in S : copy[n] \in FreeNodes \/ copy[n] \in Nodes(t)
  BY <1>1 DEF FreeNodes, Nodes
<1>8. /\ \A m \in Node : (\A n \in S : copy[n] # m) => heap'[m] = cleared[m]
      /\ \A n \in S : heap'[copy[n]].children
                        = [i \in DOMAIN cleared[n].children |-> copy[cleared[n].children[i]]]
  <2> HIDE DEF cleared, X, u, S, r
  <2>1. \A m, n \in Subtree(cleared, from) : copy[m] = copy[n] => m = n
    BY <1>1, <1>5
  <2>2. copy \in [Subtree(cleared, from) -> Node]
    BY <1>5, <1>7
  <2>3. /\ \A m \in Node : (\A n \in Subtree(cleared, from) : copy[n] # m)
                             => Copies(cleared, from, copy)[m] = cleared[m]
        /\ \A n \in Subtree(cleared, from) :
             Copies(cleared, from, copy)[copy[n]].children
               = [i \in DOMAIN cleared[n].children |-> copy[cleared[n].children[i]]]
    BY <1>2, <1>3, <1>5, <2>1, <2>2, CopiesAre
  <2> QED BY <1>1, <1>5, <2>3
<1>9. IsCopy(heap, heap', copy, S)
  <2>1. \A n \in S : cleared[n].children = heap[n].children
    BY <1>4, <1>6
  <2> HIDE DEF cleared, X, u, S
  <2>2. \A n \in S : heap'[copy[n]].children = Imaged(copy, heap[n].children)
    BY <1>8, <2>1 DEF Imaged
  <2> QED BY <1>3, <1>6, <1>7, <2>2 DEF IsCopy
<1> DEFINE b == Block(heap, 0, from)
           l == Block(heap', 0, copy[from])
<1>10. l = Imaged(Renamed(copy), b)
  <2>1. Fits(heap, from, 0)
    <3> HIDE DEF X, u, r
    <3> QED BY <1>3, StepIs, FitsIs
  <2>2. from \in X \intersect S
    BY <1>3, <1>6
  <2> HIDE DEF X, u, S, r
  <2> QED BY <1>3, <1>9, <2>1, <2>2, StepIs, BlockCopied
<1>11. b \in Seq(Entries)
  <2>1. Fits(heap, from, 0) /\ from \in X
    <3> HIDE DEF X, u, r
    <3> QED BY <1>3, StepIs, FitsIs
  <2> HIDE DEF X, u, S, r
  <2>2. IsBlock(Block(heap, 0, from), from, 0, Subtree(heap, from))
    BY <1>3, <2>1, StepIs, BlocksAre
  <2> QED BY <2>2 DEF IsBlock
<1>12. root'[t] = copy[from] /\ \A v \in Tree \ {t} : root'[v] = root[v]
  BY <1>1, StepIs DEF SetPointers
<1>13. copy[from] # Null /\ preorder'[t] = l
  <2>1. copy[from] # Null
    BY <1>6, <1>7, NodeAssumption
  <2> QED BY <1>12, <2>1, StepIs DEF ListsAreTracked, ListOf
<1>14. l \in Seq(Entries) /\ NoRepeat(l) /\ NodesOf(l) = Nodes(t)'
  <2>1. IsTree(heap', Nodes(t)', copy[from])
    BY <1>12, <1>13 DEF Step, IInv, Owns, Owned
  <2> QED BY <2>1, StepIs, ListIs
<1>15. /\ Len(l) = Len(b) /\ Len(b) \in Nat
       /\ \A k \in 1..Len(b) : l[k].depth = b[k].depth
  <2>1. S \subseteq Node
    BY <1>3, <1>6
  <2> HIDE DEF S, b, l
  <2>2. IsMap(Renamed(copy), Entries, Entries) /\ \A e \in Entries : Renamed(copy)[e].depth = e.depth
    BY <1>7, <2>1, RenamedIs
  <2>3. /\ Len(l) = Len(b) /\ \A k \in 1..Len(b) : l[k] = Renamed(copy)[b[k]]
    BY <1>10, <1>11, <2>2, ImagedIs
  <2>4. Len(b) \in Nat /\ \A k \in 1..Len(b) : b[k] \in Entries
    BY <1>11
  <2> QED BY <2>2, <2>3, <2>4
<1>16. PICK i \in DOMAIN preorder[u] : Abstract!Branch(preorder[u], i) = b
  <2>1. preorder[u] = Block(heap, 0, r)
    BY <1>3, StepIs, TreeList
  <2> HIDE DEF X, u, S, r
  <2> QED BY <1>3, <2>1, StepIs, BranchIs
<1> HIDE DEF b, l
<1>17. \A k \in DOMAIN l : l[k].node \notin Abstract!Used \ Abstract!NodesOf(preorder[t])
  <2>1. Abstract!NodesOf(preorder[t]) = Nodes(t)
    BY StepIs, TreeList DEF Abstract!NodesOf, NodesOf
  <2>2. Abstract!Used = Node \ FreeNodes
    BY StepIs, UsedIs
  <2>3. \A k \in DOMAIN l : l[k].node \in Nodes(t)'
    BY <1>14 DEF NodesOf
  <2>4. \A n \in Nodes(t)' : n \in FreeNodes \/ n \in Nodes(t)
    <3> SUFFICES ASSUME NEW n \in Node, store'[n] = t PROVE n \in FreeNodes \/ n \in Nodes(t)
      BY DEF Nodes
    <3>1. CASE \E m \in S : copy[m] = n
      BY <1>7, <3>1
    <3>2. CASE ~\E m \in S : copy[m] = n
      <4>1. store[n] = t
        BY <1>1, <3>2, StepIs
      <4> QED BY <4>1 DEF Nodes
    <3> QED BY <3>1, <3>2
  <2> QED BY <2>1, <2>2, <2>3, <2>4
<1>18. Abstract!Cardinality(Abstract!NodesOf(l)) = Len(b)
  <2>1. Abstract!NodesOf(l) = NodesOf(l)
    BY DEF Abstract!NodesOf, NodesOf
  <2> QED BY <1>14, <1>15, <2>1, NoRepeatCount, CardinalityIs
<1>19. [k \in DOMAIN l |-> l[k].depth] = [k \in DOMAIN b |-> b[k].depth]
  <2>1. DOMAIN l = 1..Len(b) /\ DOMAIN b = 1..Len(b)
    BY <1>11, <1>14, <1>15
  <2> QED BY <1>15, <2>1
<1>20. \A v \in Tree \ {t} : preorder'[v] = preorder[v]
  <2> TAKE v \in Tree \ {t}
  <2>1. \A m \in Nodes(v) : m \in Node /\ m \notin Nodes(t) /\ m \notin FreeNodes
    BY StepIs DEF Nodes, FreeNodes
  <2>2. \A m \in Nodes(v) : \A n \in S : copy[n] # m
    BY <1>7, <2>1
  <2>3. \A m \in Nodes(v) : heap'[m] = heap[m]
    BY <1>2, <1>8, <2>1, <2>2
  <2>4. Kept(v)
    BY <1>12, <2>3 DEF Kept
  <2> QED BY <2>4, StepIs, KeptList
<1>21. Abstract!Copy(t, u, i)
  BY <1>13, <1>16, <1>17, <1>18, <1>19, <1>20 DEF Abstract!Copy
<1> QED BY <1>3, <1>21

-----------------------------------------------------------------------------
(* Every step of the trees is a step of the lists.                         *)

LEMMA ListsListed ==
    ASSUME heap \in Heap, root \in [Tree -> Node \union {Null}]
    PROVE  Lists = [t \in Tree |-> ListOf(heap, root[t])]
BY ListsAre DEF Lists

LEMMA ListsListedNext ==
    ASSUME heap' \in Heap, root' \in [Tree -> Node \union {Null}]
    PROVE  Lists' = [t \in Tree |-> ListOf(heap', root'[t])]
BY ListsAre DEF Lists

(* At first there are no trees on either side.                             *)
LEMMA InitMaps == ASSUME RInit PROVE IInv /\ ListsAreTracked /\ Abstract!FInit
<1>1. IInv
  BY InitIInv DEF RInit
<1>2. ListsAreTracked
  BY <1>1, ListsListed DEF RInit, ListsAreTracked, IInv, TypeOK
<1>3. Abstract!FInit
  BY <1>2 DEF RInit, Init, ListsAreTracked, ListOf, Abstract!FInit
<1> QED BY <1>1, <1>2, <1>3

LEMMA OrderKeptMaps == ASSUME Step, OrderKept PROVE Abstract!FNext
<1>1. PICK t \in Tree :
        \/ Construct(t) \/ Clear(t) \/ Destroy(t)
        \/ \E u \in Tree : \/ MoveConstruct(t, u) \/ MoveAssign(t, u)
                           \/ Swap(t, u) \/ ChopRoot(t, u)
        \/ \E n \in Node : \/ CopyConstruct(t, n) \/ EmplaceRoot(t, n)
                           \/ Erase(t, n) \/ Merge(t, n)
        \/ \E n, m \in Node : Emplace(t, n, m)
        \/ \E n \in Node, u \in Tree : Chop(t, n, u) \/ Adopt(t, n, u)
  BY DEF OrderKept
<1>2. CASE Construct(t) \/ Clear(t) \/ Destroy(t)
  BY <1>2, ConstructIsNew, ClearIsEmpty, DestroyIsDelete DEF Abstract!FNext
<1>3. ASSUME NEW u \in Tree, MoveConstruct(t, u) \/ MoveAssign(t, u) PROVE Abstract!FNext
  <2>1. t # u /\ u \in live /\ Steal(t, u) /\ live' = live \union {t}
    BY <1>3 DEF MoveConstruct, MoveAssign
  <2> QED BY <2>1, StealIsTake DEF Abstract!FNext
<1>4. ASSUME NEW u \in Tree, Swap(t, u) PROVE Abstract!FNext
  BY <1>4, SwapIsExchange DEF Abstract!FNext
<1>5. ASSUME NEW u \in Tree, ChopRoot(t, u) PROVE Abstract!FNext
  <2>1. u # t /\ t \in live /\ Steal(u, t) /\ live' = live \union {u}
    BY <1>5 DEF ChopRoot, MoveConstruct
  <2> QED BY <2>1, StealIsTake DEF Abstract!FNext
<1>6. ASSUME NEW n \in Node, CopyConstruct(t, n) PROVE Abstract!FNext
  <2>1. /\ t \notin live /\ store[n] # Null /\ CopyContents(t, n) /\ live' = live \union {t}
    BY <1>6 DEF CopyConstruct
  <2>2. store[n] # t
    BY <2>1, StepIs
  <2> QED BY <2>1, <2>2, CopyIs DEF Abstract!FNext
<1>7. ASSUME NEW n \in Node, EmplaceRoot(t, n) PROVE Abstract!FNext
  BY <1>7, EmplaceRootIsAddRoot DEF Abstract!FNext
<1>8. ASSUME NEW n \in Node, Erase(t, n) PROVE Abstract!FNext
  BY <1>8, EraseIsDrop DEF Abstract!FNext
<1>9. ASSUME NEW n \in Node, Merge(t, n) PROVE Abstract!FNext
  BY <1>9, MergeIsCollapse DEF Abstract!FNext
<1>10. ASSUME NEW n \in Node, NEW m \in Node, Emplace(t, n, m) PROVE Abstract!FNext
  BY <1>10, EmplaceIsAdd DEF Abstract!FNext
<1>11. ASSUME NEW n \in Node, NEW u \in Tree, Chop(t, n, u) PROVE Abstract!FNext
  BY <1>11, ChopIsDetach DEF Abstract!FNext
<1>12. ASSUME NEW n \in Node, NEW u \in Tree, Adopt(t, n, u) PROVE Abstract!FNext
  BY <1>12, AdoptIsAttach DEF Abstract!FNext
<1> QED BY <1>1, <1>2, <1>3, <1>4, <1>5, <1>6, <1>7, <1>8, <1>9, <1>10, <1>11, <1>12

LEMMA NextMaps == ASSUME Step, "move" \notin Wild, Next PROVE Abstract!FNext
<1>1. CASE OrderKept
  BY <1>1, OrderKeptMaps
<1>2. ASSUME NEW t \in Tree, NEW u \in Tree, CopyAssign(t, u) PROVE Abstract!FNext
  <2>1. /\ t \in live /\ u \in live /\ t # u /\ root[u] # Null
        /\ CopyContents(t, root[u]) /\ live' = live \union {t}
    BY <1>2 DEF CopyAssign
  <2>2. root[u] \in Nodes(u) /\ u # Null
    BY <2>1, StepIs, LiveIs DEF IsTree
  <2>3. root[u] \in Node /\ store[root[u]] = u
    BY <2>2 DEF Nodes
  <2> QED BY <2>1, <2>2, <2>3, CopyIs DEF Abstract!FNext
<1>3. ASSUME NEW t \in Tree, NEW n \in Node, NEW m \in Node, Move(t, n, m) PROVE Abstract!FNext
  BY <1>3, MoveIsTransfer DEF Abstract!FNext
<1> QED BY <1>1, <1>2, <1>3 DEF Next

LEMMA StepMaps ==
    ASSUME IInv, ListsAreTracked, "move" \notin Wild, [RNext]_<<vars, preorder>>
    PROVE  IInv' /\ ListsAreTracked' /\ [Abstract!FNext]_Abstract!fvars
<1>1. CASE RNext
  <2>1. IInv'
    BY <1>1, NextKeeps DEF RNext
  <2>2. ListsAreTracked'
    BY <1>1, <2>1, ListsListedNext DEF RNext, ListsAreTracked, IInv, TypeOK
  <2>3. Abstract!FNext
    BY <1>1, <2>1, <2>2, NextMaps DEF Step, RNext
  <2> QED BY <2>1, <2>2, <2>3
<1>2. CASE UNCHANGED <<vars, preorder>>
  <2>1. IInv'
    BY <1>2, NextKeeps
  <2>2. ListsAreTracked' /\ UNCHANGED Abstract!fvars
    BY <1>2 DEF ListsAreTracked, vars, Abstract!fvars
  <2> QED BY <2>1, <2>2
<1> QED BY <1>1, <1>2

(* Every member function of unsafe_tree.hpp, all its work on children      *)
(* vectors, parents, indices and storage taken together, does to the trees *)
(* what Forest's action says: subtrees move, are copied and go as wholes,  *)
(* siblings keep their order, what is inserted comes last, and the         *)
(* children of a merged node take its place.                               *)
THEOREM TreesImplementForest == ASSUME "move" \notin Wild PROVE RSpec => ImplementsForest
<1>1. RInit => IInv /\ ListsAreTracked /\ Abstract!FInit
  BY InitMaps
<1>2. IInv /\ ListsAreTracked /\ [RNext]_<<vars, preorder>>
        => IInv' /\ ListsAreTracked' /\ [Abstract!FNext]_Abstract!fvars
  BY StepMaps
<1> QED BY <1>1, <1>2, PTL DEF RSpec, ImplementsForest, Abstract!ForestSpec

-----------------------------------------------------------------------------
(* Outlines.                                                               *)

(* From depth d on, a list goes down one level at a time.                  *)
GoesDown(l, d) ==
    \A i \in 1..Len(l) : /\ l[i].depth \in Nat /\ l[i].depth >= d
                         /\ i = 1 => l[i].depth = d
                         /\ i # 1 => l[i].depth <= l[i - 1].depth + 1

LEMMA GoesDownConcat ==
    ASSUME NEW a \in Seq(Entries), NEW b \in Seq(Entries), NEW d \in Nat,
           GoesDown(a, d), GoesDown(b, d)
    PROVE  GoesDown(a \o b, d)
<1> DEFINE c == a \o b
           m == Len(a)
           n == Len(b)
<1>1. /\ c \in Seq(Entries) /\ Len(c) = m + n /\ m \in Nat /\ n \in Nat
      /\ \A i \in 1..(m + n) : c[i] = IF i <= m THEN a[i] ELSE b[i - m]
  BY ConcatIs
<1>2. /\ \A i \in 1..m : /\ a[i].depth \in Nat /\ a[i].depth >= d
                         /\ i = 1 => a[i].depth = d
                         /\ i # 1 => a[i].depth <= a[i - 1].depth + 1
      /\ \A i \in 1..n : /\ b[i].depth \in Nat /\ b[i].depth >= d
                         /\ i = 1 => b[i].depth = d
                         /\ i # 1 => b[i].depth <= b[i - 1].depth + 1
  BY DEF GoesDown
<1> HIDE DEF c, m, n
<1>3. ASSUME NEW i \in 1..(m + n)
      PROVE  /\ c[i].depth \in Nat /\ c[i].depth >= d
             /\ i = 1 => c[i].depth = d
             /\ i # 1 => c[i].depth <= c[i - 1].depth + 1
  <2>1. CASE i <= m
    <3>1. i \in 1..m /\ c[i] = a[i]
      BY <1>1, <2>1
    <3>2. i # 1 => i - 1 \in 1..(m + n) /\ i - 1 <= m
      BY <1>1, <2>1
    <3>3. i # 1 => c[i - 1] = a[i - 1]
      BY <1>1, <3>2
    <3> QED BY <1>2, <3>1, <3>3
  <2>2. CASE i = m + 1
    <3>1. 1 \in 1..n /\ i - m = 1 /\ c[i] = b[1]
      BY <1>1, <2>2
    <3>2. b[1].depth = d
      BY <1>2, <3>1
    <3>3. i # 1 => m \in 1..m /\ i - 1 = m /\ m \in 1..(m + n)
      BY <1>1, <2>2
    <3>4. i # 1 => c[i - 1] = a[m]
      BY <1>1, <3>3
    <3>5. i # 1 => a[m].depth \in Nat /\ a[m].depth >= d
      BY <1>2, <3>3
    <3> QED BY <3>1, <3>2, <3>4, <3>5
  <2>3. CASE i > m + 1
    <3>1. /\ i - m \in 1..n /\ i - m # 1 /\ ~(i <= m) /\ c[i] = b[i - m]
          /\ i - 1 \in 1..(m + n) /\ ~(i - 1 <= m) /\ (i - 1) - m = (i - m) - 1 /\ i # 1
      BY <1>1, <2>3
    <3>2. c[i - 1] = b[(i - m) - 1]
      BY <1>1, <3>1
    <3> QED BY <1>2, <3>1, <3>2
  <2> QED BY <1>1, <2>1, <2>2, <2>3
<1> QED BY <1>1, <1>3 DEF GoesDown, c

LEMMA FlatGoesDown ==
    ASSUME NEW f \in [Node -> Seq(Entries)], NEW q \in Seq(Node), NEW d \in Nat,
           \A i \in 1..Len(q) : GoesDown(f[q[i]], d)
    PROVE  GoesDown(Flat(f, q), d)
<1> DEFINE n == Len(q)
<1>1. n \in Nat /\ \A i \in 1..n : q[i] \in Node
  BY LenProperties, ElementOfSeq
<1>2. PICK F : IsFlat(F, Entries, f, q) /\ F[n] = Flat(f, q)
  BY FlatIs
<1>3. /\ F \in [0..n -> Seq(Entries)] /\ F[0] = <<>>
      /\ \A k \in 1..n : F[k] = F[k - 1] \o f[q[k]]
  BY <1>2 DEF IsFlat
<1> DEFINE T == {k \in Nat : k <= n => GoesDown(F[k], d)}
<1>4. 0 \in T
  BY <1>3 DEF GoesDown
<1>5. ASSUME NEW k \in Nat, k \in T PROVE k + 1 \in T
  <2>1. SUFFICES ASSUME k + 1 <= n PROVE GoesDown(F[k + 1], d)
    OBVIOUS
  <2>2. k \in 0..n /\ k + 1 \in 1..n /\ (k + 1) - 1 = k /\ k <= n
    BY <1>1, <2>1
  <2>3. PICK u, v : u = F[k] /\ v = f[q[k + 1]]
    OBVIOUS
  <2>4. u \in Seq(Entries) /\ v \in Seq(Entries) /\ F[k + 1] = u \o v
    BY <1>1, <1>3, <2>2, <2>3
  <2>5. GoesDown(u, d) /\ GoesDown(v, d)
    BY <1>5, <2>2, <2>3
  <2> QED BY <2>4, <2>5, GoesDownConcat
<1>6. Nat \subseteq T
  <2> HIDE DEF T
  <2> QED BY <1>4, <1>5, SetInduction
<1>7. n \in T
  <2> HIDE DEF T
  <2> QED BY <1>1, <1>6
<1> QED BY <1>1, <1>2, <1>7

(* The list of a subtree goes down from its root.                          *)
LEMMA BlockGoesDown ==
    ASSUME NEW h \in Heap, NEW X, NEW r, IsTree(h, X, r), NEW m \in X, NEW d, Fits(h, m, d)
    PROVE  GoesDown(Block(h, d, m), d)
<1> DEFINE T == {n \in X : \A k : Fits(h, n, k) => GoesDown(Block(h, k, n), k)}
<1>1. ASSUME NEW n \in X, Children(h, n) \subseteq T PROVE n \in T
  <2>1. SUFFICES ASSUME NEW k, Fits(h, n, k) PROVE GoesDown(Block(h, k, n), k)
    OBVIOUS
  <2> DEFINE q == h[n].children
             f == PreRow(h, k + 1)
             one == <<Entry(n, k)>>
             b == Below(h, k, n)
             l == Block(h, k, n)
  <2>2. /\ k \in 0..NodeCount /\ f \in [Node -> Seq(Entries)] /\ q \in Seq(Node) /\ n \in Node
        /\ b \in Seq(Entries) /\ l = one \o b
        /\ \A c \in Children(h, n) : c \in X /\ Fits(h, c, k + 1)
    BY <2>1, BlockIs
  <2>3. k \in Nat /\ k + 1 \in Nat
    BY <2>2, NodeCountType
  <2>4. one \in Seq(Entries) /\ Len(one) = 1 /\ one[1].depth = k
    BY <2>2, <2>3, EntryIs DEF Entry
  <2>5. \A i \in 1..Len(q) : q[i] \in Children(h, n)
    BY <2>2, HeapFields, InChildren, SMTT(30)
  <2>6. \A i \in 1..Len(q) : GoesDown(f[q[i]], k + 1)
    BY <1>1, <2>2, <2>5 DEF Block
  <2>7. GoesDown(b, k + 1)
    <3>1. GoesDown(Flat(f, q), k + 1)
      <4> HIDE DEF f, q
      <4> QED BY <2>2, <2>3, <2>6, FlatGoesDown
    <3> QED BY <3>1 DEF Below
  <2> HIDE DEF one, b
  <2>8. /\ Len(l) = 1 + Len(b) /\ Len(b) \in Nat
        /\ \A i \in 1..(1 + Len(b)) : l[i] = IF i <= 1 THEN one[i] ELSE b[i - 1]
    <3>1. /\ Len(one \o b) = Len(one) + Len(b) /\ Len(b) \in Nat
          /\ \A i \in 1..(Len(one) + Len(b)) : (one \o b)[i] = IF i <= Len(one) THEN one[i] ELSE b[i - Len(one)]
      BY <2>2, <2>4, ConcatIs
    <3> HIDE DEF l
    <3> QED BY <2>2, <2>4, <3>1
  <2> HIDE DEF l
  <2>9. ASSUME NEW i \in 1..Len(l)
        PROVE  /\ l[i].depth \in Nat /\ l[i].depth >= k
               /\ i = 1 => l[i].depth = k
               /\ i # 1 => l[i].depth <= l[i - 1].depth + 1
    <3>0. \A j \in 1..Len(b) : /\ b[j].depth \in Nat /\ b[j].depth >= k + 1
                               /\ j = 1 => b[j].depth = k + 1
                               /\ j # 1 => b[j].depth <= b[j - 1].depth + 1
      BY <2>7 DEF GoesDown
    <3>1. CASE i = 1
      BY <2>3, <2>4, <2>8, <3>1
    <3>2. CASE i # 1
      <4>1. i - 1 \in 1..Len(b) /\ l[i] = b[i - 1] /\ i - 1 \in 1..(1 + Len(b))
        BY <2>8, <3>2
      <4>2. i - 1 = 1 => l[i - 1].depth = k
        BY <2>4, <2>8, <4>1
      <4>3. i - 1 # 1 => l[i - 1] = b[(i - 1) - 1]
        BY <2>8, <4>1
      <4> QED BY <2>3, <3>0, <3>2, <4>1, <4>2, <4>3
    <3> QED BY <3>1, <3>2
  <2> QED BY <2>9 DEF GoesDown, l
<1>2. X \subseteq T
  <2> HIDE DEF T
  <2> QED BY <1>1, TreeInduction
<1> QED BY <1>2

(* What a copy starts from is an outline.                                  *)
LEMMA SubtreeOutline ==
    ASSUME NEW h \in Heap, NEW X, NEW r, IsTree(h, X, r), NEW m \in X,
           NEW v \in [Node -> Word]
    PROVE  LET l == Preorder(h, m)
           IN  IsOutline([i \in DOMAIN l |-> [value |-> v[l[i].node], depth |-> l[i].depth]])
<1> DEFINE l == Block(h, 0, m)
           o == [i \in DOMAIN l |-> [value |-> v[l[i].node], depth |-> l[i].depth]]
<1>1. m \in Node /\ Preorder(h, m) = l
  <2>1. m \in Node
    BY DEF IsTree
  <2> QED BY <2>1, PreorderIs DEF Block
<1>2. Fits(h, m, 0)
  BY FitsIs
<1>3. IsBlock(l, m, 0, Subtree(h, m)) /\ GoesDown(l, 0)
  BY <1>2, BlocksAre, BlockGoesDown
<1> HIDE DEF l
<1>4. /\ l \in Seq(Entries) /\ Len(l) \in Nat /\ DOMAIN l = 1..Len(l)
      /\ \A i \in 1..Len(l) : l[i].node \in Node /\ l[i].depth \in Nat
  <2>1. l \in Seq(Entries)
    BY <1>3 DEF IsBlock
  <2>2. Len(l) \in Nat /\ DOMAIN l = 1..Len(l) /\ \A i \in 1..Len(l) : l[i] \in Entries
    BY <2>1, LenProperties, ElementOfSeq
  <2> QED BY <2>1, <2>2 DEF Entries
<1>5. /\ o \in Seq(Item) /\ Len(o) = Len(l) /\ DOMAIN o = 1..Len(l)
      /\ \A i \in 1..Len(l) : o[i].depth = l[i].depth
  <2>1. \A i \in 1..Len(l) : [value |-> v[l[i].node], depth |-> l[i].depth] \in Item
    BY <1>4 DEF Item
  <2>2. o \in [1..Len(l) -> Item]
    BY <1>4, <2>1
  <2> QED BY <1>4, <2>2
<1> HIDE DEF o
<1>6. \A i \in DOMAIN o : o[i].depth \in IF i = 1 THEN {0} ELSE 1..(o[i - 1].depth + 1)
  <2> SUFFICES ASSUME NEW i \in 1..Len(l)
               PROVE  o[i].depth \in IF i = 1 THEN {0} ELSE 1..(o[i - 1].depth + 1)
    BY <1>5
  <2>1. CASE i = 1
    BY <1>3, <1>5, <2>1 DEF GoesDown
  <2>2. CASE i # 1
    <3>1. i \in 2..Len(l) /\ i - 1 \in 1..Len(l)
      BY <1>4, <2>2
    <3>2. l[i].depth > 0 /\ l[i].depth \in Nat /\ l[i].depth <= l[i - 1].depth + 1
      BY <1>3, <1>4, <2>2, <3>1 DEF GoesDown, IsBlock
    <3>3. o[i].depth = l[i].depth /\ o[i - 1].depth = l[i - 1].depth /\ l[i - 1].depth \in Nat
      BY <1>4, <1>5, <3>1
    <3> QED BY <2>2, <3>2, <3>3
  <2> QED BY <2>1, <2>2
<1> QED BY <1>1, <1>5, <1>6 DEF IsOutline, o

-----------------------------------------------------------------------------
(* One more node at the end.                                               *)

(* A child given to a node whose subtree ends the list comes last.         *)
LEMMA AppendLists ==
    ASSUME NEW h \in Heap, NEW X, NEW r, IsTree(h, X, r), NEW p \in X,
           NEW n \in Node \ X, h[n] = FreshNode,
           NEW i \in 1..Len(Block(h, 0, r)), NEW d \in Nat,
           Block(h, 0, r)[i] = Entry(p, d),
           \A j \in (i + 1)..Len(Block(h, 0, r)) : Block(h, 0, r)[j].depth > d
    PROVE  Block(InsertChild(h, p, n), 0, r) = Append(Block(h, 0, r), Entry(n, d + 1))
<1> DEFINE l == Block(h, 0, r)
           w == <<Entry(n, 0)>>
           a == SubSeq(l, 1, i - 1)
           k == SubSeq(l, i + 1, Len(l))
           e == l[i]
           none == <<>>
           m == Block(InsertChild(h, p, n), 0, r)
<1>1. /\ l \in Seq(Entries) /\ NoRepeat(l) /\ Len(l) \in Nat /\ DOMAIN l = 1..Len(l)
      /\ i \in 1..Len(l)
  <2>1. l \in Seq(Entries) /\ NoRepeat(l) /\ i \in 1..Len(l)
    BY ListIs
  <2> HIDE DEF l
  <2> QED BY <2>1, LenProperties
<1>2. PICK c \in DOMAIN l : l[c].node = p /\ Abstract!Under(l, c, w) = m
  <2> DEFINE Y == {n}
  <2>1. IsTree(h, Y, n) /\ Block(h, 0, n) = w /\ X \intersect Y = {}
    BY SingleIs
  <2> HIDE DEF Y, w
  <2>2. Grows(Block(h, 0, r), p, Block(h, 0, n), Block(InsertChild(h, p, n), 0, r))
    BY <2>1, InsertionLists
  <2> QED BY <2>1, <2>2 DEF Grows
<1>3. c = i
  <2>1. l[i].node = p /\ i \in DOMAIN l
    BY <1>1 DEF Entry
  <2> QED BY <1>1, <1>2, <2>1 DEF NoRepeat
<1>4. e \in Entries /\ e.depth = d /\ \A j \in (i + 1)..Len(l) : l[j].depth > d
  <2>1. l[i] = Entry(p, d) /\ p \in Node
    BY DEF IsTree
  <2> QED BY <2>1, EntryIs DEF Entry
<1> HIDE DEF l, m
<1>5. /\ a \in Seq(Entries) /\ Len(a) = i - 1
      /\ k \in Seq(Entries) /\ Len(k) = Len(l) - i /\ \A j \in 1..(Len(l) - i) : k[j] = l[i + j]
  <2>1. /\ \A j \in 1..(i - 1) : l[j] \in Entries
        /\ \A j \in (i + 1)..Len(l) : l[j] \in Entries
    BY <1>1, ElementOfSeq
  <2>2. a \in Seq(Entries) /\ Len(a) = IF 1 <= i - 1 THEN (i - 1) - 1 + 1 ELSE 0
    BY <1>1, <2>1, SubSeqProperties
  <2>3. /\ k \in Seq(Entries)
        /\ Len(k) = IF i + 1 <= Len(l) THEN Len(l) - (i + 1) + 1 ELSE 0
        /\ \A j \in 1..(Len(l) - (i + 1) + 1) : k[j] = l[(i + 1) + j - 1]
    BY <1>1, <2>1, SubSeqProperties
  <2> HIDE DEF a, k
  <2>4. \A j \in 1..(Len(l) - i) : k[j] = l[i + j]
    <3> TAKE j \in 1..(Len(l) - i)
    <3>1. j \in 1..(Len(l) - (i + 1) + 1) /\ (i + 1) + j - 1 = i + j
      BY <1>1
    <3> QED BY <2>3, <3>1
  <2>5. Len(l) \in Nat /\ i \in Nat /\ 1 <= i /\ i <= Len(l)
    BY <1>1
  <2>6. Len(a) = i - 1
    BY <2>2, <2>5
  <2>7. Len(k) = Len(l) - i
    BY <2>3, <2>5
  <2> QED BY <2>2, <2>3, <2>4, <2>6, <2>7
<1>6. none \in Seq(Entries)
  OBVIOUS
<1> DEFINE one == <<e>>
           ek == one \o k
           aek == a \o ek
<1>7. aek = l /\ aek \o none = l
  <2>1. ek = SubSeq(l, i, Len(l))
    BY <1>1, SubSeqRecursiveFirst
  <2>2. SubSeq(l, 1, i - 1) \o SubSeq(l, (i - 1) + 1, Len(l)) = SubSeq(l, 1, Len(l))
    <3>1. 1 \in 1..(Len(l) + 1) /\ i - 1 \in (1 - 1)..Len(l) /\ Len(l) \in (i - 1)..Len(l)
      BY <1>1
    <3> QED BY <1>1, <3>1, ConcatAdjacentSubSeq
  <2>3. (i - 1) + 1 = i /\ SubSeq(l, 1, Len(l)) = l
    BY <1>1, SubSeqFull, SMTT(30)
  <2>5. aek = l
    BY <2>1, <2>2, <2>3
  <2>6. l \o none = l
    BY <1>1, ConcatEmptySeq DEF none
  <2> QED BY <2>5, <2>6
<1>8. Abstract!Under(l, i, w) = ((a \o (<<e>> \o k)) \o Abstract!Shift(w, e.depth + 1, 0)) \o none
  <2>1. Deeper(k, e.depth)
    <3>1. ASSUME NEW j \in 1..Len(k) PROVE k[j].depth > d
      <4>1. i + j \in (i + 1)..Len(l) /\ k[j] = l[i + j]
        <5> HIDE DEF k
        <5>1. j \in 1..(Len(l) - i)
          BY <1>5
        <5> QED BY <1>1, <1>5, <5>1
      <4> QED BY <1>4, <4>1
    <3> QED BY <1>4, <3>1 DEF Deeper
  <2>2. Ends(none, e.depth)
    BY DEF Ends
  <2> HIDE DEF a, k, none, e
  <2>3. IsCut(a, e, k, none)
    BY <1>4, <1>5, <1>6, <2>1, <2>2, CutIs
  <2>4. (a \o (<<e>> \o k)) \o none = l /\ Len(a) + 1 = i
    <3>1. (a \o (<<e>> \o k)) \o none = l
      BY <1>7
    <3>2. Len(a) = i - 1 /\ i \in Nat
      BY <1>1, <1>5
    <3>3. Len(a) + 1 = i
      BY <3>2
    <3> QED BY <3>1, <3>3
  <2> QED BY <2>3, <2>4 DEF IsCut
<1>9. Abstract!Shift(w, e.depth + 1, 0) = <<Entry(n, d + 1)>>
  <2>1. DOMAIN w = {1} /\ w[1].node = n /\ w[1].depth = 0
    BY DEF Entry
  <2>2. 0 + (d + 1) - 0 = d + 1
    OBVIOUS
  <2> HIDE DEF w
  <2> QED BY <1>4, <2>1, <2>2 DEF Abstract!Shift, Abstract!Entry, Entry
<1> DEFINE last == <<Entry(n, d + 1)>>
<1>10. last \in Seq(Entries) /\ l \o last = Append(l, Entry(n, d + 1))
  <2>1. Entry(n, d + 1) \in Entries
    BY EntryIs, SMTT(30) DEF Entry
  <2> QED BY <1>1, <2>1
<1>11. m = (l \o last) \o none
  BY <1>2, <1>3, <1>7, <1>8, <1>9
<1>12. (l \o last) \o none = l \o last
  <2>1. l \o last \in Seq(Entries)
    BY <1>1, <1>10, ConcatIs
  <2> QED BY <2>1, ConcatEmptySeq
<1> QED BY <1>10, <1>11, <1>12 DEF l, m

-----------------------------------------------------------------------------
(* The contents of a tree, of the heap and of the values.                  *)

Shaped(h, X, r) == IF r = Null THEN X = {} ELSE IsTree(h, X, r)
EndsIn(X, r, lm, rm) == IF r = Null THEN lm = Null /\ rm = Null ELSE lm \in X /\ rm \in X

LEMMA OwnedIs ==
    ASSUME NEW h, NEW X, NEW r, NEW lm, NEW rm
    PROVE  Owned(h, X, r, lm, rm) <=> Shaped(h, X, r) /\ EndsIn(X, r, lm, rm)
BY DEF Owned, Shaped, EndsIn

Valued(v, l) == [i \in DOMAIN l |-> [value |-> v[l[i].node], depth |-> l[i].depth]]

LEMMA ContentsAre ==
    ASSUME heap \in Heap, root \in [Tree -> Node \union {Null}], NEW t \in Tree
    PROVE  Contents(t) = Valued(value, ListOf(heap, root[t]))
<1>1. CASE root[t] = Null
  BY <1>1 DEF Contents, Valued, ListOf
<1>2. CASE root[t] # Null
  <2>1. root[t] \in Node
    BY <1>2
  <2>2. Preorder(heap, root[t]) = Block(heap, 0, root[t])
    BY <2>1, PreorderIs DEF Block
  <2> QED BY <1>2, <2>2 DEF Contents, Valued, ListOf
<1> QED BY <1>1, <1>2

LEMMA ContentsAreNext ==
    ASSUME heap' \in Heap, root' \in [Tree -> Node \union {Null}], NEW t \in Tree
    PROVE  Contents(t)' = Valued(value', ListOf(heap', root'[t]))
<1>1. CASE root'[t] = Null
  BY <1>1 DEF Contents, Valued, ListOf
<1>2. CASE root'[t] # Null
  <2>1. root'[t] \in Node
    BY <1>2
  <2>2. Preorder(heap', root'[t]) = Block(heap', 0, root'[t])
    BY <2>1, PreorderIs DEF Block
  <2> QED BY <1>2, <2>2 DEF Contents, Valued, ListOf
<1> QED BY <1>1, <1>2

LEMMA ShapedList ==
    ASSUME NEW h \in Heap, NEW X, NEW r, Shaped(h, X, r)
    PROVE  LET l == ListOf(h, r)
           IN  /\ l \in Seq(Entries) /\ NodesOf(l) = X /\ NoRepeat(l)
               /\ Len(l) \in Nat /\ DOMAIN l = 1..Len(l)
               /\ \A i \in 1..Len(l) : l[i] \in Entries /\ l[i].node \in X
               /\ r = Null <=> l = <<>>
<1> DEFINE l == ListOf(h, r)
<1>1. \E lm, rm : EndsIn(X, r, lm, rm)
  <2>1. CASE r = Null
    BY <2>1 DEF EndsIn
  <2>2. CASE r # Null
    BY <2>2 DEF EndsIn, Shaped, IsTree
  <2> QED BY <2>1, <2>2
<1>2. l \in Seq(Entries) /\ NodesOf(l) = X /\ NoRepeat(l) /\ (r = Null <=> l = <<>>)
  BY <1>1, OwnedIs, OwnedList
<1> HIDE DEF l
<1>3. Len(l) \in Nat /\ DOMAIN l = 1..Len(l) /\ \A i \in 1..Len(l) : l[i] \in Entries
  BY <1>2, LenProperties, ElementOfSeq
<1> QED BY <1>2, <1>3 DEF NodesOf, l

LEMMA ValuedIs ==
    ASSUME NEW l \in Seq(Entries), NEW v \in [Node -> Word]
    PROVE  /\ Valued(v, l) \in Seq(Item) /\ Len(Valued(v, l)) = Len(l)
           /\ DOMAIN Valued(v, l) = 1..Len(l)
           /\ \A i \in 1..Len(l) : Valued(v, l)[i] = [value |-> v[l[i].node], depth |-> l[i].depth]
<1>1. Len(l) \in Nat /\ DOMAIN l = 1..Len(l) /\ \A i \in 1..Len(l) : l[i] \in Entries
  BY LenProperties, ElementOfSeq
<1>2. \A i \in 1..Len(l) : [value |-> v[l[i].node], depth |-> l[i].depth] \in Item
  BY <1>1 DEF Item, Entries
<1>3. Valued(v, l) = [i \in 1..Len(l) |-> [value |-> v[l[i].node], depth |-> l[i].depth]]
  BY <1>1 DEF Valued
<1>4. Valued(v, l) \in [1..Len(l) -> Item]
  BY <1>2, <1>3
<1> QED BY <1>1, <1>3, <1>4

(* Contents depend on the children vectors and the values of the nodes.    *)
LEMMA ContentsFrame ==
    ASSUME NEW h \in Heap, NEW g \in Heap, NEW X, NEW r, Shaped(h, X, r), NEW v, NEW w,
           \A n \in X : g[n].children = h[n].children /\ w[n] = v[n]
    PROVE  Valued(w, ListOf(g, r)) = Valued(v, ListOf(h, r))
<1>1. \E lm, rm : EndsIn(X, r, lm, rm)
  <2>1. CASE r = Null
    BY <2>1 DEF EndsIn
  <2>2. CASE r # Null
    BY <2>2 DEF EndsIn, Shaped, IsTree
  <2> QED BY <2>1, <2>2
<1>2. ListOf(g, r) = ListOf(h, r)
  BY <1>1, OwnedIs, ListFrame
<1> DEFINE l == ListOf(h, r)
<1>3. \A i \in DOMAIN l : w[l[i].node] = v[l[i].node]
  BY ShapedList
<1> HIDE DEF l
<1>4. Valued(w, l) = Valued(v, l)
  BY <1>3 DEF Valued
<1> QED BY <1>2, <1>4 DEF l

LEMMA ShapedFrame ==
    ASSUME NEW h \in Heap, NEW g \in Heap, NEW X, NEW r, Shaped(h, X, r),
           \A n \in X : g[n] = h[n]
    PROVE  Shaped(g, X, r)
BY TreeFrame DEF Shaped

-----------------------------------------------------------------------------
(* The inductive invariant.                                                *)

(* A copy under way has its root but not yet its extrema.                  *)
Unfinished(t) == job # NoJob /\ job.temp = t /\ job.copying /\ job.todo # <<>>

Sound ==
    /\ TypeOK /\ FreeAreFresh /\ DeadAreEmpty
    /\ \A t \in Tree : Shaped(heap, Nodes(t), root[t])
    /\ \A t \in Tree : ~Unfinished(t) => EndsIn(Nodes(t), root[t], leftmost[t], rightmost[t])

(* The nodes made so far, in l, hold the first of the values wanted; todo  *)
(* is the rest; path leads from the root to the last node made.            *)
IsBuilt(l, v, wanted, todo, path) ==
    /\ Len(wanted) = Len(l) + Len(todo)
    /\ \A i \in 1..Len(todo) : todo[i] = wanted[Len(l) + i]
    /\ \A i \in 1..Len(l) : wanted[i] = [value |-> v[l[i].node], depth |-> l[i].depth]
    /\ Len(path) = IF Len(l) = 0 THEN 0 ELSE l[Len(l)].depth + 1
    /\ \A d \in 1..Len(path) : \E i \in 1..Len(l) :
          l[i] = Entry(path[d], d - 1) /\ \A j \in (i + 1)..Len(l) : l[j].depth >= d

Jobs == [temp : Tree, into : Tree \union {Null}, copying : BOOLEAN, todo : Seq(Item),
         path : Seq(Node), wanted : Seq(Item), before : [live \ {job.temp} -> Seq(Item)]]

Building ==
    /\ job \in Jobs
    /\ job.temp \in live /\ job.into \in (live \ {job.temp}) \union {Null}
    /\ \A u \in live \ {job.temp} : Contents(u) = job.before[u]
    /\ IsOutline(job.wanted)
    /\ IsBuilt(ListOf(heap, root[job.temp]), value, job.wanted, job.todo, job.path)

CInv == Sound /\ value \in [Node -> Word] /\ (job = NoJob \/ Building)

LEMMA SoundIsIInv == ASSUME Sound, \A t \in Tree : ~Unfinished(t) PROVE IInv
BY OwnedIs DEF Sound, IInv, Owns

LEMMA IInvIsSound == ASSUME IInv PROVE Sound
BY OwnedIs DEF Sound, IInv, Owns

LEMMA IInvIsSoundNext == ASSUME IInv' PROVE Sound'
BY OwnedIs DEF Sound, IInv, Owns

(* What the invariant says of one tree object.                             *)
LEMMA SoundIs ==
    ASSUME Sound, NEW t \in Tree
    PROVE  /\ heap \in Heap /\ Nodes(t) \subseteq Node /\ t # Null
           /\ root \in [Tree -> Node \union {Null}]
           /\ Shaped(heap, Nodes(t), root[t])
           /\ root[t] = Null => Nodes(t) = {}
           /\ root[t] # Null => IsTree(heap, Nodes(t), root[t]) /\ root[t] \in Nodes(t)
           /\ t \notin live => root[t] = Null /\ Nodes(t) = {}
<1>1. Shaped(heap, Nodes(t), root[t]) /\ TypeOK /\ DeadAreEmpty
  BY DEF Sound
<1>2. t # Null
  BY TreeAssumption
<1>3. t \notin live => root[t] = Null
  BY <1>1 DEF DeadAreEmpty
<1>4. Nodes(t) \subseteq Node
  BY DEF Nodes
<1> HIDE DEF Sound
<1> QED BY <1>1, <1>2, <1>3, <1>4 DEF Shaped, IsTree, TypeOK

(* A step keeps the trees sound if it does so for the tree objects of T,   *)
(* the only ones that it changes.                                          *)
LEMMA StepKeepsSound ==
    ASSUME Sound, TypeOK', NEW T \in SUBSET Tree,
           \A n \in Node : store'[n] = Null => heap'[n] = FreshNode,
           \A t \in Tree \ live' : root'[t] = Null,
           \A t \in T : /\ Shaped(heap', Nodes(t)', root'[t])
                        /\ Unfinished(t)' \/ EndsIn(Nodes(t)', root'[t], leftmost'[t], rightmost'[t]),
           \A t \in Tree \ T :
             /\ root'[t] = root[t] /\ leftmost'[t] = leftmost[t] /\ rightmost'[t] = rightmost[t]
             /\ Nodes(t)' = Nodes(t) /\ ~Unfinished(t)
             /\ \A n \in Nodes(t) : heap'[n] = heap[n]
    PROVE  Sound'
<1>1. FreeAreFresh' /\ DeadAreEmpty'
  BY DEF FreeAreFresh, DeadAreEmpty, FreeNodes
<1>2. ASSUME NEW t \in Tree
      PROVE  /\ Shaped(heap', Nodes(t)', root'[t])
             /\ Unfinished(t)' \/ EndsIn(Nodes(t)', root'[t], leftmost'[t], rightmost'[t])
  <2>1. CASE t \in T
    BY <2>1
  <2>2. CASE t \notin T
    <3>1. heap' \in Heap /\ heap \in Heap /\ Shaped(heap, Nodes(t), root[t])
      BY SoundIs DEF TypeOK
    <3>2. EndsIn(Nodes(t), root[t], leftmost[t], rightmost[t])
      BY <2>2 DEF Sound
    <3>3. Shaped(heap', Nodes(t), root[t])
      <4> DEFINE X == Nodes(t)
      <4>1. \A n \in X : heap'[n] = heap[n]
        BY <2>2
      <4> HIDE DEF X
      <4> QED BY <3>1, <4>1, ShapedFrame DEF X
    <3> QED BY <2>2, <3>2, <3>3
  <2> QED BY <2>1, <2>2
<1> QED BY <1>1, <1>2 DEF Sound

-----------------------------------------------------------------------------
(* One step of building.                                                   *)

(* Where the next node goes.                                               *)
IsWhere(l, path, next, where) ==
    IF l = <<>> THEN next.depth = 0
    ELSE /\ next.depth \in 1..Len(path) /\ where = path[next.depth]
         /\ \E i \in 1..Len(l) :
               /\ l[i] = Entry(where, next.depth - 1)
               /\ \A j \in (i + 1)..Len(l) : l[j].depth > next.depth - 1

LEMMA WhereIs ==
    ASSUME NEW l \in Seq(Entries), NEW v, NEW wanted, IsOutline(wanted), NEW todo \in Seq(Item),
           todo # <<>>, NEW path \in Seq(Node), IsBuilt(l, v, wanted, todo, path)
    PROVE  /\ Head(todo) \in Item /\ Head(todo) = wanted[Len(l) + 1]
           /\ IsWhere(l, path, Head(todo), path[Head(todo).depth])
<1> DEFINE k == Len(l)
           next == Head(todo)
           d == next.depth
<1>1. /\ k \in Nat /\ Len(todo) \in Nat \ {0} /\ next = todo[1] /\ next \in Item
      /\ \A i \in 1..k : l[i] \in Entries
  <2>1. k \in Nat /\ Len(todo) \in Nat /\ \A i \in 1..k : l[i] \in Entries
    BY LenProperties, ElementOfSeq
  <2>2. Len(todo) # 0 /\ next = todo[1]
    OBVIOUS
  <2>3. next \in Item
    BY HeadTailProperties
  <2> QED BY <2>1, <2>2, <2>3
<1>2. /\ wanted \in Seq(Item) /\ Len(wanted) = k + Len(todo)
      /\ \A i \in 1..Len(todo) : todo[i] = wanted[k + i]
      /\ \A i \in 1..k : wanted[i].depth = l[i].depth
      /\ Len(path) = IF k = 0 THEN 0 ELSE l[k].depth + 1
      /\ \A c \in 1..Len(path) : \E i \in 1..k :
            l[i] = Entry(path[c], c - 1) /\ \A j \in (i + 1)..k : l[j].depth >= c
  <2>1. /\ wanted \in Seq(Item) /\ Len(wanted) = k + Len(todo)
        /\ \A i \in 1..Len(todo) : todo[i] = wanted[k + i]
        /\ \A i \in 1..k : wanted[i] = [value |-> v[l[i].node], depth |-> l[i].depth]
    BY DEF IsBuilt, IsOutline
  <2>2. ASSUME NEW i \in 1..k PROVE wanted[i].depth = l[i].depth
    <3>1. wanted[i] = [value |-> v[l[i].node], depth |-> l[i].depth]
      BY <2>1
    <3> QED BY <3>1
  <2> QED BY <2>1, <2>2 DEF IsBuilt
<1>3. next = wanted[k + 1] /\ k + 1 \in 1..Len(wanted)
  BY <1>1, <1>2
<1>4. d \in IF k + 1 = 1 THEN {0} ELSE 1..(wanted[(k + 1) - 1].depth + 1)
  <2>1. DOMAIN wanted = 1..Len(wanted)
    BY <1>2, LenProperties
  <2> HIDE DEF next, k
  <2>2. wanted[k + 1].depth \in IF k + 1 = 1 THEN {0} ELSE 1..(wanted[(k + 1) - 1].depth + 1)
    BY <1>3, <2>1 DEF IsOutline
  <2> QED BY <1>3, <2>2
<1>5. CASE l = <<>>
  <2>1. k = 0
    BY <1>5
  <2>2. d = 0
    BY <1>4, <2>1
  <2> QED BY <1>1, <1>3, <1>5, <2>2 DEF IsWhere
<1>6. CASE l # <<>>
  <2>1. k # 0
    BY <1>6, EmptySeq
  <2>2. k \in 1..k /\ (k + 1) - 1 = k /\ k + 1 # 1
    BY <1>1, <2>1
  <2>3. l[k].depth \in Nat /\ wanted[k].depth = l[k].depth
    BY <1>1, <1>2, <2>2 DEF Entries
  <2>4. d \in 1..Len(path)
    BY <1>2, <1>4, <2>1, <2>2, <2>3
  <2>5. PICK i \in 1..k : l[i] = Entry(path[d], d - 1) /\ \A j \in (i + 1)..k : l[j].depth >= d
    BY <1>2, <2>4
  <2>6. ASSUME NEW j \in (i + 1)..k PROVE l[j].depth > d - 1
    <3>1. l[j].depth >= d /\ j \in 1..k
      BY <2>5
    <3>2. l[j].depth \in Nat /\ d \in Nat
      BY <1>1, <2>4, <3>1 DEF Entries
    <3> QED BY <3>1, <3>2
  <2> HIDE DEF k, d
  <2>7. \E c \in 1..k : l[c] = Entry(path[d], d - 1) /\ \A j \in (c + 1)..k : l[j].depth > d - 1
    BY <2>5, <2>6
  <2> QED BY <1>1, <1>3, <1>6, <2>4, <2>7 DEF IsWhere, k, d
<1> QED BY <1>5, <1>6

(* A node more at the end of the list is one value fewer to do.            *)
LEMMA BuiltNext ==
    ASSUME NEW l \in Seq(Entries), NEW v \in [Node -> Word], NEW wanted, IsOutline(wanted),
           NEW todo \in Seq(Item), todo # <<>>, NEW path \in Seq(Node),
           IsBuilt(l, v, wanted, todo, path),
           NEW n \in Node, n \notin NodesOf(l)
    PROVE  LET next == Head(todo)
               p == Append(SubSeq(path, 1, next.depth), n)
           IN  /\ IsBuilt(Append(l, Entry(n, next.depth)), [v EXCEPT ![n] = next.value],
                          wanted, Tail(todo), p)
               /\ p \in Seq(Node)
<1> DEFINE k == Len(l)
           next == Head(todo)
           d == next.depth
           e == Entry(n, d)
           m == Append(l, e)
           w == [v EXCEPT ![n] = next.value]
           s == SubSeq(path, 1, d)
           p == Append(s, n)
           rest == Tail(todo)
<1>1. /\ next \in Item /\ next = wanted[k + 1] /\ d \in Nat /\ next = [value |-> next.value, depth |-> d]
      /\ IsWhere(l, path, next, path[d])
  <2>1. next \in Item /\ next = wanted[k + 1] /\ IsWhere(l, path, next, path[d])
    BY WhereIs
  <2> HIDE DEF next
  <2> QED BY <2>1 DEF Item
<1>2. /\ k \in Nat /\ Len(todo) \in Nat \ {0} /\ Len(path) \in Nat
      /\ rest \in Seq(Item) /\ Len(rest) = Len(todo) - 1
      /\ \A i \in 1..Len(rest) : rest[i] = todo[i + 1]
  <2>1. k \in Nat /\ Len(todo) \in Nat /\ Len(path) \in Nat
    BY LenProperties
  <2>2. Len(todo) # 0
    OBVIOUS
  <2>3. rest \in Seq(Item) /\ Len(rest) = Len(todo) - 1 /\ \A i \in 1..Len(rest) : rest[i] = todo[i + 1]
    BY HeadTailProperties
  <2> QED BY <2>1, <2>2, <2>3
<1>3. /\ Len(wanted) = k + Len(todo)
      /\ \A i \in 1..Len(todo) : todo[i] = wanted[k + i]
      /\ \A i \in 1..k : wanted[i] = [value |-> v[l[i].node], depth |-> l[i].depth]
      /\ Len(path) = IF k = 0 THEN 0 ELSE l[k].depth + 1
      /\ \A c \in 1..Len(path) : \E i \in 1..k :
            l[i] = Entry(path[c], c - 1) /\ \A j \in (i + 1)..k : l[j].depth >= c
  BY DEF IsBuilt
<1>4. d <= Len(path)
  <2>1. CASE l = <<>>
    BY <1>1, <1>2, <2>1 DEF IsWhere
  <2>2. CASE l # <<>>
    BY <1>1, <2>2 DEF IsWhere
  <2> QED BY <2>1, <2>2
<1>5. /\ e \in Entries /\ e.node = n /\ e.depth = d
  BY <1>1, EntryIs DEF Entry
<1>6. /\ m \in Seq(Entries) /\ Len(m) = k + 1 /\ m[k + 1] = e
      /\ \A i \in 1..k : m[i] = l[i]
  <2> HIDE DEF e
  <2> QED BY <1>5, AppendProperties
<1>7. /\ s \in Seq(Node) /\ Len(s) = d /\ \A i \in 1..d : s[i] = path[i]
  <2>1. \A i \in 1..d : path[i] \in Node
    BY <1>1, <1>2, <1>4, ElementOfSeq
  <2>2. /\ s \in Seq(Node) /\ Len(s) = IF 1 <= d THEN d - 1 + 1 ELSE 0
        /\ \A i \in 1..(d - 1 + 1) : s[i] = path[1 + i - 1]
    BY <1>1, <2>1, SubSeqProperties
  <2> HIDE DEF s, d
  <2>3. Len(s) = d
    BY <1>1, <2>2
  <2>4. \A i \in 1..d : s[i] = path[i]
    BY <1>1, <2>2
  <2> QED BY <2>2, <2>3, <2>4
<1>8. /\ p \in Seq(Node) /\ Len(p) = d + 1 /\ p[d + 1] = n
      /\ \A i \in 1..d : p[i] = path[i]
  <2> HIDE DEF s, d
  <2> QED BY <1>1, <1>7, AppendProperties
<1>9. ASSUME NEW i \in 1..k PROVE l[i].node # n /\ l[i] \in Entries
  BY LenProperties, ElementOfSeq DEF NodesOf
<1> HIDE DEF k, next, d, e, m, s, p, rest
<1>10. Len(wanted) = Len(m) + Len(rest) /\ \A i \in 1..Len(rest) : rest[i] = wanted[Len(m) + i]
  <2>1. ASSUME NEW i \in 1..Len(rest) PROVE rest[i] = wanted[Len(m) + i]
    <3>1. i + 1 \in 1..Len(todo) /\ k + (i + 1) = Len(m) + i
      BY <1>2, <1>6
    <3> QED BY <1>2, <1>3, <3>1
  <2>2. Len(wanted) = Len(m) + Len(rest)
    BY <1>2, <1>3, <1>6
  <2> QED BY <2>1, <2>2
<1>11. ASSUME NEW i \in 1..Len(m) PROVE wanted[i] = [value |-> w[m[i].node], depth |-> m[i].depth]
  <2>1. CASE i \in 1..k
    <3>1. l[i].node # n /\ l[i].node \in Node /\ m[i] = l[i]
      BY <1>6, <1>9, <2>1 DEF Entries
    <3>2. w[l[i].node] = v[l[i].node]
      BY <3>1
    <3> QED BY <1>3, <2>1, <3>1, <3>2
  <2>2. CASE i = k + 1
    <3>1. m[i].node = n /\ m[i].depth = d
      BY <1>5, <1>6, <2>2
    <3>2. w[n] = next.value
      OBVIOUS
    <3> QED BY <1>1, <2>2, <3>1, <3>2
  <2> QED BY <1>2, <1>6, <2>1, <2>2
<1>12. Len(p) = IF Len(m) = 0 THEN 0 ELSE m[Len(m)].depth + 1
  BY <1>2, <1>5, <1>6, <1>8
<1>13. ASSUME NEW c \in 1..Len(p)
       PROVE  \E i \in 1..Len(m) : /\ m[i] = Entry(p[c], c - 1)
                                   /\ \A j \in (i + 1)..Len(m) : m[j].depth >= c
  <2>1. CASE c \in 1..d
    <3>1. c \in 1..Len(path) /\ p[c] = path[c] /\ c \in Nat /\ c <= d
      BY <1>1, <1>2, <1>4, <1>8, <2>1
    <3>2. PICK i \in 1..k : l[i] = Entry(path[c], c - 1) /\ \A j \in (i + 1)..k : l[j].depth >= c
      BY <1>3, <3>1
    <3>3. i \in 1..Len(m) /\ m[i] = Entry(p[c], c - 1)
      BY <1>2, <1>6, <3>1, <3>2
    <3>4. ASSUME NEW j \in (i + 1)..Len(m) PROVE m[j].depth >= c
      <4>1. CASE j = k + 1
        BY <1>1, <1>5, <1>6, <3>1, <4>1
      <4>2. CASE j # k + 1
        <5>1. j \in (i + 1)..k /\ j \in 1..k
          BY <1>2, <1>6, <4>2
        <5> QED BY <1>6, <3>2, <5>1
      <4> QED BY <4>1, <4>2
    <3> QED BY <3>3, <3>4
  <2>2. CASE c = d + 1
    <3>1. k + 1 \in 1..Len(m) /\ m[k + 1] = Entry(p[c], c - 1)
      <4>1. c - 1 = d /\ p[c] = n
        BY <1>1, <1>8, <2>2
      <4> QED BY <1>2, <1>6, <4>1 DEF e
    <3>2. \A j \in ((k + 1) + 1)..Len(m) : m[j].depth >= c
      BY <1>2, <1>6
    <3> QED BY <3>1, <3>2
  <2> QED BY <1>1, <1>8, <2>1, <2>2
<1> QED BY <1>8, <1>10, <1>11, <1>12, <1>13 DEF IsBuilt, k, next, d, e, m, s, p, rest

(* n is given to tree t under a node of it, or is its first node.          *)
Extends(t, n, where) ==
    /\ n \in FreeNodes /\ live' = live /\ store' = Give({n}, t)
    /\ heap' = IF where = Null THEN heap ELSE InsertChild(heap, where, n)
    /\ root' = [root EXCEPT ![t] = IF where = Null THEN n ELSE root[t]]

(* Under "where", at depth d, is at the end of the list.                   *)
AtEnd(l, where, d) ==
    IF where = Null THEN l = <<>> /\ d = 0
    ELSE /\ d \in Nat \ {0}
         /\ \E i \in 1..Len(l) : /\ l[i] = Entry(where, d - 1)
                                 /\ \A j \in (i + 1)..Len(l) : l[j].depth > d - 1

IsExtended(t, n, d) ==
    /\ heap' \in Heap /\ n \notin Nodes(t)
    /\ \A m \in Node \ (Nodes(t) \union {n}) : heap'[m] = heap[m]
    /\ Nodes(t)' = Nodes(t) \union {n} /\ \A u \in Tree \ {t} : Nodes(u)' = Nodes(u)
    /\ \A u \in Tree \ {t} : root'[u] = root[u]
    /\ IsTree(heap', Nodes(t)', root'[t]) /\ root'[t] \in Node
    /\ ListOf(heap', root'[t]) = Append(ListOf(heap, root[t]), Entry(n, d))

LEMMA ExtensionIs ==
    ASSUME Sound, NEW t \in Tree, NEW n \in Node, NEW where, NEW d, Extends(t, n, where),
           AtEnd(ListOf(heap, root[t]), where, d)
    PROVE  IsExtended(t, n, d)
<1> DEFINE X == Nodes(t)
           l == ListOf(heap, root[t])
           r == root[t]
<1>1. /\ heap \in Heap /\ X \subseteq Node /\ t # Null /\ root \in [Tree -> Node \union {Null}]
      /\ Shaped(heap, X, r) /\ store \in [Node -> live \union {Null}] /\ heap[n] = FreshNode
      /\ n \in FreeNodes /\ n \notin X /\ n # Null
  <2>1. n \in FreeNodes /\ heap[n] = FreshNode
    BY DEF Extends, Sound, FreeAreFresh
  <2>2. n \notin X
    BY <2>1, TreeAssumption DEF FreeNodes, Nodes
  <2> QED BY <2>1, <2>2, SoundIs, NodeAssumption DEF Sound, TypeOK
<1>2. Nodes(t)' = X \union {n} /\ \A u \in Tree \ {t} : Nodes(u)' = Nodes(u)
  BY <1>1, TreeAssumption DEF Extends, Give, Nodes, FreeNodes
<1>3. \A u \in Tree \ {t} : root'[u] = root[u]
  BY <1>1 DEF Extends
<1>4. /\ l \in Seq(Entries) /\ NodesOf(l) = X /\ (r = Null <=> l = <<>>)
      /\ \A i \in 1..Len(l) : l[i].node \in X
  BY <1>1, ShapedList
<1>5. CASE where = Null
  <2>1. heap' = heap /\ root'[t] = n /\ l = <<>> /\ d = 0
    BY <1>1, <1>5 DEF Extends, AtEnd
  <2>2. X = {}
    BY <1>1, <1>4, <2>1 DEF Shaped
  <2>3. IsTree(heap, {n}, n) /\ Block(heap, 0, n) = <<Entry(n, 0)>>
    BY <1>1, SingleIs
  <2>4. X \union {n} = {n} /\ Append(<<>>, Entry(n, 0)) = <<Entry(n, 0)>>
    BY <2>2
  <2>5. ListOf(heap', root'[t]) = Append(l, Entry(n, d))
    BY <1>1, <2>1, <2>3, <2>4 DEF ListOf
  <2> HIDE DEF X, l
  <2> QED BY <1>1, <1>2, <1>3, <2>1, <2>3, <2>4, <2>5 DEF IsExtended, X, l
<1>6. CASE where # Null
  <2>1. heap' = InsertChild(heap, where, n) /\ root'[t] = r
    BY <1>1, <1>6 DEF Extends
  <2>2. PICK i \in 1..Len(l) : /\ l[i] = Entry(where, d - 1)
                               /\ \A j \in (i + 1)..Len(l) : l[j].depth > d - 1
    BY <1>6 DEF AtEnd
  <2>3. d - 1 \in Nat /\ (d - 1) + 1 = d
    BY <1>6 DEF AtEnd
  <2>4. where \in X /\ where \in Node /\ where # n
    BY <1>1, <1>4, <2>2 DEF Entry
  <2>5. l # <<>> /\ r # Null
    BY <1>4, <2>2
  <2>6. IsTree(heap, X, r) /\ l = Block(heap, 0, r)
    BY <1>1, <2>5 DEF Shaped, ListOf
  <2>7. Block(InsertChild(heap, where, n), 0, r) = Append(l, Entry(n, d))
    <3> DEFINE b == Block(heap, 0, r)
               c == d - 1
    <3>1. /\ i \in 1..Len(b) /\ b[i] = Entry(where, c) /\ c \in Nat
          /\ \A j \in (i + 1)..Len(b) : b[j].depth > c
      BY <2>2, <2>3, <2>6
    <3> HIDE DEF c, X
    <3>2. Block(InsertChild(heap, where, n), 0, r) = Append(b, Entry(n, c + 1))
      BY <1>1, <2>4, <2>6, <3>1, AppendLists
    <3>3. c + 1 = d
      BY <2>3 DEF c
    <3> QED BY <2>6, <3>2, <3>3
  <2>8. IsTree(heap', X \union {n}, r)
    <3> DEFINE Y == {n}
    <3>1. IsTree(heap, Y, n) /\ X \intersect Y = {}
      BY <1>1, FreshIsTree
    <3> HIDE DEF X, Y
    <3>2. IsTree(InsertChild(heap, where, n), X \union Y, r)
      BY <1>1, <2>4, <2>6, <3>1, InsertKeepsTrees
    <3> QED BY <2>1, <3>2 DEF Y
  <2>9. heap' \in Heap /\ \A m \in Node \ {where, n} : heap'[m] = heap[m]
    <3>1. /\ InsertChild(heap, where, n) \in Heap
          /\ \A m \in Node \ {where, n} : InsertChild(heap, where, n)[m] = heap[m]
      BY <1>1, <2>4, InsertChildIs
    <3> QED BY <2>1, <3>1
  <2>10. ListOf(heap', root'[t]) = Append(l, Entry(n, d)) /\ root'[t] \in Node
    BY <1>1, <2>1, <2>5, <2>7 DEF ListOf
  <2> HIDE DEF l
  <2> QED BY <1>1, <1>2, <1>3, <2>1, <2>4, <2>8, <2>9, <2>10 DEF IsExtended, l
<1> QED BY <1>5, <1>6

(* What a step of building does.                                           *)
Making(n, where) ==
    LET next == Head(job.todo)
    IN  /\ Extends(job.temp, n, where)
        /\ AtEnd(ListOf(heap, root[job.temp]), where, next.depth)
        /\ IF job.copying THEN CopyNode(job.temp, n, where)
           ELSE IF where = Null THEN EmplaceRoot(job.temp, n) ELSE Emplace(job.temp, where, n)
        /\ value' = [value EXCEPT ![n] = next.value]
        /\ job' = [job EXCEPT !.todo = Tail(@), !.path = Append(SubSeq(@, 1, next.depth), n)]

LEMMA JobIs ==
    ASSUME CInv, job # NoJob
    PROVE  /\ Building /\ Sound /\ value \in [Node -> Word]
           /\ job.temp \in Tree /\ job.temp \in live /\ job.temp # Null
           /\ job.into \in Tree \union {Null} /\ job.into # job.temp
           /\ job.copying \in BOOLEAN /\ job.todo \in Seq(Item) /\ job.path \in Seq(Node)
           /\ job.wanted \in Seq(Item) /\ IsOutline(job.wanted)
           /\ IsBuilt(ListOf(heap, root[job.temp]), value, job.wanted, job.todo, job.path)
           /\ ListOf(heap, root[job.temp]) \in Seq(Entries)
           /\ NodesOf(ListOf(heap, root[job.temp])) = Nodes(job.temp)
           /\ root[job.temp] = Null <=> ListOf(heap, root[job.temp]) = <<>>
<1>1. Building /\ Sound /\ value \in [Node -> Word]
  BY DEF CInv
<1>2. /\ job.temp \in Tree /\ job.into \in Tree \union {Null} /\ job.copying \in BOOLEAN
      /\ job.todo \in Seq(Item) /\ job.path \in Seq(Node) /\ job.wanted \in Seq(Item)
  BY <1>1 DEF Building, Jobs
<1>3. job.temp \in live /\ job.temp # Null /\ job.into # job.temp
  BY <1>1, <1>2, TreeAssumption DEF Building
<1>4. heap \in Heap /\ Shaped(heap, Nodes(job.temp), root[job.temp])
  BY <1>1, <1>2, SoundIs
<1>5. /\ ListOf(heap, root[job.temp]) \in Seq(Entries)
      /\ NodesOf(ListOf(heap, root[job.temp])) = Nodes(job.temp)
      /\ root[job.temp] = Null <=> ListOf(heap, root[job.temp]) = <<>>
  BY <1>4, ShapedList
<1> QED BY <1>1, <1>2, <1>3, <1>5 DEF Building

LEMMA MakeIs ==
    ASSUME CInv, MakeNext
    PROVE  \E n \in Node, where \in Node \union {Null} : Making(n, where)
<1> DEFINE next == Head(job.todo)
           t == job.temp
           l == ListOf(heap, root[t])
           where == IF next.depth = 0 THEN Null ELSE job.path[next.depth]
<1>1. PICK n \in Spare :
        /\ IF job.copying THEN CopyNode(t, n, where) ELSE FillNode(t, n, where)
        /\ value' = [value EXCEPT ![n] = next.value]
        /\ job' = [job EXCEPT !.todo = Tail(@), !.path = Append(SubSeq(@, 1, next.depth), n)]
  BY DEF MakeNext
<1>2. job # NoJob /\ job.todo # <<>> /\ n \in FreeNodes /\ n \in Node /\ n # Null
  BY NodeAssumption DEF MakeNext, Spare, FreeNodes
<1>3. /\ l \in Seq(Entries) /\ (root[t] = Null <=> l = <<>>) /\ job.path \in Seq(Node)
      /\ t \in Tree /\ IsOutline(job.wanted) /\ job.todo \in Seq(Item)
      /\ IsBuilt(l, value, job.wanted, job.todo, job.path)
  BY <1>2, JobIs
<1>4. next \in Item /\ IsWhere(l, job.path, next, job.path[next.depth])
  <2> HIDE DEF l
  <2> QED BY <1>2, <1>3, WhereIs
<1>5. AtEnd(l, where, next.depth) /\ where \in Node \union {Null} /\ (where = Null <=> root[t] = Null)
  <2>1. CASE l = <<>>
    <3>1. next.depth = 0
      BY <1>4, <2>1 DEF IsWhere
    <3> QED BY <1>3, <2>1, <3>1 DEF AtEnd
  <2>2. CASE l # <<>>
    <3>1. /\ next.depth \in 1..Len(job.path)
          /\ \E i \in 1..Len(l) : /\ l[i] = Entry(job.path[next.depth], next.depth - 1)
                                  /\ \A j \in (i + 1)..Len(l) : l[j].depth > next.depth - 1
      BY <1>4, <2>2 DEF IsWhere
    <3>2. next.depth \in Nat \ {0} /\ where = job.path[next.depth] /\ where \in Node /\ where # Null
      BY <1>3, <3>1, ElementOfSeq, LenProperties, NodeAssumption, SMTT(60)
    <3> HIDE DEF l, next, where
    <3> QED BY <1>3, <2>2, <3>1, <3>2 DEF AtEnd
  <2> QED BY <2>1, <2>2
<1> HIDE DEF where, next, l
<1>6. /\ IF job.copying THEN CopyNode(t, n, where)
         ELSE IF where = Null THEN EmplaceRoot(t, n) ELSE Emplace(t, where, n)
  BY <1>1 DEF FillNode
<1>7. Extends(t, n, where)
  <2>1. CASE job.copying
    <3>1. CopyNode(t, n, where)
      BY <1>6, <2>1
    <3>2. root' = [root EXCEPT ![t] = IF where = Null THEN n ELSE root[t]]
      BY <3>1 DEF CopyNode, SetPointers
    <3> QED BY <1>2, <3>1, <3>2 DEF CopyNode, Extends
  <2>2. CASE ~job.copying /\ where = Null
    <3>1. EmplaceRoot(t, n) /\ root[t] = Null
      BY <1>5, <1>6, <2>2
    <3>2. /\ root' = [root EXCEPT ![t] = n] /\ heap' = heap
          /\ store' = Give({n}, t) /\ live' = live
      BY <3>1 DEF EmplaceRoot, SetPointers
    <3> QED BY <1>2, <2>2, <3>2 DEF Extends
  <2>3. CASE ~job.copying /\ where # Null
    <3>1. Emplace(t, where, n)
      BY <1>6, <2>3
    <3>2. /\ root' = [root EXCEPT ![t] = root[t]] /\ heap' = InsertChild(heap, where, n)
          /\ store' = Give({n}, t) /\ live' = live
      BY <3>1 DEF Emplace, SetExtrema, SetPointers
    <3> QED BY <1>2, <2>3, <3>2 DEF Extends
  <2> QED BY <2>1, <2>2, <2>3
<1>8. Making(n, where)
  BY <1>1, <1>5, <1>6, <1>7 DEF Making, next, l
<1> QED BY <1>2, <1>5, <1>8

-----------------------------------------------------------------------------
(* The actions keep the invariant.                                         *)

(* Nodes that stay as they are carry the contents to the tree they go to.  *)
LEMMA ContentsGo ==
    ASSUME Sound, heap' \in Heap, root' \in [Tree -> Node \union {Null}],
           NEW u \in Tree, NEW t \in Tree, root'[t] = root[u],
           \A m \in Nodes(u) : heap'[m] = heap[m] /\ value'[m] = value[m]
    PROVE  Contents(t)' = Contents(u)
<1>1. /\ heap \in Heap /\ root \in [Tree -> Node \union {Null}]
      /\ Shaped(heap, Nodes(u), root[u])
  BY SoundIs
<1>2. Valued(value', ListOf(heap', root[u])) = Valued(value, ListOf(heap, root[u]))
  <2> DEFINE X == Nodes(u)
  <2>1. \A m \in X : heap'[m].children = heap[m].children /\ value'[m] = value[m]
    OBVIOUS
  <2> HIDE DEF X
  <2> QED BY <1>1, <2>1, ContentsFrame DEF X
<1> QED BY <1>1, <1>2, ContentsAre, ContentsAreNext

LEMMA ContentsStay ==
    ASSUME Sound, heap' \in Heap, NEW u \in Tree, root' \in [Tree -> Node \union {Null}],
           root'[u] = root[u],
           \A m \in Nodes(u) : heap'[m] = heap[m] /\ value'[m] = value[m]
    PROVE  Contents(u)' = Contents(u)
BY ContentsGo

LEMMA HeldIs ==
    ASSUME NEW v \in [Node -> Word]
    PROVE  /\ Held(v) \in [Node -> Word]
           /\ \A n \in Node : store'[n] # Null => Held(v)[n] = v[n]
<1>1. 0 \in Word
  BY ContentsAssumption DEF Word
<1> QED BY <1>1 DEF Held

(* The extrema at the end of a copy.                                       *)
LEMMA EndsAreIn ==
    ASSUME NEW h \in Heap, NEW X, NEW r, IsTree(h, X, r)
    PROVE  /\ LeftmostChildOrThis(h, r) \in X /\ RightmostChildOrThis(h, r) \in X
           /\ EndsIn(X, r, LeftmostChildOrThis(h, r), RightmostChildOrThis(h, r))
<1>1. X \subseteq Node /\ r \in X /\ \A m \in X : Children(h, m) \subseteq X
  BY TreeClosed DEF IsTree
<1>2. LeftmostChildOrThis(h, r) \in X /\ RightmostChildOrThis(h, r) \in X
  BY <1>1, LeftmostChildOrThisStays, RightmostChildOrThisStays
<1>3. r # Null
  BY <1>1, NodeAssumption
<1> QED BY <1>2, <1>3 DEF EndsIn

LEMMA NothingUnfinished ==
    ASSUME job = NoJob \/ ~job.copying \/ job.todo = <<>>
    PROVE  \A t \in Tree : ~Unfinished(t)
BY DEF Unfinished

LEMMA TailIsLeft == ASSUME NEW s \in Seq(Item), Len(s) > 1 PROVE Tail(s) # <<>>
<1> DEFINE k == Len(s)
           q == Tail(s)
<1>1. s # <<>> /\ k \in Nat
  BY LenProperties
<1>2. Len(q) = k - 1
  BY <1>1, HeadTailProperties
<1>3. k > 1
  OBVIOUS
<1> HIDE DEF k, q
<1>4. Len(<<>>) = 0
  OBVIOUS
<1>5. q # <<>>
  BY <1>1, <1>2, <1>3, <1>4
<1> QED BY <1>5 DEF q

(* The node made last when a copy is complete.                             *)
LEMMA CopyNodeIs ==
    ASSUME CInv, job # NoJob, job.copying, NEW n \in Node, NEW where \in Node \union {Null},
           Making(n, where), IsExtended(job.temp, n, Head(job.todo).depth)
    PROVE  LET t == job.temp
               r == root'[t]
           IN  \E lm, rm \in Node \union {Null} :
                 /\ leftmost' = [leftmost EXCEPT ![t] = lm]
                 /\ rightmost' = [rightmost EXCEPT ![t] = rm]
                 /\ Tail(job.todo) = <<>> => lm = LeftmostChildOrThis(heap', r)
                                             /\ rm = RightmostChildOrThis(heap', r)
<1> DEFINE t == job.temp
           r == IF where = Null THEN n ELSE root[t]
<1>1. CopyNode(t, n, where) /\ Extends(t, n, where)
  BY DEF Making
<1>2. t \in Tree /\ job.todo \in Seq(Item) /\ root \in [Tree -> Node \union {Null}]
  BY JobIs, SoundIs
<1>3. root'[t] = r
  BY <1>1, <1>2 DEF Extends
<1>4. CASE Len(job.todo) > 1
  <2>1. SetPointers(t, r, Null, Null)
    BY <1>1, <1>4 DEF CopyNode
  <2>2. Tail(job.todo) # <<>>
    BY <1>2, <1>4, TailIsLeft
  <2> QED BY <2>1, <2>2 DEF SetPointers
<1>5. CASE ~(Len(job.todo) > 1)
  <2>1. SetPointers(t, r, LeftmostChildOrThis(heap', r), RightmostChildOrThis(heap', r))
    BY <1>1, <1>5 DEF CopyNode
  <2>2. LeftmostChildOrThis(heap', r) \in Node /\ RightmostChildOrThis(heap', r) \in Node
    <3>1. heap' \in Heap /\ IsTree(heap', Nodes(t)', root'[t])
      BY DEF IsExtended
    <3>2. /\ LeftmostChildOrThis(heap', root'[t]) \in Nodes(t)'
          /\ RightmostChildOrThis(heap', root'[t]) \in Nodes(t)'
          /\ Nodes(t)' \subseteq Node
      BY <3>1, EndsAreIn DEF IsTree
    <3> QED BY <1>3, <3>2
  <2> QED BY <1>3, <2>1, <2>2 DEF SetPointers
<1> QED BY <1>4, <1>5

LEMMA MakeKeepsSound ==
    ASSUME CInv, job # NoJob, job.todo # <<>>, NEW n \in Node, NEW where \in Node \union {Null},
           Making(n, where), IsExtended(job.temp, n, Head(job.todo).depth),
           job'.temp = job.temp, job'.copying = job.copying, job'.todo = Tail(job.todo),
           job' # NoJob
    PROVE  Sound'
<1> DEFINE t == job.temp
<1>1. /\ Sound /\ t \in Tree /\ t \in live /\ t # Null /\ job.copying \in BOOLEAN
      /\ root \in [Tree -> Node \union {Null}] /\ TypeOK /\ FreeAreFresh /\ DeadAreEmpty
  BY JobIs, SoundIs DEF Sound
<1>2. CASE job.copying
  <2>1. PICK lm \in Node \union {Null}, rm \in Node \union {Null} :
          /\ leftmost' = [leftmost EXCEPT ![t] = lm]
          /\ rightmost' = [rightmost EXCEPT ![t] = rm]
          /\ Tail(job.todo) = <<>> => lm = LeftmostChildOrThis(heap', root'[t])
                                      /\ rm = RightmostChildOrThis(heap', root'[t])
    BY <1>2, CopyNodeIs
  <2>2. /\ n \in FreeNodes /\ live' = live
        /\ store' = [m \in Node |-> IF m = n THEN t ELSE store[m]]
        /\ root' = [root EXCEPT ![t] = root'[t]]
    BY <1>1 DEF Making, Extends, Give
  <2>3. /\ heap' \in Heap /\ root'[t] \in Node /\ IsTree(heap', Nodes(t)', root'[t])
        /\ \A m \in Node \ (Nodes(t) \union {n}) : heap'[m] = heap[m]
        /\ \A u \in Tree \ {t} : Nodes(u)' = Nodes(u) /\ root'[u] = root[u]
    BY DEF IsExtended
  <2>4. TypeOK'
    BY <1>1, <2>1, <2>2, <2>3 DEF TypeOK
  <2>5. \A m \in Node : store'[m] = Null => heap'[m] = FreshNode
    <3> SUFFICES ASSUME NEW m \in Node, store'[m] = Null PROVE heap'[m] = FreshNode
      OBVIOUS
    <3>1. m # n /\ store[m] = Null
      BY <1>1, <2>2
    <3>2. m \notin Nodes(t) /\ heap[m] = FreshNode
      BY <1>1, <3>1 DEF Nodes, FreeAreFresh, FreeNodes
    <3> QED BY <2>3, <3>1, <3>2
  <2>6. \A u \in Tree \ live' : root'[u] = Null
    BY <1>1, <2>2, <2>3 DEF DeadAreEmpty
  <2> DEFINE T == {t}
  <2>7. T \in SUBSET Tree
    BY <1>1
  <2>8. \A u \in T : /\ Shaped(heap', Nodes(u)', root'[u])
                     /\ Unfinished(u)' \/ EndsIn(Nodes(u)', root'[u], leftmost'[u], rightmost'[u])
    <3>1. Shaped(heap', Nodes(t)', root'[t])
      BY <2>3, NodeAssumption DEF Shaped
    <3>2. leftmost'[t] = lm /\ rightmost'[t] = rm
      BY <1>1, <2>1 DEF TypeOK
    <3>3. Unfinished(t)' \/ EndsIn(Nodes(t)', root'[t], leftmost'[t], rightmost'[t])
      <4>1. CASE Tail(job.todo) = <<>>
        BY <2>1, <2>3, <3>2, <4>1, EndsAreIn
      <4>2. CASE Tail(job.todo) # <<>>
        BY <1>2, <4>2 DEF Unfinished, NoJob
      <4> QED BY <4>1, <4>2
    <3> QED BY <3>1, <3>3
  <2>9. \A u \in Tree \ T :
             /\ root'[u] = root[u] /\ leftmost'[u] = leftmost[u] /\ rightmost'[u] = rightmost[u]
             /\ Nodes(u)' = Nodes(u) /\ ~Unfinished(u)
             /\ \A m \in Nodes(u) : heap'[m] = heap[m]
    <3> SUFFICES ASSUME NEW u \in Tree, u # t
                 PROVE  /\ root'[u] = root[u] /\ leftmost'[u] = leftmost[u]
                        /\ rightmost'[u] = rightmost[u]
                        /\ Nodes(u)' = Nodes(u) /\ ~Unfinished(u)
                        /\ \A m \in Nodes(u) : heap'[m] = heap[m]
      OBVIOUS
    <3>1. leftmost'[u] = leftmost[u] /\ rightmost'[u] = rightmost[u] /\ ~Unfinished(u)
      BY <1>1, <2>1 DEF TypeOK, Unfinished
    <3>2. \A m \in Nodes(u) : m \in Node \ (Nodes(t) \union {n})
      BY <1>1, <2>2, TreeAssumption DEF Nodes, FreeNodes
    <3> QED BY <2>3, <3>1, <3>2
  <2> HIDE DEF T
  <2> QED BY <1>1, <2>4, <2>5, <2>6, <2>7, <2>8, <2>9, StepKeepsSound
<1>3. CASE ~job.copying
  <2>1. IInv
    BY <1>1, <1>3, NothingUnfinished, SoundIsIInv
  <2>2. where = Null => EmplaceRoot(t, n)
    BY <1>3 DEF Making
  <2>3. where # Null => Emplace(t, where, n)
    BY <1>3 DEF Making
  <2>4. IInv'
    BY <1>1, <2>1, <2>2, <2>3, EmplaceKeeps, EmplaceRootKeeps
  <2> QED BY <2>4, IInvIsSoundNext
<1> QED BY <1>1, <1>2, <1>3

LEMMA MakeNextKeeps == ASSUME CInv, MakeNext PROVE CInv'
<1> DEFINE t == job.temp
           next == Head(job.todo)
           d == next.depth
<1>1. job # NoJob /\ job.todo # <<>>
  BY DEF MakeNext
<1>2. PICK n \in Node, where \in Node \union {Null} : Making(n, where)
  BY MakeIs
<1>3. /\ Sound /\ value \in [Node -> Word] /\ t \in Tree /\ t \in live /\ Building
      /\ job.todo \in Seq(Item) /\ job.path \in Seq(Node) /\ IsOutline(job.wanted)
      /\ IsBuilt(ListOf(heap, root[t]), value, job.wanted, job.todo, job.path)
      /\ ListOf(heap, root[t]) \in Seq(Entries) /\ NodesOf(ListOf(heap, root[t])) = Nodes(t)
  BY <1>1, JobIs
<1>4. /\ Extends(t, n, where) /\ AtEnd(ListOf(heap, root[t]), where, d)
      /\ value' = [value EXCEPT ![n] = next.value]
      /\ job' = [job EXCEPT !.todo = Tail(@), !.path = Append(SubSeq(@, 1, d), n)]
  BY <1>2 DEF Making
<1>5. IsExtended(t, n, d)
  BY <1>3, <1>4, ExtensionIs
<1>6. /\ heap' \in Heap /\ n \notin Nodes(t) /\ live' = live
      /\ \A m \in Node \ (Nodes(t) \union {n}) : heap'[m] = heap[m]
      /\ \A u \in Tree \ {t} : Nodes(u)' = Nodes(u) /\ root'[u] = root[u]
      /\ ListOf(heap', root'[t]) = Append(ListOf(heap, root[t]), Entry(n, d))
      /\ n \in FreeNodes
  BY <1>4, <1>5 DEF IsExtended, Extends
<1> DEFINE p == Append(SubSeq(job.path, 1, d), n)
           rest == Tail(job.todo)
<1>7. IsBuilt(ListOf(heap', root'[t]), value', job.wanted, rest, p) /\ p \in Seq(Node)
  <2> DEFINE l == ListOf(heap, root[t])
  <2> HIDE DEF l
  <2>1. /\ IsBuilt(Append(l, Entry(n, d)), [value EXCEPT ![n] = next.value], job.wanted, rest, p)
        /\ p \in Seq(Node)
    BY <1>1, <1>3, <1>6, BuiltNext DEF l
  <2> QED BY <1>4, <1>6, <2>1 DEF l
<1>8. /\ next.value \in Word /\ rest \in Seq(Item)
  <2>1. next \in Item /\ rest \in Seq(Item)
    BY <1>1, <1>3, HeadTailProperties
  <2> QED BY <2>1 DEF Item
<1>9. value' \in [Node -> Word] /\ \A m \in Node \ {n} : value'[m] = value[m]
  BY <1>3, <1>4, <1>8
<1>10. /\ job' = [temp |-> t, into |-> job.into, copying |-> job.copying, todo |-> rest,
                  path |-> p, wanted |-> job.wanted, before |-> job.before]
       /\ job.into \in (live \ {t}) \union {Null} /\ job.copying \in BOOLEAN
       /\ job.wanted \in Seq(Item) /\ job.before \in [live \ {t} -> Seq(Item)]
       /\ job.into \in Tree \union {Null}
  <2>1. job \in Jobs /\ job.into \in (live \ {t}) \union {Null}
    BY <1>3 DEF Building
  <2> HIDE DEF rest, p, d, next
  <2> QED BY <1>4, <2>1 DEF Jobs, rest, p
<1> HIDE DEF rest, p
<1>11. /\ job'.temp = t /\ job'.copying = job.copying /\ job'.todo = rest /\ job'.path = p
       /\ job'.into = job.into /\ job'.wanted = job.wanted /\ job'.before = job.before
  BY <1>10
<1>12. job' # NoJob
  <2>1. job'.temp # NoJob.temp
    BY <1>3, <1>11, TreeAssumption DEF NoJob
  <2> QED BY <2>1
<1>13. Sound'
  BY <1>1, <1>2, <1>5, <1>11, <1>12, MakeKeepsSound DEF rest
<1>14. Building'
  <2>1. job' \in Jobs'
    BY <1>3, <1>6, <1>7, <1>8, <1>10, <1>11 DEF Jobs
  <2>2. ASSUME NEW u \in live \ {t} PROVE Contents(u)' = job.before[u]
    <3>1. u \in Tree /\ u # t /\ Contents(u) = job.before[u] /\ root' \in [Tree -> Node \union {Null}]
      BY <1>3, <1>13, <2>2 DEF Building, Sound, TypeOK
    <3>2. \A m \in Nodes(u) : m \in Node \ (Nodes(t) \union {n})
      BY <1>3, <1>6, <3>1, TreeAssumption DEF Nodes, FreeNodes
    <3>3. \A m \in Nodes(u) : heap'[m] = heap[m] /\ value'[m] = value[m]
      BY <1>6, <1>9, <3>2
    <3> QED BY <1>3, <1>6, <3>1, <3>3, ContentsStay
  <2>3. \A u \in live' \ {job'.temp} : Contents(u)' = job'.before[u]
    BY <1>6, <1>11, <2>2
  <2>4. job'.temp \in live' /\ job'.into \in (live' \ {job'.temp}) \union {Null}
    BY <1>3, <1>6, <1>10, <1>11
  <2>5. IsOutline(job'.wanted) /\ IsBuilt(ListOf(heap', root'[job'.temp]), value', job'.wanted, job'.todo, job'.path)
    BY <1>3, <1>7, <1>11
  <2> QED BY <2>1, <2>3, <2>4, <2>5 DEF Building
<1> QED BY <1>9, <1>13, <1>14 DEF CInv

LEMMA ContentsType ==
    ASSUME Sound, value \in [Node -> Word], NEW u \in Tree
    PROVE  Contents(u) \in Seq(Item)
<1>1. heap \in Heap /\ root \in [Tree -> Node \union {Null}] /\ Shaped(heap, Nodes(u), root[u])
  BY SoundIs
<1>2. ListOf(heap, root[u]) \in Seq(Entries)
  BY <1>1, ShapedList
<1> QED BY <1>1, <1>2, ContentsAre, ValuedIs

LEMMA NothingIsBuilt ==
    ASSUME NEW v, NEW w \in Seq(Item) PROVE IsBuilt(<<>>, v, w, w, <<>>)
<1>1. Len(<<>>) = 0 /\ Len(w) \in Nat
  BY LenProperties
<1>2. /\ 1..Len(<<>>) = {} /\ Len(w) = Len(<<>>) + Len(w)
      /\ \A i \in 1..Len(w) : Len(<<>>) + i = i
  BY <1>1
<1> QED BY <1>1, <1>2 DEF IsBuilt

LEMMA BeginKeeps ==
    ASSUME CInv, NEW list, IsOutline(list), NEW copying \in BOOLEAN,
           NEW into \in Tree \union {Null}, Begin(list, copying, into)
    PROVE  CInv'
<1>1. PICK temp \in Tree \ live :
        /\ Construct(temp)
        /\ job' = [temp |-> temp, into |-> into, copying |-> copying, todo |-> list,
                   path |-> <<>>, wanted |-> list, before |-> Snapshot]
  BY DEF Begin
<1>2. /\ job = NoJob /\ value' = value /\ Sound /\ value \in [Node -> Word]
      /\ into \in live \union {Null} /\ list \in Seq(Item)
  BY DEF Begin, CInv, IsOutline
<1>3. IInv
  BY <1>2, NothingUnfinished, SoundIsIInv
<1>4. Sound'
  BY <1>1, <1>3, ConstructKeeps, IInvIsSoundNext
<1>5. /\ live' = live \union {temp} /\ heap' = heap /\ root' = root /\ live \subseteq Tree
      /\ heap' \in Heap /\ root' \in [Tree -> Node \union {Null}] /\ root[temp] = Null
  BY <1>1, <1>2, <1>4, SoundIs DEF Construct, pointers, Sound, TypeOK
<1>6. /\ job'.temp = temp /\ job'.into = into /\ job'.copying = copying /\ job'.todo = list
      /\ job'.path = <<>> /\ job'.wanted = list /\ job'.before = Snapshot
  BY <1>1
<1>7. live' \ {temp} = live
  BY <1>1, <1>5
<1>8. Snapshot \in [live -> Seq(Item)] /\ \A u \in live : Snapshot[u] = Contents(u)
  <2>1. \A u \in live : Contents(u) \in Seq(Item)
    BY <1>2, <1>5, ContentsType
  <2> QED BY <2>1 DEF Snapshot
<1>9. job' \in Jobs'
  <2>1. <<>> \in Seq(Node)
    OBVIOUS
  <2> QED BY <1>1, <1>2, <1>6, <1>7, <1>8, <2>1 DEF Jobs
<1>10. ASSUME NEW u \in live PROVE Contents(u)' = Contents(u)
  <2>1. u \in Tree /\ root'[u] = root[u]
    BY <1>5
  <2>2. \A m \in Nodes(u) : heap'[m] = heap[m] /\ value'[m] = value[m]
    BY <1>2, <1>5
  <2> QED BY <1>2, <1>5, <2>1, <2>2, ContentsStay
<1>11. IsBuilt(ListOf(heap', root'[temp]), value', list, list, <<>>)
  <2>1. ListOf(heap', root'[temp]) = <<>>
    BY <1>5 DEF ListOf
  <2> QED BY <1>2, <2>1, NothingIsBuilt
<1>12. job'.temp \in live' /\ job'.into \in (live' \ {job'.temp}) \union {Null}
  BY <1>2, <1>5, <1>6, <1>7
<1>13. \A u \in live' \ {job'.temp} : Contents(u)' = job'.before[u]
  BY <1>6, <1>7, <1>8, <1>10
<1>14. Building'
  BY <1>6, <1>9, <1>11, <1>12, <1>13 DEF Building
<1> QED BY <1>2, <1>4, <1>14 DEF CInv

LEMMA BeginsKeep ==
    ASSUME CInv, NEW into \in Tree \union {Null},
           \/ \E from \in Node : BeginCopy(from, into)
           \/ \E u \in Tree : BeginCopyOfEmpty(u, into)
           \/ \E init \in Initializer : BeginFill(init, into)
    PROVE  CInv'
<1>1. ASSUME NEW from \in Node, BeginCopy(from, into) PROVE CInv'
  <2> DEFINE l == Preorder(heap, from)
             list == [i \in DOMAIN l |-> [value |-> value[l[i].node], depth |-> l[i].depth]]
             t == store[from]
  <2>1. Begin(list, TRUE, into) /\ t # Null
    BY <1>1 DEF BeginCopy
  <2>2. job = NoJob /\ Sound /\ value \in [Node -> Word]
    BY <2>1 DEF Begin, CInv
  <2>3. IInv
    BY <2>2, NothingUnfinished, SoundIsIInv
  <2>4. heap \in Heap /\ IsTree(heap, Nodes(t), root[t]) /\ from \in Nodes(t)
    BY <2>1, <2>3, OwnerIs DEF IInv, TypeOK
  <2> HIDE DEF t
  <2>5. IsOutline(list)
    BY <2>2, <2>4, SubtreeOutline
  <2> HIDE DEF list
  <2> QED BY <2>1, <2>5, BeginKeeps
<1>2. ASSUME NEW u \in Tree, BeginCopyOfEmpty(u, into) PROVE CInv'
  <2>1. IsOutline(<<>>)
    BY DEF IsOutline
  <2> QED BY <1>2, <2>1, BeginKeeps DEF BeginCopyOfEmpty
<1>3. ASSUME NEW init \in Initializer, BeginFill(init, into) PROVE CInv'
  <2>1. IsOutline(init)
    BY ContentsAssumption
  <2> QED BY <1>3, <2>1, BeginKeeps DEF BeginFill
<1> QED BY <1>1, <1>2, <1>3

(* What destroying the tree under construction leaves.                     *)
LEMMA ThrowKeeps ==
    ASSUME CInv, MakeThrows
    PROVE  CInv' /\ Snapshot' = job.before
<1>0. PICK t \in Tree : t = job.temp
  BY JobIs DEF MakeThrows
<1>1. /\ job # NoJob /\ job' = NoJob /\ value' = Held(value) /\ live' = live \ {t}
      /\ Destroyed(Nodes(t)) /\ SetPointers(t, Null, Null, Null)
  BY <1>0 DEF MakeThrows, Destroy
<1>2. /\ Building /\ Sound /\ value \in [Node -> Word] /\ t \in Tree /\ t \in live /\ t # Null
      /\ TypeOK /\ FreeAreFresh /\ DeadAreEmpty
  BY <1>0, <1>1, JobIs DEF Sound
<1>3. /\ heap \in Heap
      /\ store \in [Node -> live \union {Null}] /\ live \subseteq Tree
      /\ root \in [Tree -> Node \union {Null}]
      /\ leftmost \in [Tree -> Node \union {Null}]
      /\ rightmost \in [Tree -> Node \union {Null}]
  BY <1>2 DEF TypeOK
<1>4. /\ heap' \in Heap
      /\ \A n \in Node \ Nodes(t) : heap'[n] = heap[n]
      /\ \A n \in Node \intersect Nodes(t) : heap'[n] = FreshNode
  BY <1>1, <1>3, FreeIs DEF Destroyed
<1>5. /\ store' = [n \in Node |-> IF n \in Nodes(t) THEN Null ELSE store[n]]
      /\ root' = [root EXCEPT ![t] = Null]
      /\ leftmost' = [leftmost EXCEPT ![t] = Null]
      /\ rightmost' = [rightmost EXCEPT ![t] = Null]
  BY <1>1 DEF Destroyed, Give, SetPointers
<1>6. TypeOK'
  BY <1>1, <1>3, <1>4, <1>5 DEF TypeOK, Nodes
<1>7. Nodes(t)' = {} /\ \A v \in Tree \ {t} : Nodes(v)' = Nodes(v)
  BY <1>2, <1>3, <1>5, TreeAssumption DEF Nodes
<1>8. \A n \in Node : store'[n] = Null => heap'[n] = FreshNode
  BY <1>2, <1>3, <1>4, <1>5 DEF FreeAreFresh, FreeNodes, Nodes
<1>9. \A v \in Tree \ live' : root'[v] = Null
  BY <1>1, <1>3, <1>5, <1>2 DEF DeadAreEmpty
<1>10. \A v \in Tree \ {t} :
             /\ root'[v] = root[v] /\ leftmost'[v] = leftmost[v] /\ rightmost'[v] = rightmost[v]
             /\ Nodes(v)' = Nodes(v) /\ ~Unfinished(v)
             /\ \A n \in Nodes(v) : heap'[n] = heap[n]
  BY <1>0, <1>2, <1>3, <1>4, <1>5, <1>7 DEF Nodes, Unfinished
<1>11. Shaped(heap', Nodes(t)', root'[t]) /\ EndsIn(Nodes(t)', root'[t], leftmost'[t], rightmost'[t])
  BY <1>2, <1>3, <1>5, <1>7 DEF Shaped, EndsIn
<1> DEFINE T == {t}
<1>12. T \in SUBSET Tree
  BY <1>2
<1>13. \A v \in T :
         /\ Shaped(heap', Nodes(v)', root'[v])
         /\ Unfinished(v)' \/ EndsIn(Nodes(v)', root'[v], leftmost'[v], rightmost'[v])
  BY <1>11
<1>14. \A v \in Tree \ T :
             /\ root'[v] = root[v] /\ leftmost'[v] = leftmost[v] /\ rightmost'[v] = rightmost[v]
             /\ Nodes(v)' = Nodes(v) /\ ~Unfinished(v)
             /\ \A n \in Nodes(v) : heap'[n] = heap[n]
  BY <1>10
<1>15. Sound'
  <2> HIDE DEF T
  <2> QED BY <1>2, <1>6, <1>8, <1>9, <1>12, <1>13, <1>14, StepKeepsSound
<1>16. value' \in [Node -> Word]
  BY <1>1, <1>2, HeldIs
<1>17. ASSUME NEW u \in live \ {t} PROVE Contents(u)' = job.before[u]
  <2>1. u \in Tree /\ u # t /\ Contents(u) = job.before[u] /\ root'[u] = root[u]
    BY <1>0, <1>2, <1>3, <1>5 DEF Building
  <2>2. \A m \in Nodes(u) : heap'[m] = heap[m] /\ value'[m] = value[m]
    <3> SUFFICES ASSUME NEW m \in Nodes(u) PROVE heap'[m] = heap[m] /\ value'[m] = value[m]
      OBVIOUS
    <3>1. m \in Node /\ heap'[m] = heap[m] /\ store'[m] # Null
      BY <1>3, <1>5, <1>10, <2>1, TreeAssumption DEF Nodes
    <3> QED BY <1>1, <1>2, <3>1, HeldIs
  <2> QED BY <1>2, <1>4, <1>6, <2>1, <2>2, ContentsStay DEF TypeOK
<1>18. Snapshot' = job.before
  <2>1. job.before \in [live \ {t} -> Seq(Item)]
    BY <1>0, <1>2 DEF Building, Jobs
  <2>2. Snapshot' = [u \in live \ {t} |-> Contents(u)']
    BY <1>1 DEF Snapshot
  <2> QED BY <1>17, <2>1, <2>2
<1> QED BY <1>1, <1>15, <1>16, <1>18 DEF CInv

(* When nothing is left to make, the tree under construction is as wanted. *)
LEMMA BuiltIs ==
    ASSUME NEW l \in Seq(Entries), NEW v \in [Node -> Word], NEW w \in Seq(Item), NEW path,
           IsBuilt(l, v, w, <<>>, path)
    PROVE  Valued(v, l) = w
<1>1. /\ Len(w) = Len(l) + Len(<<>>)
      /\ \A i \in 1..Len(l) : w[i] = [value |-> v[l[i].node], depth |-> l[i].depth]
  BY DEF IsBuilt
<1>2. Len(l) \in Nat /\ Len(<<>>) = 0
  BY LenProperties
<1>3. Len(w) = Len(l)
  BY <1>1, <1>2
<1>4. w \in [1..Len(l) -> Item]
  BY <1>3, LenProperties
<1>5. /\ Valued(v, l) \in [1..Len(l) -> Item]
      /\ \A i \in 1..Len(l) : Valued(v, l)[i] = [value |-> v[l[i].node], depth |-> l[i].depth]
  <2>1. Valued(v, l) \in Seq(Item) /\ Len(Valued(v, l)) = Len(l)
    BY ValuedIs
  <2>2. Valued(v, l) \in [1..Len(l) -> Item]
    BY <2>1, LenProperties
  <2> QED BY <2>2, ValuedIs
<1> QED BY <1>1, <1>4, <1>5

LEMMA WantedIs ==
    ASSUME CInv, job # NoJob, job.todo = <<>>
    PROVE  Contents(job.temp) = job.wanted
<1>1. /\ Sound /\ value \in [Node -> Word] /\ job.temp \in Tree /\ job.wanted \in Seq(Item)
      /\ ListOf(heap, root[job.temp]) \in Seq(Entries)
      /\ IsBuilt(ListOf(heap, root[job.temp]), value, job.wanted, <<>>, job.path)
  BY JobIs
<1>2. heap \in Heap /\ root \in [Tree -> Node \union {Null}]
  BY <1>1, SoundIs
<1>3. Valued(value, ListOf(heap, root[job.temp])) = job.wanted
  BY <1>1, BuiltIs
<1> QED BY <1>1, <1>2, <1>3, ContentsAre

(* The nodes that stay in a tree keep their values.                        *)
LEMMA HeldStay ==
    ASSUME value \in [Node -> Word], value' = Held(value), NEW S \in SUBSET Node,
           \A n \in S : store'[n] # Null
    PROVE  \A n \in S : value'[n] = value[n]
BY HeldIs

LEMMA TakenContents ==
    ASSUME Sound, TypeOK', value \in [Node -> Word], value' = Held(value),
           NEW t \in Tree, NEW u \in Tree, t # u, Steal(t, u)
    PROVE  /\ Contents(t)' = Contents(u)
           /\ \A v \in Tree \ {t, u} : Contents(v)' = Contents(v)
<1>1. /\ heap \in Heap /\ t # Null /\ u # Null /\ heap' \in Heap
      /\ root \in [Tree -> Node \union {Null}] /\ root' \in [Tree -> Node \union {Null}]
      /\ store \in [Node -> live \union {Null}]
  BY SoundIs DEF Sound, TypeOK
<1>2. \A n \in Node \ Nodes(t) : heap'[n] = heap[n]
  BY <1>1, FreeIs DEF Steal
<1>3. /\ store' = [n \in Node |-> IF store[n] = t THEN Null
                                  ELSE IF store[n] = u THEN t ELSE store[n]]
      /\ root' = [root EXCEPT ![t] = root[u], ![u] = Null]
  BY DEF Steal
<1>4. ASSUME NEW v \in Tree, v # t
      PROVE  \A n \in Nodes(v) : heap'[n] = heap[n] /\ value'[n] = value[n]
  <2> DEFINE S == Nodes(v)
  <2>1. v # Null
    BY TreeAssumption
  <2>2. S \subseteq Node /\ \A n \in S : n \in Node \ Nodes(t) /\ store'[n] # Null
    BY <1>1, <1>3, <1>4, <2>1 DEF Nodes
  <2>3. \A n \in S : value'[n] = value[n]
    <3> HIDE DEF S
    <3> QED BY <2>2, HeldStay
  <2> QED BY <1>2, <2>2, <2>3
<1>5. Contents(t)' = Contents(u)
  <2>1. root'[t] = root[u]
    BY <1>1, <1>3
  <2>2. \A n \in Nodes(u) : heap'[n] = heap[n] /\ value'[n] = value[n]
    BY <1>4
  <2> QED BY <1>1, <2>1, <2>2, ContentsGo
<1>6. ASSUME NEW v \in Tree \ {t, u} PROVE Contents(v)' = Contents(v)
  <2>1. root'[v] = root[v]
    BY <1>1, <1>3
  <2> QED BY <1>1, <1>4, <2>1, ContentsStay
<1> QED BY <1>5, <1>6

LEMMA FinishKeeps ==
    ASSUME CInv, Finish, NEW t \in Tree, t = IF job.into = Null THEN job.temp ELSE job.into
    PROVE  /\ CInv' /\ IInv /\ IInv'
           /\ \A v \in live' : Contents(v)' = IF v = t THEN job.wanted ELSE job.before[v]
           /\ live' = DOMAIN job.before \union {t}
<1>0. PICK u \in Tree : u = job.temp
  BY JobIs DEF Finish
<1>1. job # NoJob /\ job' = NoJob /\ job.todo = <<>> /\ value' = Held(value)
  BY DEF Finish
<1>2. /\ Building /\ Sound /\ value \in [Node -> Word] /\ u \in live /\ u # Null
      /\ TypeOK /\ Contents(u) = job.wanted
      /\ job.into \in (live \ {u}) \union {Null} /\ live \subseteq Tree
      /\ \A v \in live \ {u} : Contents(v) = job.before[v]
  BY <1>0, <1>1, JobIs, WantedIs DEF Sound, Building, TypeOK
<1>3. IInv
  BY <1>1, <1>2, NothingUnfinished, SoundIsIInv
<1>4. DOMAIN job.before = live \ {u}
  BY <1>0, <1>2 DEF Building, Jobs
<1>5. value' \in [Node -> Word]
  BY <1>1, <1>2, HeldIs
<1>6. CASE job.into = Null
  <2>1. UNCHANGED vars /\ t = u
    BY <1>0, <1>6 DEF Finish
  <2>2. heap' = heap /\ store' = store /\ live' = live /\ root' = root
    BY <2>1 DEF vars
  <2>3. IInv'
    BY <1>3, <2>1 DEF vars, IInv, TypeOK, FreeAreFresh, FreeNodes, DeadAreEmpty, Owns, Nodes
  <2>4. ASSUME NEW v \in live PROVE Contents(v)' = Contents(v)
    <3>1. v \in Tree /\ v # Null
      BY <1>2, TreeAssumption
    <3> DEFINE S == Nodes(v)
    <3>2. S \subseteq Node /\ \A n \in S : store'[n] # Null
      BY <2>2, <3>1 DEF Nodes
    <3>3. \A n \in S : value'[n] = value[n]
      <4> HIDE DEF S
      <4> QED BY <1>1, <1>2, <3>2, HeldStay
    <3>4. heap' \in Heap /\ root' \in [Tree -> Node \union {Null}]
      BY <2>3 DEF IInv, TypeOK
    <3> QED BY <1>2, <2>2, <3>1, <3>3, <3>4, ContentsStay
  <2>5. \A v \in live' : Contents(v)' = IF v = t THEN job.wanted ELSE job.before[v]
    BY <1>2, <2>1, <2>2, <2>4
  <2>6. live' = DOMAIN job.before \union {t}
    BY <1>2, <1>4, <2>1, <2>2
  <2> QED BY <1>1, <1>3, <1>5, <2>3, <2>5, <2>6, IInvIsSoundNext DEF CInv
<1>7. CASE job.into # Null
  <2>1. /\ t = job.into /\ t \in live /\ t # u
        /\ Steal(t, u) /\ live' = live \ {u}
    BY <1>0, <1>2, <1>7 DEF Finish
  <2>2. IInv'
    BY <1>2, <1>3, <2>1, StealKeeps
  <2>3. /\ Contents(t)' = Contents(u)
        /\ \A v \in Tree \ {t, u} : Contents(v)' = Contents(v)
    BY <1>1, <1>2, <2>1, <2>2, TakenContents DEF IInv
  <2>4. \A v \in live' : Contents(v)' = IF v = t THEN job.wanted ELSE job.before[v]
    BY <1>2, <2>1, <2>3
  <2>5. live' = DOMAIN job.before \union {t}
    BY <1>4, <2>1
  <2> QED BY <1>1, <1>3, <1>5, <2>2, <2>4, <2>5, IInvIsSoundNext DEF CInv
<1> QED BY <1>6, <1>7

-----------------------------------------------------------------------------
(* The steps between jobs.                                                 *)
LEMMA IdleKeeps ==
    ASSUME CInv, "move" \notin Wild, job = NoJob, job' = NoJob, [Next]_vars,
           value' \in [Node -> Word]
    PROVE  CInv' /\ IInv /\ IInv'
<1>1. Sound
  BY DEF CInv
<1>2. IInv
  BY <1>1, NothingUnfinished, SoundIsIInv
<1>3. IInv'
  BY <1>2, NextKeeps
<1> QED BY <1>2, <1>3, IInvIsSoundNext DEF CInv

LEMMA MergedType ==
    ASSUME NEW strategy \in Strategy, NEW a \in Word, NEW b \in Word,
           strategy = "divide" => b # 0
    PROVE  Merged(strategy, a, b) \in Word
<1>1. /\ Modulus \in Nat \ {0} /\ a \in Nat /\ b \in Nat /\ a < Modulus
      /\ a \in Int /\ b \in Int
  BY ContentsAssumption DEF Word
<1>2. \A x \in Int : x % Modulus \in Word
  BY <1>1 DEF Word
<1>3. strategy \in {"keep", "replace"} => Merged(strategy, a, b) \in Word
  BY DEF Merged
<1>4. strategy \in {"add", "subtract", "multiply"} => Merged(strategy, a, b) \in Word
  <2>1. a + b \in Int /\ a + Modulus - b \in Int
    BY <1>1
  <2>2. a * b \in Int
    BY <1>1
  <2> QED BY <1>2, <2>1, <2>2 DEF Merged
<1>5. strategy = "divide" => Merged(strategy, a, b) \in Word
  <2> SUFFICES ASSUME strategy = "divide" PROVE Merged(strategy, a, b) \in Word
    OBVIOUS
  <2>1. b # 0 /\ b \in Nat \ {0}
    BY <1>1
  <2>2. a \div b \in 0..a
    BY <1>1, <2>1
  <2> QED BY <1>1, <2>2 DEF Merged, Word
<1> QED BY <1>3, <1>4, <1>5 DEF Strategy

LEMMA IdleIs ==
    ASSUME CInv,
           \/ EmplaceThrows \/ Rearrange
           \/ \E t \in Tree, n \in Node :
                \/ \E v \in Seed, where \in Node \union {Null} : EmplaceValue(t, where, n, v)
                \/ \E strategy \in Strategy : MergeValue(t, n, strategy)
    PROVE  job = NoJob /\ job' = NoJob /\ [Next]_vars /\ value' \in [Node -> Word]
<1>1. value \in [Node -> Word] /\ Sound
  BY DEF CInv
<1>2. CASE EmplaceThrows
  BY <1>1, <1>2 DEF EmplaceThrows
<1>3. CASE Rearrange
  <2>1. job = NoJob /\ job' = NoJob /\ value' = Held(value)
    BY <1>3 DEF Rearrange
  <2>2. Next
    BY <1>3 DEF Rearrange, Next, OrderKept
  <2> QED BY <1>1, <2>1, <2>2, HeldIs
<1>4. ASSUME NEW t \in Tree, NEW n \in Node, NEW v \in Seed, NEW where \in Node \union {Null},
             EmplaceValue(t, where, n, v)
      PROVE  job = NoJob /\ job' = NoJob /\ [Next]_vars /\ value' \in [Node -> Word]
  <2>1. /\ job = NoJob /\ job' = NoJob /\ value' = [value EXCEPT ![n] = v]
        /\ IF where = Null THEN EmplaceRoot(t, n) ELSE Emplace(t, where, n)
    BY <1>4 DEF EmplaceValue
  <2>2. Next
    BY <2>1 DEF Next, OrderKept
  <2>3. v \in Word
    BY ContentsAssumption
  <2> QED BY <1>1, <2>1, <2>2, <2>3
<1>5. ASSUME NEW t \in Tree, NEW n \in Node, NEW strategy \in Strategy, MergeValue(t, n, strategy)
      PROVE  job = NoJob /\ job' = NoJob /\ [Next]_vars /\ value' \in [Node -> Word]
  <2> DEFINE p == heap[n].parent
             w == [value EXCEPT ![p] = Merged(strategy, @, value[n])]
  <2>1. /\ job = NoJob /\ job' = NoJob /\ value' = Held(w) /\ Merge(t, n)
        /\ strategy = "divide" => value[n] # 0
    BY <1>5 DEF MergeValue
  <2>2. p \in Node
    BY <1>1, <2>1, HeapFields DEF Merge, Sound, TypeOK
  <2>3. Merged(strategy, value[p], value[n]) \in Word
    BY <1>1, <2>1, <2>2, MergedType
  <2>4. w \in [Node -> Word]
    BY <1>1, <2>2, <2>3
  <2>5. Next
    BY <2>1 DEF Next, OrderKept
  <2> HIDE DEF w
  <2> QED BY <2>1, <2>4, <2>5, HeldIs
<1> QED BY <1>2, <1>3, <1>4, <1>5

LEMMA ContentsNextKeeps == ASSUME CInv, "move" \notin Wild, [ContentsNext]_cvars PROVE CInv'
<1>1. CASE \E into \in Tree \union {Null} :
             \/ \E n \in Node : BeginCopy(n, into)
             \/ \E u \in Tree : BeginCopyOfEmpty(u, into)
             \/ \E init \in Initializer : BeginFill(init, into)
  BY <1>1, BeginsKeep
<1>2. CASE MakeNext
  BY <1>2, MakeNextKeeps
<1>3. CASE MakeThrows
  BY <1>3, ThrowKeeps
<1>4. CASE Finish
  <2>1. job.temp \in Tree /\ job.into \in Tree \union {Null}
    BY <1>4, JobIs DEF Finish
  <2> QED BY <1>4, <2>1, FinishKeeps
<1>5. CASE \/ EmplaceThrows \/ Rearrange
           \/ \E t \in Tree, n \in Node :
                \/ \E v \in Seed, where \in Node \union {Null} : EmplaceValue(t, where, n, v)
                \/ \E strategy \in Strategy : MergeValue(t, n, strategy)
  <2>1. job = NoJob /\ job' = NoJob /\ [Next]_vars /\ value' \in [Node -> Word]
    BY <1>5, IdleIs
  <2> QED BY <2>1, IdleKeeps
<1>6. CASE UNCHANGED cvars
  BY <1>6 DEF cvars, vars, CInv, Sound, TypeOK, FreeAreFresh, FreeNodes, DeadAreEmpty, Unfinished,
              Nodes, Building, Jobs, Contents
<1> QED BY <1>1, <1>2, <1>3, <1>4, <1>5, <1>6 DEF ContentsNext

LEMMA ContentsInitKeeps == ContentsInit => CInv
<1> SUFFICES ASSUME ContentsInit PROVE CInv
  OBVIOUS
<1>1. IInv /\ job = NoJob /\ value = [n \in Node |-> 0]
  BY InitIInv DEF ContentsInit
<1>2. value \in [Node -> Word]
  BY <1>1, ContentsAssumption DEF Word
<1> QED BY <1>1, <1>2, IInvIsSound DEF CInv

-----------------------------------------------------------------------------
(* What ends a job.                                                        *)
LEMMA MakeGoesOn == ASSUME CInv, MakeNext PROVE job' # NoJob
<1>1. job # NoJob /\ \E v, w : job' = [job EXCEPT !.todo = v, !.path = w]
  BY DEF MakeNext
<1>2. job.temp \in Tree /\ job \in Jobs
  BY <1>1, JobIs DEF Building
<1>3. job'.temp = job.temp
  BY <1>1, <1>2 DEF Jobs
<1>4. job'.temp # NoJob.temp
  BY <1>2, <1>3, TreeAssumption DEF NoJob
<1> QED BY <1>4

LEMMA JobEnds ==
    ASSUME CInv, [ContentsNext]_cvars, job # NoJob, job' = NoJob
    PROVE  (MakeThrows /\ job.todo # <<>>) \/ (Finish /\ job.todo = <<>>)
<1>1. ~MakeNext /\ ~UNCHANGED cvars
  BY MakeGoesOn DEF cvars
<1>2. ~Rearrange /\ ~EmplaceThrows
  BY DEF Rearrange, EmplaceThrows
<1>3. /\ \A t, n, where, v : ~EmplaceValue(t, where, n, v)
      /\ \A t, n, s : ~MergeValue(t, n, s)
  BY DEF EmplaceValue, MergeValue
<1>4. \A list, copying, into : ~Begin(list, copying, into)
  BY DEF Begin
<1>5. MakeThrows \/ Finish
  BY <1>1, <1>2, <1>3, <1>4 DEF ContentsNext, BeginCopy, BeginCopyOfEmpty, BeginFill
<1>6. (MakeThrows => job.todo # <<>>) /\ (Finish => job.todo = <<>>)
  BY DEF MakeThrows, Finish
<1> QED BY <1>5, <1>6

(* An exception from a value's constructor, halfway through an assignment  *)
(* or a construction, leaves every tree object with the contents it had:   *)
(* the nodes made for the temporary go with it, and no other is touched.   *)
THEOREM FailuresChangeNothing ==
    ASSUME "move" \notin Wild PROVE ContentsSpec => FailureChangesNothing
<1>1. CInv /\ [ContentsNext]_cvars => CInv'
  BY ContentsNextKeeps
<1>2. CInv /\ [ContentsNext]_cvars
        => [job # NoJob /\ job' = NoJob /\ job.todo # <<>> => Snapshot' = job.before]_cvars
  BY JobEnds, ThrowKeeps
<1> QED BY <1>1, <1>2, ContentsInitKeeps, PTL DEF ContentsSpec, FailureChangesNothing

-----------------------------------------------------------------------------
(* The extrema while trees are built.                                      *)
XInv == \A t \in Tree : ~Unfinished(t) => AtEnds(heap, root[t], leftmost[t], rightmost[t])

LEMMA EndsFrame ==
    ASSUME NEW h \in Heap, NEW g \in Heap, NEW X, NEW r, Shaped(h, X, r),
           NEW lm, NEW rm, AtEnds(h, r, lm, rm), \A n \in X : g[n] = h[n]
    PROVE  AtEnds(g, r, lm, rm)
<1> SUFFICES ASSUME r # Null PROVE AtEnds(g, r, lm, rm)
  BY DEF AtEnds
<1>1. IsTree(h, X, r) /\ lm = End(h, "left", r) /\ rm = End(h, "right", r)
  BY AtEndsIs DEF Shaped
<1>2. X \subseteq Node /\ r \in X
  BY <1>1 DEF IsTree
<1>3. \A m \in X : Children(h, m) \subseteq X /\ g[m].children = h[m].children
  BY <1>1, TreeClosed
<1>4. \A side \in Sides : End(g, side, r) = End(h, side, r)
  BY <1>2, <1>3, EndFrameBelow
<1>5. lm = End(g, "left", r) /\ rm = End(g, "right", r)
  BY <1>1, <1>4 DEF Sides
<1> QED BY <1>5, AtEndsIs

LEMMA XInvIs ==
    ASSUME IInv, XInv, \A t \in Tree : ~Unfinished(t) PROVE ExtremaAreExtreme
<1>1. live \subseteq Tree
  BY DEF IInv, TypeOK
<1> QED BY <1>1 DEF XInv, AtEnds, ExtremaAreExtreme, LeftmostIsLeftmost, RightmostIsRightmost

LEMMA IsXInvNext == ASSUME IInv', ExtremaAreExtreme' PROVE XInv'
<1> SUFFICES ASSUME NEW t \in Tree
             PROVE  AtEnds(heap', root'[t], leftmost'[t], rightmost'[t])
  BY DEF XInv
<1>1. t \notin live' => root'[t] = Null
  BY DEF IInv, DeadAreEmpty
<1> QED BY <1>1 DEF AtEnds, ExtremaAreExtreme, LeftmostIsLeftmost, RightmostIsRightmost

(* A step that changes one tree object only.                               *)
LEMMA StepKeepsXInv ==
    ASSUME Sound, XInv, heap' \in Heap, NEW t \in Tree,
           Unfinished(t)' \/ AtEnds(heap', root'[t], leftmost'[t], rightmost'[t]),
           \A u \in Tree \ {t} :
             /\ root'[u] = root[u] /\ leftmost'[u] = leftmost[u] /\ rightmost'[u] = rightmost[u]
             /\ ~Unfinished(u) /\ \A n \in Nodes(u) : heap'[n] = heap[n]
    PROVE  XInv'
<1>1. ASSUME NEW u \in Tree \ {t} PROVE AtEnds(heap', root'[u], leftmost'[u], rightmost'[u])
  <2> DEFINE X == Nodes(u)
  <2>1. AtEnds(heap, root[u], leftmost[u], rightmost[u])
    BY DEF XInv
  <2>2. heap \in Heap /\ Shaped(heap, X, root[u])
    BY SoundIs
  <2>3. \A n \in X : heap'[n] = heap[n]
    OBVIOUS
  <2> HIDE DEF X
  <2>4. AtEnds(heap', root[u], leftmost[u], rightmost[u])
    BY <2>1, <2>2, <2>3, EndsFrame
  <2> QED BY <2>4
<1> QED BY <1>1 DEF XInv

LEMMA CopyKeepsXInv ==
    ASSUME CInv, CInv', XInv, job.copying, MakeNext
    PROVE  XInv'
<1>0. job # NoJob /\ job.todo # <<>> /\ \E v : job' = [job EXCEPT !.todo = Tail(@), !.path = v]
  BY DEF MakeNext
<1>1. PICK n \in Node, where \in Node \union {Null} : Making(n, where)
  BY MakeIs
<1>2. PICK t \in Tree : t = job.temp
  BY <1>0, JobIs
<1>3. /\ Sound /\ TypeOK /\ t # Null /\ job \in Jobs
      /\ leftmost \in [Tree -> Node \union {Null}] /\ rightmost \in [Tree -> Node \union {Null}]
  BY <1>0, <1>2, JobIs DEF Sound, TypeOK, Building
<1>4. IsExtended(t, n, Head(job.todo).depth)
  BY <1>1, <1>2, <1>3, ExtensionIs DEF Making
<1>5. PICK lm \in Node \union {Null}, rm \in Node \union {Null} :
        /\ leftmost' = [leftmost EXCEPT ![t] = lm]
        /\ rightmost' = [rightmost EXCEPT ![t] = rm]
        /\ Tail(job.todo) = <<>> => lm = LeftmostChildOrThis(heap', root'[t])
                                    /\ rm = RightmostChildOrThis(heap', root'[t])
  <2>1. IsExtended(job.temp, n, Head(job.todo).depth)
    BY <1>0, <1>1, <1>3, ExtensionIs, JobIs DEF Making
  <2> QED BY <1>0, <1>1, <1>2, <2>1, CopyNodeIs
<1>6. /\ heap' \in Heap /\ \A m \in Node \ (Nodes(t) \union {n}) : heap'[m] = heap[m]
      /\ \A u \in Tree \ {t} : root'[u] = root[u]
  BY <1>4 DEF IsExtended
<1>7. job'.temp = t /\ job'.copying /\ job'.todo = Tail(job.todo) /\ job' # NoJob
  BY <1>0, <1>2, <1>3, MakeGoesOn DEF Jobs
<1>8. Unfinished(t)' \/ AtEnds(heap', root'[t], leftmost'[t], rightmost'[t])
  BY <1>3, <1>5, <1>7 DEF Unfinished, AtEnds
<1>9. n \in FreeNodes
  BY <1>1 DEF Making, Extends
<1>10. ASSUME NEW u \in Tree \ {t}
       PROVE  /\ root'[u] = root[u] /\ leftmost'[u] = leftmost[u] /\ rightmost'[u] = rightmost[u]
              /\ ~Unfinished(u) /\ \A m \in Nodes(u) : heap'[m] = heap[m]
  <2>1. \A m \in Nodes(u) : m \in Node \ (Nodes(t) \union {n})
    BY <1>9, TreeAssumption DEF Nodes, FreeNodes
  <2> QED BY <1>2, <1>3, <1>5, <1>6, <2>1 DEF Unfinished
<1> QED BY <1>3, <1>6, <1>8, <1>10, StepKeepsXInv

LEMMA FillKeepsXInv ==
    ASSUME CInv, CInv', XInv, ~job.copying, MakeNext
    PROVE  XInv'
<1>0. job # NoJob
  BY DEF MakeNext
<1>1. PICK n \in Node, where \in Node \union {Null} : Making(n, where)
  BY MakeIs
<1>2. Sound /\ job.temp \in Tree
  BY <1>0, JobIs
<1>3. IInv /\ ExtremaAreExtreme
  BY <1>2, NothingUnfinished, SoundIsIInv, XInvIs
<1>4. where = Null => EmplaceRoot(job.temp, n)
  BY <1>1 DEF Making
<1>5. where # Null => Emplace(job.temp, where, n)
  BY <1>1 DEF Making
<1>6. IInv'
  BY <1>2, <1>3, <1>4, <1>5, EmplaceKeeps, EmplaceRootKeeps
<1>7. ExtremaAreExtreme'
  BY <1>2, <1>3, <1>4, <1>5, <1>6, EmplaceKeepsExtrema, EmplaceRootKeepsExtrema
<1> QED BY <1>6, <1>7, IsXInvNext

LEMMA ThrowKeepsXInv ==
    ASSUME CInv, CInv', XInv, MakeThrows
    PROVE  XInv'
<1>1. PICK t \in Tree : t = job.temp
  BY JobIs DEF MakeThrows
<1>2. /\ Destroyed(Nodes(t)) /\ SetPointers(t, Null, Null, Null)
  BY <1>1 DEF MakeThrows, Destroy
<1>3. /\ Sound /\ heap \in Heap /\ heap' \in Heap
      /\ root \in [Tree -> Node \union {Null}]
      /\ leftmost \in [Tree -> Node \union {Null}]
      /\ rightmost \in [Tree -> Node \union {Null}]
  BY DEF CInv, Sound, TypeOK
<1>4. \A n \in Node \ Nodes(t) : heap'[n] = heap[n]
  BY <1>2, <1>3, FreeIs DEF Destroyed
<1>5. AtEnds(heap', root'[t], leftmost'[t], rightmost'[t])
  BY <1>2, <1>3 DEF AtEnds, SetPointers
<1>6. ASSUME NEW u \in Tree \ {t}
      PROVE  /\ root'[u] = root[u] /\ leftmost'[u] = leftmost[u] /\ rightmost'[u] = rightmost[u]
             /\ ~Unfinished(u) /\ \A m \in Nodes(u) : heap'[m] = heap[m]
  BY <1>1, <1>2, <1>3, <1>4 DEF Unfinished, SetPointers, Nodes
<1> QED BY <1>3, <1>5, <1>6, StepKeepsXInv

LEMMA FinishKeepsXInv ==
    ASSUME CInv, XInv, Finish
    PROVE  IInv' /\ XInv'
<1>1. PICK t \in Tree : t = IF job.into = Null THEN job.temp ELSE job.into
  BY JobIs DEF Finish
<1>2. IInv /\ IInv'
  BY <1>1, FinishKeeps
<1>3. ExtremaAreExtreme
  BY <1>2, NothingUnfinished, XInvIs DEF Finish
<1>4. CASE job.into = Null
  <2>1. UNCHANGED heap /\ UNCHANGED pointers
    BY <1>4 DEF Finish, vars, pointers
  <2> QED BY <1>2, <1>3, <2>1, ConstructKeepsExtrema, IsXInvNext
<1>5. CASE job.into # Null
  <2>1. Steal(job.into, job.temp) /\ job.into \in Tree /\ job.temp \in Tree /\ job.into # job.temp
    BY <1>5, JobIs DEF Finish
  <2> QED BY <1>2, <1>3, <2>1, StealKeepsExtrema, IsXInvNext
<1> QED BY <1>4, <1>5

LEMMA BeginKeepsXInv ==
    ASSUME CInv, XInv, NEW list, NEW copying, NEW into, Begin(list, copying, into)
    PROVE  XInv'
<1>1. PICK temp \in Tree : Construct(temp)
  BY DEF Begin
<1>2. IInv /\ ExtremaAreExtreme
  BY NothingUnfinished, SoundIsIInv, XInvIs DEF Begin, CInv
<1>3. IInv' /\ UNCHANGED heap /\ UNCHANGED pointers
  BY <1>1, <1>2, ConstructKeeps DEF Construct
<1> QED BY <1>2, <1>3, ConstructKeepsExtrema, IsXInvNext

LEMMA ContentsNextKeepsXInv ==
    ASSUME CInv, CInv', XInv, Wild = {}, [ContentsNext]_cvars PROVE XInv'
<1>1. CASE \E into \in Tree \union {Null} :
             \/ \E n \in Node : BeginCopy(n, into)
             \/ \E u \in Tree : BeginCopyOfEmpty(u, into)
             \/ \E init \in Initializer : BeginFill(init, into)
  <2>1. \E list, copying, into : Begin(list, copying, into)
    BY <1>1 DEF BeginCopy, BeginCopyOfEmpty, BeginFill
  <2> QED BY <2>1, BeginKeepsXInv
<1>2. CASE MakeNext
  BY <1>2, CopyKeepsXInv, FillKeepsXInv
<1>3. CASE MakeThrows
  BY <1>3, ThrowKeepsXInv
<1>4. CASE Finish
  BY <1>4, FinishKeepsXInv
<1>5. CASE \/ EmplaceThrows \/ Rearrange
           \/ \E t \in Tree, n \in Node :
                \/ \E v \in Seed, where \in Node \union {Null} : EmplaceValue(t, where, n, v)
                \/ \E strategy \in Strategy : MergeValue(t, n, strategy)
  <2>1. job = NoJob /\ job' = NoJob /\ [Next]_vars /\ value' \in [Node -> Word]
    BY <1>5, IdleIs
  <2>2. IInv /\ IInv'
    BY <2>1, IdleKeeps
  <2>3. ExtremaAreExtreme
    BY <2>1, <2>2, NothingUnfinished, XInvIs
  <2>4. ExtremaAreExtreme'
    BY <2>1, <2>2, <2>3, NextKeepsExtrema
  <2> QED BY <2>2, <2>4, IsXInvNext
<1>6. CASE UNCHANGED cvars
  BY <1>6 DEF cvars, vars, XInv, Unfinished
<1> QED BY <1>1, <1>2, <1>3, <1>4, <1>5, <1>6 DEF ContentsNext

LEMMA BuiltRight ==
    ASSUME CInv, XInv, [ContentsNext]_cvars, job # NoJob, job' = NoJob, job.todo = <<>>
    PROVE  LET t == IF job.into = Null THEN job.temp ELSE job.into
           IN  /\ \A u \in live' : Contents(u)' = IF u = t THEN job.wanted ELSE job.before[u]
               /\ live' = DOMAIN job.before \union {t}
               /\ root'[t] # Null =>
                     /\ leftmost'[t] = LeftmostChildOrThis(heap', root'[t])
                     /\ rightmost'[t] = RightmostChildOrThis(heap', root'[t])
<1>1. Finish
  BY JobEnds
<1>2. PICK t \in Tree : t = IF job.into = Null THEN job.temp ELSE job.into
  BY JobIs
<1>3. /\ \A u \in live' : Contents(u)' = IF u = t THEN job.wanted ELSE job.before[u]
      /\ live' = DOMAIN job.before \union {t}
  BY <1>1, <1>2, FinishKeeps
<1>4. XInv' /\ ~Unfinished(t)'
  BY <1>1, FinishKeepsXInv DEF Unfinished
<1>5. AtEnds(heap', root'[t], leftmost'[t], rightmost'[t])
  BY <1>4 DEF XInv
<1> QED BY <1>2, <1>3, <1>5 DEF AtEnds

(* A copy or a fill that comes to its end has built, node by node, what    *)
(* was wanted when it began, also where what is copied is part of the tree *)
(* assigned to; the extrema are right, though a fill updates them with     *)
(* every node and a copy looks for them at the end, and no other tree has  *)
(* changed.                                                                *)
THEOREM TreesAreBuiltAsWanted == ASSUME Wild = {} PROVE ContentsSpec => BuiltAsWanted
<1> DEFINE Right == job # NoJob /\ job' = NoJob /\ job.todo = <<>> =>
          LET t == IF job.into = Null THEN job.temp ELSE job.into
          IN  /\ \A u \in live' : Contents(u)' = IF u = t THEN job.wanted ELSE job.before[u]
              /\ live' = DOMAIN job.before \union {t}
              /\ root'[t] # Null =>
                    /\ leftmost'[t] = LeftmostChildOrThis(heap', root'[t])
                    /\ rightmost'[t] = RightmostChildOrThis(heap', root'[t])
<1>1. CInv /\ [ContentsNext]_cvars => CInv'
  BY ContentsNextKeeps
<1>2. CInv /\ CInv' /\ XInv /\ [ContentsNext]_cvars => XInv'
  BY ContentsNextKeepsXInv
<1>3. ContentsInit => XInv
  BY DEF ContentsInit, Init, XInv, AtEnds
<1>4. CInv /\ XInv /\ [ContentsNext]_cvars => [Right]_cvars
  BY BuiltRight
<1> QED BY <1>1, <1>2, <1>3, <1>4, ContentsInitKeeps, PTL DEF ContentsSpec, BuiltAsWanted

-----------------------------------------------------------------------------
(* Merging values.                                                         *)

(* One entry less: the nodes after it move up by one.                      *)
IsShorter(l, c, i) ==
    /\ Len(l) \in Nat /\ Len(c) = Len(l) - 1 /\ i \in 1..Len(l)
    /\ \A j \in 1..Len(c) : c[j].node = l[IF j < i THEN j ELSE j + 1].node

IsConcat(c, a, b) ==
    /\ c \in Seq(Entries) /\ Len(c) = Len(a) + Len(b) /\ Len(a) \in Nat /\ Len(b) \in Nat
    /\ \A j \in 1..(Len(a) + Len(b)) : c[j] = IF j <= Len(a) THEN a[j] ELSE b[j - Len(a)]

LEMMA ConcatEntries ==
    ASSUME NEW a \in Seq(Entries), NEW b \in Seq(Entries) PROVE IsConcat(a \o b, a, b)
BY ConcatIs DEF IsConcat

LEMMA ShorterIs ==
    ASSUME NEW a \in Seq(Entries), NEW b \in Seq(Entries), NEW e \in Entries,
           NEW k \in Seq(Entries), NEW y \in Seq(Entries), Len(y) = Len(k),
           \A j \in 1..Len(k) : y[j].node = k[j].node
    PROVE  IsShorter((a \o (<<e>> \o k)) \o b, (a \o y) \o b, Len(a) + 1)
<1> DEFINE one == <<e>>
           x == one \o k
           u == a \o x
           l == u \o b
           v == a \o y
           c == v \o b
           i == Len(a) + 1
<1>1. one \in Seq(Entries) /\ Len(one) = 1
  OBVIOUS
<1> HIDE DEF one
<1>2. IsConcat(x, one, k)
  BY <1>1, ConcatEntries
<1>3. IsConcat(u, a, x)
  BY <1>2, ConcatEntries DEF IsConcat
<1>4. IsConcat(v, a, y)
  BY ConcatEntries
<1>5. IsConcat(l, u, b)
  BY <1>3, ConcatEntries DEF IsConcat
<1>6. IsConcat(c, v, b)
  BY <1>4, ConcatEntries DEF IsConcat
<1> HIDE DEF x, u, v, l, c
<1>7. /\ Len(u) = Len(a) + 1 + Len(k) /\ Len(v) = Len(a) + Len(k)
      /\ Len(l) = Len(a) + 1 + Len(k) + Len(b) /\ Len(c) = Len(a) + Len(k) + Len(b)
      /\ Len(a) \in Nat /\ Len(k) \in Nat /\ Len(b) \in Nat /\ Len(x) = 1 + Len(k)
  BY <1>1, <1>2, <1>3, <1>4, <1>5, <1>6 DEF IsConcat
<1>8. ASSUME NEW j \in 1..Len(c) PROVE c[j].node = l[IF j < i THEN j ELSE j + 1].node
  <2>1. CASE j <= Len(a)
    <3>1. j < i /\ j <= Len(u) /\ j <= Len(v) /\ j \in 1..Len(l)
      BY <1>7, <2>1
    <3>2. c[j] = a[j] /\ l[j] = a[j]
      BY <1>3, <1>4, <1>5, <1>6, <1>7, <2>1, <3>1 DEF IsConcat
    <3> QED BY <3>1, <3>2
  <2>2. CASE j > Len(a) /\ j <= Len(v)
    <3>1. /\ ~(j < i) /\ j - Len(a) \in 1..Len(k) /\ ~(j <= Len(a)) /\ ~(j + 1 <= Len(a))
          /\ j + 1 <= Len(u) /\ j + 1 \in 1..Len(l) /\ (j + 1) - Len(a) = (j - Len(a)) + 1
          /\ ~((j - Len(a)) + 1 <= 1) /\ ((j - Len(a)) + 1) - 1 = j - Len(a)
          /\ (j - Len(a)) + 1 \in 1..(1 + Len(k))
      BY <1>7, <2>2
    <3>2. c[j] = y[j - Len(a)]
      <4>1. j \in 1..(Len(v) + Len(b)) /\ j \in 1..(Len(a) + Len(y))
        BY <1>7, <2>2
      <4>2. c[j] = v[j]
        BY <1>6, <2>2, <4>1 DEF IsConcat
      <4> QED BY <1>4, <3>1, <4>1, <4>2 DEF IsConcat
    <3>3. l[j + 1] = x[(j - Len(a)) + 1]
      <4>1. j + 1 \in 1..(Len(u) + Len(b)) /\ j + 1 \in 1..(Len(a) + Len(x))
        BY <1>7, <2>2
      <4>2. l[j + 1] = u[j + 1]
        BY <1>5, <3>1, <4>1 DEF IsConcat
      <4> QED BY <1>3, <3>1, <4>1, <4>2 DEF IsConcat
    <3>4. x[(j - Len(a)) + 1] = k[j - Len(a)]
      BY <1>1, <1>2, <3>1 DEF IsConcat
    <3> QED BY <3>1, <3>2, <3>3, <3>4
  <2>3. CASE j > Len(v)
    <3>1. /\ ~(j < i) /\ ~(j <= Len(v)) /\ ~(j + 1 <= Len(u)) /\ j + 1 \in 1..Len(l)
          /\ (j + 1) - Len(u) = j - Len(v)
      BY <1>7, <2>3
    <3>2. c[j] = b[j - Len(v)] /\ l[j + 1] = b[j - Len(v)]
      BY <1>5, <1>6, <1>7, <3>1 DEF IsConcat
    <3> QED BY <3>1, <3>2
  <2> QED BY <1>7, <2>1, <2>2, <2>3
<1>9. Len(l) \in Nat /\ Len(c) = Len(l) - 1 /\ i \in 1..Len(l)
  BY <1>7
<1>10. IsShorter(l, c, i)
  BY <1>8, <1>9 DEF IsShorter
<1> QED BY <1>10 DEF l, c, u, v, x, one

(* A merge takes one node out of the pre-order list.                       *)
LEMMA MergeShortens ==
    ASSUME NEW h \in Heap, NEW X, NEW r, IsTree(h, X, r), NEW s \in X \ {r},
           NEW g \in Heap, LeavesChildren(h, g, X, s)
    PROVE  \E i : Block(h, 0, r)[i].node = s /\ IsShorter(Block(h, 0, r), Block(g, 0, r), i)
<1> DEFINE l == Block(h, 0, r)
<1>1. PICK i0 \in 2..Len(l) : /\ l[i0].node = s /\ i0 \in DOMAIN l
                              /\ Abstract!Collapsed(l, i0) = Block(g, 0, r)
  BY MergeLists
<1>2. PICK a, b, d : IsContext(h, X, r, s, a, b, d)
  BY ContextExists
<1>3. /\ a \in Seq(Entries) /\ b \in Seq(Entries) /\ d # 0 /\ Fits(h, s, d) /\ Ends(b, d)
      /\ l = (a \o Block(h, d, s)) \o b
  BY <1>2 DEF IsContext
<1>4. /\ Len(a) + 1 \in DOMAIN l /\ l[Len(a) + 1] = Entry(s, d)
      /\ Abstract!Collapsed(l, Len(a) + 1) = (a \o Below(h, d - 1, s)) \o b
  <2>1. IsBlockCut(h, s, d, a, b)
    BY <1>3, BlockCut
  <2> HIDE DEF l
  <2> QED BY <1>3, <2>1 DEF IsBlockCut
<1>5. NoRepeat(l)
  BY ListIs
<1> HIDE DEF l
<1>6. i0 = Len(a) + 1
  BY <1>1, <1>4, <1>5 DEF NoRepeat, Entry
<1> DEFINE c == d - 1
           y == Below(h, c, s)
           k == Below(h, d, s)
<1>7. c \in Nat /\ d = c + 1 /\ d \in Nat /\ s \in Node
  BY <1>3 DEF Fits, IsTree
<1>8. Fits(h, s, c) /\ Fits(h, s, c + 1)
  <2>1. TreeSize(h, s) \in Nat /\ NodeCount \in Nat
    BY SizeIs, NodeCountType
  <2> QED BY <1>3, <1>7, <2>1 DEF Fits
<1>9. k \in Seq(Entries) /\ Block(h, d, s) = <<Entry(s, d)>> \o k
  BY <1>3, BlockIs
<1> HIDE DEF c
<1>10. y \in Seq(Entries)
  BY <1>8, BlockIs
<1>11. k = Imaged(Raise(1), y)
  <2>1. Below(h, c + 1, s) = Imaged(Raise(1), y)
    BY <1>7, <1>8, BlockRaised
  <2> QED BY <1>7, <2>1
<1> HIDE DEF y, k
<1>12. Len(y) = Len(k) /\ \A j \in 1..Len(k) : y[j].node = k[j].node
  <2>1. IsMap(Raise(1), Entries, Entries)
    BY RaiseIs
  <2>2. Len(k) = Len(y) /\ \A j \in 1..Len(y) : k[j] = Raise(1)[y[j]]
    BY <1>10, <1>11, <2>1, ImagedIs
  <2>3. \A e \in Entries : Raise(1)[e].node = e.node
    BY DEF Raise, Entry
  <2>4. \A j \in 1..Len(y) : y[j] \in Entries
    BY <1>10, ElementOfSeq
  <2> QED BY <2>2, <2>3, <2>4
<1>13. Entry(s, d) \in Entries
  BY <1>7 DEF Entry, Entries
<1>14. IsShorter((a \o (<<Entry(s, d)>> \o k)) \o b, (a \o y) \o b, Len(a) + 1)
  BY <1>3, <1>9, <1>10, <1>12, <1>13, ShorterIs
<1>15. IsShorter(l, Block(g, 0, r), i0)
  <2>1. l = (a \o (<<Entry(s, d)>> \o k)) \o b
    BY <1>3, <1>9
  <2>2. Block(g, 0, r) = (a \o y) \o b
    BY <1>1, <1>4, <1>6, SMTT(30) DEF y, c
  <2> QED BY <1>6, <1>14, <2>1, <2>2
<1> QED BY <1>1, <1>15 DEF l

LEMMA MergesRight ==
    ASSUME CInv, "move" \notin Wild, NEW t \in Tree, NEW n \in Node, NEW s \in Strategy,
           MergeValue(t, n, s)
    PROVE  LET l == Preorder(heap, root[t])
               i == CHOOSE k \in DOMAIN l : l[k].node = n
               j == CHOOSE k \in DOMAIN l : l[k].node = heap[n].parent
               values == [k \in DOMAIN l |-> value[l[k].node]]
               c == Contents(t)'
           IN  /\ [k \in DOMAIN c |-> c[k].value] =
                     RemoveAt([values EXCEPT ![j] = Merged(s, values[j], values[i])], i)
               /\ \A u \in live \ {t} : Contents(u)' = Contents(u)
<1> DEFINE X == Nodes(t)
           r == root[t]
           p == heap[n].parent
           w == [value EXCEPT ![p] = Merged(s, @, value[n])]
<1>1. /\ job = NoJob /\ Merge(t, n) /\ value' = Held(w) /\ (s = "divide" => value[n] # 0)
      /\ value \in [Node -> Word] /\ Sound
  BY DEF MergeValue, CInv
<1>2. job' = NoJob /\ [Next]_vars /\ value' \in [Node -> Word]
  BY IdleIs
<1>3. IInv /\ IInv'
  BY <1>1, <1>2, IdleKeeps
<1>4. /\ heap \in Heap /\ heap' \in Heap /\ t # Null /\ t \in live /\ live' = live
      /\ store' = Give({n}, Null) /\ root' = [root EXCEPT ![t] = root[t]]
      /\ r # Null /\ IsTree(heap, X, r) /\ n \in X \ {r} /\ p \in X \ {n}
      /\ LeavesChildren(heap, heap', X, n)
      /\ \A m \in Node \ X : heap'[m] = heap[m]
  BY <1>1, <1>3, MergedIs
<1>5. /\ X \subseteq Node /\ r \in Node /\ p \in Node /\ store \in [Node -> live \union {Null}]
      /\ root \in [Tree -> Node \union {Null}] /\ root' \in [Tree -> Node \union {Null}]
      /\ \A m \in X : store[m] = t
  BY <1>3, <1>4 DEF IsTree, IInv, TypeOK, Nodes
<1>6. w \in [Node -> Word]
  <2>1. Merged(s, value[p], value[n]) \in Word
    BY <1>1, <1>5, MergedType
  <2> QED BY <1>1, <1>5, <2>1
<1>7. \A m \in Node : w[m] = IF m = p THEN Merged(s, value[p], value[n]) ELSE value[m]
  BY <1>1, <1>5
<1>8. \A m \in X \ {n} : value'[m] = w[m]
  <2>1. \A m \in X \ {n} : store'[m] # Null
    BY <1>4, <1>5 DEF Give
  <2> HIDE DEF w
  <2> QED BY <1>1, <1>5, <1>6, <2>1, HeldIs
<1> DEFINE l == Preorder(heap, r)
           q == ListOf(heap', root'[t])
<1>9. /\ l = Block(heap, 0, r) /\ l \in Seq(Entries) /\ NoRepeat(l) /\ NodesOf(l) = X
  <2> HIDE DEF X, r
  <2> QED BY <1>4, ListIs
<1>10. q = Block(heap', 0, r)
  BY <1>4, <1>5 DEF ListOf
<1>11. PICK i : l[i].node = n /\ IsShorter(l, q, i)
  <2>1. \E i : Block(heap, 0, r)[i].node = n /\ IsShorter(Block(heap, 0, r), Block(heap', 0, r), i)
    <3> HIDE DEF X, r
    <3> QED BY <1>4, MergeShortens
  <2> QED BY <1>9, <1>10, <2>1
<1>12. /\ DOMAIN l = 1..Len(l) /\ Len(l) \in Nat /\ \A k \in 1..Len(l) : l[k].node \in X
       /\ i \in 1..Len(l)
  <2> HIDE DEF l, q, X
  <2>1. DOMAIN l = 1..Len(l) /\ Len(l) \in Nat
    BY <1>9, LenProperties
  <2> QED BY <1>9, <1>11, <2>1 DEF NodesOf, IsShorter
<1>13. PICK j \in 1..Len(l) : l[j].node = p
  <2> HIDE DEF l, X, p
  <2> QED BY <1>4, <1>9, <1>12 DEF NodesOf
<1>14. \A k \in 1..Len(l) : (l[k].node = n => k = i) /\ (l[k].node = p => k = j)
  <2> HIDE DEF l, p
  <2> QED BY <1>9, <1>11, <1>12, <1>13 DEF NoRepeat
<1> DEFINE values == [k \in DOMAIN l |-> value[l[k].node]]
           after == [values EXCEPT ![j] = Merged(s, values[j], values[i])]
           c == Contents(t)'
<1>15. /\ after = [k \in 1..Len(l) |-> w[l[k].node]]
       /\ after \in Seq(Word) /\ Len(after) = Len(l)
  <2>1. values[j] = value[p] /\ values[i] = value[n]
    <3> HIDE DEF l, p
    <3> QED BY <1>11, <1>12, <1>13
  <2>2. after = [k \in 1..Len(l) |-> w[l[k].node]]
    <3> HIDE DEF l, p, w
    <3>1. \A k \in 1..Len(l) :
            w[l[k].node] = IF k = j THEN Merged(s, value[p], value[n]) ELSE value[l[k].node]
      BY <1>5, <1>7, <1>12, <1>13, <1>14
    <3> QED BY <1>12, <2>1, <3>1
  <2>3. \A k \in 1..Len(l) : w[l[k].node] \in Word
    <3> HIDE DEF l, w
    <3> QED BY <1>5, <1>6, <1>12
  <2>4. after \in [1..Len(l) -> Word]
    <3> HIDE DEF after, l, w
    <3> QED BY <2>2, <2>3
  <2> HIDE DEF after, l
  <2> QED BY <1>12, <2>2, <2>4
<1>16. c = Valued(value', q)
  BY <1>5, <1>4, ContentsAreNext
<1> HIDE DEF X, p, w, l, q, after, c
<1>17. /\ Len(q) = Len(l) - 1 /\ DOMAIN q = 1..(Len(l) - 1)
       /\ \A k \in 1..(Len(l) - 1) : q[k].node = l[IF k < i THEN k ELSE k + 1].node
  <2>1. Len(q) = Len(l) - 1 /\ \A k \in 1..Len(q) : q[k].node = l[IF k < i THEN k ELSE k + 1].node
    BY <1>11 DEF IsShorter
  <2>2. q \in Seq(Entries)
    <3>1. Shaped(heap', Nodes(t)', root'[t])
      BY <1>3, OwnedIs DEF IInv, Owns
    <3>2. ListOf(heap', root'[t]) \in Seq(Entries)
      BY <1>4, <3>1, ShapedList
    <3> QED BY <3>2 DEF q
  <2>3. DOMAIN q = 1..Len(q)
    BY <2>2, LenProperties
  <2> QED BY <2>1, <2>3
<1>18. ASSUME NEW k \in 1..(Len(l) - 1)
       PROVE  c[k].value = after[IF k < i THEN k ELSE k + 1]
  <2> DEFINE z == IF k < i THEN k ELSE k + 1
  <2>1. z \in 1..Len(l) /\ z # i
    BY <1>12
  <2>2. q[k].node = l[z].node
    BY <1>17
  <2> HIDE DEF z
  <2>3. l[z].node \in X \ {n}
    BY <1>12, <1>14, <2>1
  <2>4. c[k].value = value'[q[k].node]
    BY <1>16, <1>17 DEF Valued
  <2>5. after[z] = w[l[z].node]
    BY <1>15, <2>1
  <2> QED BY <1>8, <2>2, <2>3, <2>4, <2>5 DEF z
<1>19. [k \in DOMAIN c |-> c[k].value] = RemoveAt(after, i)
  <2>1. DOMAIN c = 1..(Len(l) - 1)
    BY <1>16, <1>17 DEF Valued
  <2>2. /\ RemoveAt(after, i) \in Seq(Word) /\ Len(RemoveAt(after, i)) = Len(l) - 1
        /\ \A k \in 1..(Len(l) - 1) : RemoveAt(after, i)[k] = IF k < i THEN after[k] ELSE after[k + 1]
    <3>1. i \in 1..Len(after) /\ after \in Seq(Word) /\ Len(after) = Len(l)
      BY <1>12, <1>15
    <3>2. /\ RemoveAt(after, i) \in Seq(Word) /\ Len(RemoveAt(after, i)) = Len(after) - 1
          /\ \A k \in 1..(Len(after) - 1) :
               RemoveAt(after, i)[k] = IF k < i THEN after[k] ELSE after[k + 1]
      BY <3>1, RemoveAtIs
    <3> QED BY <3>1, <3>2
  <2> DEFINE x == RemoveAt(after, i)
  <2> HIDE DEF x
  <2>3. x = [k \in 1..(Len(l) - 1) |-> x[k]]
    <3>1. x \in Seq(Word) /\ Len(x) = Len(l) - 1
      BY <2>2 DEF x
    <3> QED BY <3>1, LenProperties
  <2>4. \A k \in 1..(Len(l) - 1) : c[k].value = x[k]
    BY <1>18, <2>2 DEF x
  <2>5. [k \in DOMAIN c |-> c[k].value] = x
    BY <2>1, <2>3, <2>4
  <2> QED BY <2>5 DEF x
<1>20. ASSUME NEW u \in live \ {t} PROVE Contents(u)' = Contents(u)
  <2>1. u \in Tree /\ u # Null /\ live \subseteq Tree
    BY <1>3, TreeAssumption DEF IInv, TypeOK
  <2>2. \A m \in Nodes(u) : m \in Node \ X /\ store'[m] # Null /\ m # p
    BY <1>4, <1>5, <2>1 DEF Nodes, Give, X
  <2>3. \A m \in Nodes(u) : heap'[m] = heap[m] /\ value'[m] = value[m]
    <3> SUFFICES ASSUME NEW m \in Nodes(u) PROVE heap'[m] = heap[m] /\ value'[m] = value[m]
      OBVIOUS
    <3>1. m \in Node \ X /\ store'[m] # Null /\ m # p
      BY <2>2
    <3>2. value'[m] = w[m]
      BY <1>1, <1>6, <3>1, HeldIs
    <3> QED BY <1>4, <1>7, <3>1, <3>2
  <2> QED BY <1>1, <1>4, <1>5, <2>1, <2>3, ContentsStay
<1>21. /\ i = CHOOSE k \in DOMAIN l : l[k].node = n
       /\ j = CHOOSE k \in DOMAIN l : l[k].node = p
  BY <1>11, <1>12, <1>13, <1>14
<1> QED BY <1>19, <1>20, <1>21 DEF l, p, after, c

(* A merge takes one node out of a tree's list of values and combines that *)
(* node's value into its parent's, in the order the strategies are called  *)
(* with (unsafe_tree.hpp:787-796); every other value, there and in other   *)
(* trees, stays in its place.                                              *)
THEOREM ValuesMergeIntoParents ==
    ASSUME "move" \notin Wild PROVE ContentsSpec => MergesIntoParent
<1> DEFINE Right == \A t \in live : \A n \in {m \in Nodes(t) : store' = Give({m}, Null)}, s \in Strategy :
          MergeValue(t, n, s) =>
              LET l == Preorder(heap, root[t])
                  i == CHOOSE k \in DOMAIN l : l[k].node = n
                  j == CHOOSE k \in DOMAIN l : l[k].node = heap[n].parent
                  values == [k \in DOMAIN l |-> value[l[k].node]]
                  c == Contents(t)'
              IN  /\ [k \in DOMAIN c |-> c[k].value] =
                        RemoveAt([values EXCEPT ![j] = Merged(s, values[j], values[i])], i)
                  /\ \A u \in live \ {t} : Contents(u)' = Contents(u)
<1>1. CInv /\ [ContentsNext]_cvars => CInv'
  BY ContentsNextKeeps
<1>2. CInv => Right
  <2> SUFFICES ASSUME CInv PROVE Right
    OBVIOUS
  <2>1. live \subseteq Tree
    BY DEF CInv, Sound, TypeOK
  <2>2. \A t \in live : Nodes(t) \subseteq Node
    BY DEF Nodes
  <2> QED BY <2>1, <2>2, MergesRight
<1>3. CInv /\ [ContentsNext]_cvars => [Right]_cvars
  BY <1>2
<1> QED BY <1>1, <1>3, ContentsInitKeeps, PTL DEF ContentsSpec, MergesIntoParent

=============================================================================
