------------------------------- MODULE Forest -------------------------------
(***************************************************************************)
(* What the trees of cpptools/container/tree.hpp promise, without nodes    *)
(* that point at each other: a tree is the list of its nodes in pre-order, *)
(* each with its depth, and a subtree is a block of that list.             *)
(***************************************************************************)
EXTENDS Naturals, FiniteSets, SequencesExt

CONSTANTS Node, Tree

VARIABLES exists,  \* the tree objects there are
          list     \* list[t]: the nodes of t in pre-order

fvars == <<exists, list>>

Entry(n, d) == [node |-> n, depth |-> d]
NodesOf(l)  == {l[i].node : i \in DOMAIN l}
Used        == UNION {NodesOf(list[t]) : t \in Tree}

Shift(l, up, down) ==
    [i \in DOMAIN l |-> Entry(l[i].node, l[i].depth + up - down)]

(* Where the subtree of entry i ends.                                      *)
End(l, i) ==
    CHOOSE e \in i..Len(l) :
        /\ \A k \in (i + 1)..e : l[k].depth > l[i].depth
        /\ e < Len(l) => l[e + 1].depth <= l[i].depth

Branch(l, i) == Shift(SubSeq(l, i, End(l, i)), 0, l[i].depth)
Without(l, i) == SubSeq(l, 1, i - 1) \o SubSeq(l, End(l, i) + 1, Len(l))

(* The tree m as the last child of entry i.                                *)
Under(l, i, m) ==
    SubSeq(l, 1, End(l, i)) \o Shift(m, l[i].depth + 1, 0)
        \o SubSeq(l, End(l, i) + 1, Len(l))

(* Entry i's children take its place.                                      *)
Collapsed(l, i) ==
    SubSeq(l, 1, i - 1) \o Shift(SubSeq(l, i + 1, End(l, i)), 0, 1)
        \o SubSeq(l, End(l, i) + 1, Len(l))

At(l, n) == CHOOSE i \in DOMAIN l : l[i].node = n

-----------------------------------------------------------------------------
FInit == exists = {} /\ list = [t \in Tree |-> <<>>]

New(t)    == t \notin exists /\ exists' = exists \union {t} /\ UNCHANGED list
Delete(t) == t \in exists /\ exists' = exists \ {t} /\ list' = [list EXCEPT ![t] = <<>>]
Empty(t)  == t \in exists /\ list' = [list EXCEPT ![t] = <<>>] /\ UNCHANGED exists

Take(t, u) ==
    /\ u \in exists \ {t} /\ exists' = exists \union {t}
    /\ list' = [list EXCEPT ![t] = list[u], ![u] = <<>>]

Exchange(t, u) ==
    /\ t \in exists /\ u \in exists /\ t # u
    /\ list' = [list EXCEPT ![t] = list[u], ![u] = list[t]]
    /\ UNCHANGED exists

(* t becomes a copy of the subtree of entry i of u, in nodes that no other *)
(* tree uses.                                                              *)
Copy(t, u, i) ==
    /\ i \in DOMAIN list[u] /\ exists' = exists \union {t} /\ t # u
    /\ LET b == Branch(list[u], i)
       IN  /\ \A k \in DOMAIN list'[t] : list'[t][k].node \notin Used \ NodesOf(list[t])
           /\ Cardinality(NodesOf(list'[t])) = Len(b)
           /\ [k \in DOMAIN list'[t] |-> list'[t][k].depth] = [k \in DOMAIN b |-> b[k].depth]
    /\ \A v \in Tree \ {t} : list'[v] = list[v]

AddRoot(t, n) ==
    /\ t \in exists /\ n \notin Used
    /\ list' = [list EXCEPT ![t] = <<Entry(n, 0)>> \o Shift(@, 1, 0)]
    /\ UNCHANGED exists

Add(t, i, n) ==
    /\ i \in DOMAIN list[t] /\ n \notin Used
    /\ list' = [list EXCEPT ![t] = Under(@, i, <<Entry(n, 0)>>)]
    /\ UNCHANGED exists

Detach(t, i, u) ==
    /\ i \in DOMAIN list[t] /\ u \in Tree \ exists
    /\ list' = [list EXCEPT ![t] = Without(@, i), ![u] = Branch(list[t], i)]
    /\ exists' = exists \union {u}

Attach(t, i, u) ==
    /\ i \in DOMAIN list[t] /\ u # t /\ list[u] # <<>>
    /\ list' = [list EXCEPT ![t] = Under(@, i, list[u]), ![u] = <<>>]
    /\ UNCHANGED exists

(* Entry i goes, with its subtree, under the node n outside that subtree.  *)
Transfer(t, i, n) ==
    /\ i \in 2..Len(list[t]) /\ n \in NodesOf(Without(list[t], i))
    /\ LET rest == Without(list[t], i)
       IN  list' = [list EXCEPT ![t] = Under(rest, At(rest, n), Branch(@, i))]
    /\ UNCHANGED exists

Drop(t, i) ==
    /\ i \in DOMAIN list[t] /\ list' = [list EXCEPT ![t] = Without(@, i)]
    /\ UNCHANGED exists

Collapse(t, i) ==
    /\ i \in 2..Len(list[t]) /\ list' = [list EXCEPT ![t] = Collapsed(@, i)]
    /\ UNCHANGED exists

FNext ==
    \E t \in Tree :
        \/ New(t) \/ Delete(t) \/ Empty(t)
        \/ \E u \in Tree : Take(t, u) \/ Exchange(t, u)
        \/ \E n \in Node : AddRoot(t, n)
        \/ \E u \in Tree : \E i \in DOMAIN list[u] : Copy(t, u, i)
        \/ \E i \in DOMAIN list[t] :
              \/ \E n \in Node : Add(t, i, n) \/ Transfer(t, i, n)
              \/ \E u \in Tree : Detach(t, i, u) \/ Attach(t, i, u)
              \/ Drop(t, i) \/ Collapse(t, i)

ForestSpec == FInit /\ [][FNext]_fvars

=============================================================================
