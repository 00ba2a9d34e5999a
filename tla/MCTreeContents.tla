--------------------------- MODULE MCTreeContents ---------------------------
(* TreeContents on a few nodes, trees and values, for TLC.                 *)
EXTENDS TreeContents, TLC

Symmetry == Permutations(Node) \union Permutations(Tree)

Nothing == {}

(* A chain and a fork.                                                     *)
Entry(v, d) == [value |-> v, depth |-> d]
Initializers == {<<Entry(1, 0), Entry(0, 1), Entry(1, 2)>>,
                 <<Entry(0, 0), Entry(1, 1), Entry(0, 1)>>}

Seeds == {0, 1}

(* Between jobs, trees with more nodes than that are not looked at further:*)
(* the others are for what a job makes, the whole of a tree of three.      *)
SmallAtRest == job # NoJob \/ Cardinality(Node \ FreeNodes) <= 4
=============================================================================
