-------------------------- MODULE MCTreeRefinement --------------------------
(* TreeRefinement on a few nodes and trees, for TLC.                       *)
EXTENDS TreeRefinement, TLC

Symmetry == Permutations(Node) \union Permutations(Tree)

RemovesAnything == {"erase", "chop"}
=============================================================================
