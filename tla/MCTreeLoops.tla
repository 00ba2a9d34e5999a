---------------------------- MODULE MCTreeLoops ----------------------------
(* TreeLoops on a few nodes and trees, for TLC.                            *)
EXTENDS TreeLoops, TLC

Symmetry == Permutations(Node) \union Permutations(Tree)

Nothing == {}
=============================================================================
