---------------------------- MODULE MCUnsafeTree ----------------------------
(* UnsafeTree on a few nodes and trees, for TLC.                           *)
EXTENDS UnsafeTree, TLC

Symmetry == Permutations(Node) \union Permutations(Tree)

ErasesAnything  == {"erase"}
=============================================================================
