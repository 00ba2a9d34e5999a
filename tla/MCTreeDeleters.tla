--------------------------- MODULE MCTreeDeleters ---------------------------
(* TreeDeleters on a few nodes and trees, for TLC.                         *)
EXTENDS TreeDeleters

Nothing == {}
=============================================================================
