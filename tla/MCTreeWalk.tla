------------------------------ MODULE MCTreeWalk ------------------------------
(* TreeWalk for TLC. *)
EXTENDS TreeWalk, TLC

Symmetry == Permutations(Dirs \ {Root})
===============================================================================
