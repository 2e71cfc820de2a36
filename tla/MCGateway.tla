------------------------------ MODULE MCGateway ------------------------------
(* Gateway for TLC: two processes on one log. *)
EXTENDS Gateway, TLC

Symmetry == Permutations(Gateways) \cup Permutations(Ids)
=============================================================================
