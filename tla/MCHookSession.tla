----------------------------- MODULE MCHookSession -----------------------------
(* HookSession for TLC. *)
EXTENDS HookSession, TLC

Symmetry == Permutations(Calls)
===============================================================================
