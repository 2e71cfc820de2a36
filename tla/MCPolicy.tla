-------------------------------- MODULE MCPolicy --------------------------------
(* Policy for TLC. *)
EXTENDS Policy
=============================================================================
