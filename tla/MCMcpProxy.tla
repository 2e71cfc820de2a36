------------------------------ MODULE MCMcpProxy ------------------------------
(* McpProxy for TLC. *)
EXTENDS McpProxy, TLC
===============================================================================
