----------------------------- MODULE MCMcpToken -----------------------------
(* Small instances of McpToken for TLC. *)
EXTENDS McpToken
===========================================================================
