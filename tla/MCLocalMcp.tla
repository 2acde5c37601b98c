----------------------------- MODULE MCLocalMcp -----------------------------
(* Small instances of LocalMcp for TLC. *)
EXTENDS LocalMcp
===========================================================================
