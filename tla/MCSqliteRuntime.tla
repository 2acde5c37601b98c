-------------------------- MODULE MCSqliteRuntime --------------------------
(* A small instance of SqliteRuntime for TLC. *)
EXTENDS SqliteRuntime
===========================================================================
