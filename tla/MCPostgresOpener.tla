------------------------- MODULE MCPostgresOpener -------------------------
(* Small instances of PostgresOpener for TLC. *)
EXTENDS PostgresOpener, TLC

Symmetry == Permutations(Callers)
===========================================================================
