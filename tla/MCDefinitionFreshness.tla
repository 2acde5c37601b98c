----------------------- MODULE MCDefinitionFreshness -----------------------
(* A small instance of DefinitionFreshness for TLC. *)
EXTENDS DefinitionFreshness, TLC

Symmetry == Permutations(Registrars)
===========================================================================
