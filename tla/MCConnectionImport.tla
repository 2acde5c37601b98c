------------------------ MODULE MCConnectionImport ------------------------
(* Small instances of ConnectionImport for TLC. *)
EXTENDS ConnectionImport, TLC

Symmetry == Permutations(Importers)

\* What atomicfile.Replace does when a sync of the directory never fails, and
\* what it may do.
CleanOutcomes == {"ok", "unchanged"}
AllOutcomes   == {"ok", "unchanged", "replaced"}
===========================================================================
