--------------------------- MODULE OwnedObjectsMC ---------------------------
(***************************************************************************)
(* OwnedObjects for TLC: processes are interchangeable, and so are the     *)
(* occurrences, which all leave the one diff or none.                      *)
(***************************************************************************)
EXTENDS OwnedObjects, TLC

Symmetry == Permutations(Procs) \cup Permutations(Workspaces)
=============================================================================
