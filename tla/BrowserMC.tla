----------------------------- MODULE BrowserMC ------------------------------
(***************************************************************************)
(* Browser for TLC: two runs of the program beside each other, and a third *)
(* one that gets the process id of the first.                              *)
(***************************************************************************)
EXTENDS Browser, TLC

CONSTANTS o1, o2, o3

ThreeOwners == {o1, o2, o3}
FirstOwners == {o1, o2}
Pids == o1 :> 1 @@ o2 :> 2 @@ o3 :> 1
Symmetry == Permutations(Sessions)
=============================================================================
