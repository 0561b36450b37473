----------------------------- MODULE SessionsMC -----------------------------
(***************************************************************************)
(* Sessions for TLC: clients and conversations are interchangeable.        *)
(***************************************************************************)
EXTENDS Sessions, TLC

Symmetry == Permutations(Clients) \cup Permutations(Convs)

=============================================================================
