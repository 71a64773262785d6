--------------------------- MODULE MCElections ---------------------------
(* A page of each kind, and two pages that update the same election. *)
EXTENDS Elections, TLC

Symmetry == Permutations(Editors)
=============================================================================
