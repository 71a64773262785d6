--------------------------- MODULE MCProofService ---------------------------
(* One user with a voting page and an eligibility page. *)
EXTENDS ProofService, TLC

CONSTANT user

MCUserOf == [c \in Clients |-> user]

Symmetry == Permutations(Workers)
=============================================================================
