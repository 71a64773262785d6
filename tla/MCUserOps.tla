----------------------------- MODULE MCUserOps -----------------------------
(* A small instance of UserOps for TLC: one account, a tab of each page. *)
EXTENDS UserOps

CONSTANTS owner, mint, vote

OneOwner == [p \in {mint, vote} |-> owner]
=============================================================================
