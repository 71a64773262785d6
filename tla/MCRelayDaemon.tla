--------------------------- MODULE MCRelayDaemon ---------------------------
(* Small instances of RelayDaemon for TLC. *)
EXTENDS RelayDaemon, TLC

\* As deployed: nothing creates an account at a PDA.
NoPdas == {}

\* Some blocks have an account, some do not.
OddHeights == {h \in BlockHashes : h[1] % 2 = 1}

\* Nothing in the model tells elections apart.
Symmetry == Permutations(Elections)
=============================================================================
