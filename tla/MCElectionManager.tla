------------------------- MODULE MCElectionManager -------------------------
(* A small deployment of ElectionManager for TLC: every strategy has a proof *)
(* of every pair but one.                                                    *)
EXTENDS ElectionManager

CONSTANT Unprovable

MCAccepted == [s \in Strategies |-> Tallies \ {Unprovable}]
=============================================================================
