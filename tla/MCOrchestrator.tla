--------------------------- MODULE MCOrchestrator ---------------------------
(* A small deployment of Orchestrator for TLC. *)
EXTENDS Orchestrator

MCAccepted == [s \in Strategies |-> Tallies]
=============================================================================
