----------------------------- MODULE MCRecovery -----------------------------
(* Instances of the orchestrator with crashes and restarts. *)
EXTENDS Recovery, MCOrchestrator
=============================================================================
