------------------------------- MODULE MCCrew -------------------------------
(* A small crew for TLC: two daemons and an item that depends on another.    *)
EXTENDS Peers, TLC

CONSTANTS base, stacked, alice, bob

MCDependencies == (base :> {}) @@ (stacked :> {base})

MCPriority == (base :> 1) @@ (stacked :> 0)

MCAuthored == (alice :> {stacked}) @@ (bob :> {})
=============================================================================
