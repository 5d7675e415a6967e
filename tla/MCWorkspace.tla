---------------------------- MODULE MCWorkspace ----------------------------
(* Instances of Workspace for TLC: items and processes as model values. *)
EXTENDS Workspace, TLC

CONSTANTS a, b, daemon, command
=============================================================================
