--------------------------- MODULE MCOrchestrator ---------------------------
(* Instances of the orchestrator for TLC. *)
EXTENDS Queueing

CONSTANTS a, b, c1, c2

OneItem   == {a}
TwoItems  == {a, b}
OrderOne  == <<a>>
OrderTwo  == <<a, b>>
NoDeps    == [i \in Items |-> {}]
BOnA      == [i \in Items |-> IF i = b THEN {a} ELSE {}]
EqualRank == [i \in Items |-> 1]
=============================================================================
