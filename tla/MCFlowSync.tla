----------------------------- MODULE MCFlowSync -----------------------------
(* Small instances of FlowSync for TLC. *)
EXTENDS FlowSync

CONSTANTS f1, f2, k1, k2, v1, v2

OneColumn   == [f \in Flows |-> 1]
ThreeColumns == [f \in Flows |-> 3]
=============================================================================
