--------------------------- MODULE MCFlowControl ---------------------------
(* Small instances of FlowControl for TLC. *)
EXTENDS FlowControl

\* The plugin comes up beside a flow that ran, in a daily refresh or not.
Running == {Update(2, "nosync"), Update(2, "refreshingDaily")}

\* The plugin comes up beside a flow in any state.
AnyState == {Update(s, "nosync") : s \in 0 .. 3}
=============================================================================
