--------------------------- MODULE MCFlowCapture ---------------------------
(* Bounded instances of FlowCapture.                                       *)
EXTENDS FlowCapture
=============================================================================
