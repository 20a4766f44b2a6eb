----------------------------- MODULE MCFlowRecv -----------------------------
(* FlowRecv with two heap cells for each of two sessions.             *)
EXTENDS FlowRecv

CONSTANTS f1, f2, f3, f4, k1, k2

CellKey == [f \in {f1, f2, f3, f4} |-> IF f \in {f1, f2} THEN k1 ELSE k2]
=============================================================================
