--------------------------- MODULE MCOperationRun ---------------------------
(* Finite instances of OperationRun.                                       *)
EXTENDS OperationRun, TLC

CONSTANTS w1, w2, a1, a2
=============================================================================
