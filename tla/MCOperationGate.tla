--------------------------- MODULE MCOperationGate ---------------------------
(* TLC instance of OperationGate: more operations than the registry holds. *)
EXTENDS OperationGate
=============================================================================
