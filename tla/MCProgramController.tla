------------------------- MODULE MCProgramController -------------------------
(* Every way of control, with three calls of which two fit the tokens.     *)
EXTENDS ProgramController
=============================================================================
