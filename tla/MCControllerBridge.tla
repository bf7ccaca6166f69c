------------------------- MODULE MCControllerBridge -------------------------
(* Runs whose page holds no input, one to be started over what is left of  *)
(* the other; and one run with its browser (MCControllerBridgeRelay.cfg).  *)
EXTENDS ControllerBridge, TLC

AnyRun == Permutations(Runs)
=============================================================================
