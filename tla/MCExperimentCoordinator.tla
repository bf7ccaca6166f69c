----------------------- MODULE MCExperimentCoordinator -----------------------
(* TLC instance of ExperimentCoordinator: the first entry needs two units  *)
(* of time, the others one; a trial uses nothing or more than it reserved. *)
EXTENDS ExperimentCoordinator

TwoEach == [e \in 1 .. N |-> 2]
SlowFirst == [e \in 1 .. N |-> IF e = 1 THEN 2 ELSE 1]
UnderOrOver == {0, 3}
=============================================================================
