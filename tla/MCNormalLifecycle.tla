-------------------------- MODULE MCNormalLifecycle --------------------------
(* Constants for TLC; commands and operations are interchangeable. *)
EXTENDS NormalLifecycle, TLC

AnyOrder == Permutations(Commands) \cup Permutations(Ops)
=============================================================================
