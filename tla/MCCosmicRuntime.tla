-------------------------- MODULE MCCosmicRuntime --------------------------
(* One attempt, its recoveries, and a service others may start or end.     *)
EXTENDS CosmicRuntime
=============================================================================
