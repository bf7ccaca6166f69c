------------------------ MODULE MCFollowPublication ------------------------
(* Two attempts, followed from any stage of their play.  The members are   *)
(* alike, so it is a1 that a seed shows completed.                         *)
EXTENDS FollowPublication

CONSTANTS a1, a2

Start(s) == [a \in Members |-> IF a = a1 THEN "completed" ELSE s]
MCSeeds == {Start("pending"), Start("completed"), Start("failed")}
=============================================================================
