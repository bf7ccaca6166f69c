---------------------------- MODULE MCBatchQueue ----------------------------
(* Two trials of up to two attempts; the budget lets one attempt start     *)
(* with less than it would reserve, and leaves one trial without any.      *)
EXTENDS BatchQueue

(* What is published decides nothing, and neither does the score.json of   *)
(* an attempt that has ended: states that differ in these alone are one    *)
(* where no property is about them and the worker's child dies with it.    *)
Deciding ==
    <<trial, attempt, video, child, spent, world, owed, faults,
      [r \in Runs |-> IF attempt[r].status \in {"none", "running"} THEN saved[r] ELSE None],
      [worker EXCEPT !.view = "absent"],
      [c \in Commands |-> [command[c] EXCEPT !.view = "absent"]]>>
=============================================================================
