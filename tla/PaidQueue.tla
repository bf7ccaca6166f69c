----------------------------- MODULE PaidQueue -----------------------------
(***************************************************************************)
(* What the batch queue promises.  One trial is in work at a time.  Work   *)
(* is paid for in advance, never beyond the budget of the batch, and what  *)
(* was not needed is given back once it is known.  A trial that has a      *)
(* score keeps it and is never worked on again, and neither is one that    *)
(* was closed without.                                                     *)
(***************************************************************************)
EXTENDS Naturals, Functions

CONSTANTS Trials, Tries, Budget

VARIABLES
    phase,    \* phase[t]: "unknown", "open", "working", "scored", "closed"
    charge    \* charge[<<t, n>>]: what the n-th try of t costs, reservation included

Init ==
    /\ phase = [t \in Trials |-> "unknown"]
    /\ charge = [try \in Trials \X Tries |-> 0]

Submit ==
    /\ phase = [t \in Trials |-> "unknown"]
    /\ phase' = [t \in Trials |-> "open"]
    /\ UNCHANGED charge

Take(t) ==
    /\ phase[t] = "open"
    /\ \A u \in Trials : phase[u] # "working"
    /\ phase' = [phase EXCEPT ![t] = "working"]
    /\ \E n \in Tries :
           /\ charge[<<t, n>>] = 0 /\ charge'[<<t, n>>] > 0
           /\ charge' = [charge EXCEPT ![<<t, n>>] = charge'[<<t, n>>]]
    /\ SumFunction(charge') <= Budget

Settle(t) ==
    /\ phase[t] = "working"
    /\ \E p \in {"open", "scored", "closed"} : phase' = [phase EXCEPT ![t] = p]
    /\ \E n \in Tries :
           /\ charge'[<<t, n>>] \in 0..charge[<<t, n>>]
           /\ charge' = [charge EXCEPT ![<<t, n>>] = charge'[<<t, n>>]]

(* Cancelled, or found too expensive: any number of trials in one step.    *)
Close ==
    \E gone \in SUBSET {t \in Trials : phase[t] = "open"} :
        /\ phase' = [t \in Trials |-> IF t \in gone THEN "closed" ELSE phase[t]]
        /\ UNCHANGED charge

Next == Submit \/ Close \/ \E t \in Trials : Take(t) \/ Settle(t)

Spec == Init /\ [][Next]_<<phase, charge>>
=============================================================================
