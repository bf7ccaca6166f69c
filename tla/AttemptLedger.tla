--------------------------- MODULE AttemptLedger ---------------------------
(***************************************************************************)
(* What the trial runner promises about attempts.  An identity is used at  *)
(* most once and runs alone.  An attempt that breaks is never run again,   *)
(* it can only be closed, and until then no other one begins.  Its charge  *)
(* is its reservation before anything else, is corrected by what is        *)
(* reported while it runs, and is final from the moment it breaks.         *)
(***************************************************************************)
EXTENDS Naturals

CONSTANTS Attempts, Reservation

VARIABLES
    phase,    \* phase[a]: "unused", "running", "broken", "closed"
    charge    \* charge[a]: what a is charged

Init ==
    /\ phase = [a \in Attempts |-> "unused"]
    /\ charge = [a \in Attempts |-> 0]

Begin(a) ==
    /\ \A b \in Attempts : phase[b] \in {"unused", "closed"}
    /\ phase[a] = "unused"
    /\ phase' = [phase EXCEPT ![a] = "running"]
    /\ UNCHANGED charge

(* The first charge is the reservation.  (n is named after the fact: any   *)
(* natural number will do, and TLC need not enumerate them.)               *)
Charge(a) ==
    \E n \in {charge'[a]} :
        /\ n \in Nat
        /\ charge[a] = 0 => n \in {0, Reservation}
        /\ charge' = [charge EXCEPT ![a] = n]

Run(a) ==
    /\ phase[a] = "running"
    /\ Charge(a)
    /\ UNCHANGED phase

Break(a) ==
    /\ phase[a] = "running"
    /\ phase' = [phase EXCEPT ![a] = "broken"]
    /\ Charge(a)

Close(a) ==
    /\ phase[a] \in {"running", "broken"}
    /\ phase' = [phase EXCEPT ![a] = "closed"]
    /\ UNCHANGED charge

Next == \E a \in Attempts : Begin(a) \/ Run(a) \/ Break(a) \/ Close(a)

Spec == Init /\ [][Next]_<<phase, charge>>
=============================================================================
