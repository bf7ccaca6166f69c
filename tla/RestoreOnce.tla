----------------------------- MODULE RestoreOnce -----------------------------
(***************************************************************************)
(* What docs/FULL_CLIENT_LIFECYCLE.md promises of a restoration: one is    *)
(* open at a time; each service is asked to start at most once for it;     *)
(* the instance it stands for is named once, is nobody else's and is never *)
(* exchanged; and it is complete only when both instances are named.       *)
(***************************************************************************)
EXTENDS Naturals

CONSTANTS Ops, Roles

VARIABLES
    stage,   \* stage[o]: "none", "open", "done"
    asks,    \* asks[o][r]: start commands given for r
    named    \* named[o][r]: the instance of r that o stands for, 0: none yet

Init ==
    /\ stage = [o \in Ops |-> "none"]
    /\ asks = [o \in Ops |-> [r \in Roles |-> 0]]
    /\ named = [o \in Ops |-> [r \in Roles |-> 0]]

Open(o) ==
    /\ stage[o] = "none"
    /\ \A other \in Ops : stage[other] # "open"
    /\ stage' = [stage EXCEPT ![o] = "open"]
    /\ UNCHANGED <<asks, named>>

Ask(o, r) ==
    /\ stage[o] = "open" /\ asks[o][r] = 0
    /\ asks' = [asks EXCEPT ![o][r] = 1]
    /\ UNCHANGED <<stage, named>>

Name(o, r) ==
    /\ stage[o] = "open" /\ named[o][r] = 0
    /\ \E i \in {named'[o][r]} :
           /\ i \in Nat \ {0}
           /\ \A other \in Ops : named[other][r] # i
           /\ named' = [named EXCEPT ![o][r] = i]
    /\ UNCHANGED <<stage, asks>>

Finish(o) ==
    /\ stage[o] = "open"
    /\ \A r \in Roles : named[o][r] # 0
    /\ stage' = [stage EXCEPT ![o] = "done"]
    /\ UNCHANGED <<asks, named>>

Next == \E o \in Ops : \/ Open(o) \/ Finish(o)
                       \/ \E r \in Roles : Ask(o, r) \/ Name(o, r)

Spec == Init /\ [][Next]_<<stage, asks, named>>
=============================================================================
