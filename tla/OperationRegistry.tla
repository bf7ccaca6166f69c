-------------------------- MODULE OperationRegistry --------------------------
(***************************************************************************)
(* What the operations gate promises its callers (the docstring of         *)
(* full_client_operation_gate.py and docs/FULL_CLIENT_OPERATIONS.md): every *)
(* operation ID is claimed at most once, one claim is pending at a time,   *)
(* a claim leaves the pending state only by completing, and a completed    *)
(* operation never changes again.                                          *)
(***************************************************************************)
EXTENDS Naturals, FiniteSets

CONSTANTS Ops,       \* the operation IDs (32 hex digits in the code)
          MaxClaims  \* MAX_CLAIMS, the size of the registry

VARIABLE status      \* status[o]: how far operation o has come

Claimed == {o \in Ops : status[o] # "none"}

RegistryInit == status = [o \in Ops |-> "none"]

(* begin: the registry has room and nothing else is unfinished. *)
Claim(o) ==
    /\ \A other \in Ops : status[other] # "pending"
    /\ status[o] = "none"
    /\ Cardinality(Claimed) < MaxClaims
    /\ status' = [status EXCEPT ![o] = "pending"]

(* complete: the one pending claim gets its terminal marker. *)
Settle(o) ==
    /\ status[o] = "pending"
    /\ status' = [status EXCEPT ![o] = "completed"]

RegistryNext == \E o \in Ops : Claim(o) \/ Settle(o)

RegistrySpec == RegistryInit /\ [][RegistryNext]_status
=============================================================================
