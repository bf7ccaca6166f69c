SPECIFICATION FairSpec
CONSTANTS
    Procs = {p1, p2}
    Ops = {o1, o2, o3}
    MaxClaims = 2
CHECK_DEADLOCK TRUE
INVARIANTS
    GateInv
PROPERTIES
    DamageFreezes
    ImplementsRegistry
    LeaseReleased
