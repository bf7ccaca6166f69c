CONSTANTS
    Commands = {p1, p2}
    Ops = {o1, o2}
    None = None
    MaxMade = 3
    MaxBoots = 2
SPECIFICATION Spec
SYMMETRY AnyOrder
INVARIANTS LifecycleInv OneOperator
PROPERTIES ImplementsRestoreOnce
CHECK_DEADLOCK FALSE
