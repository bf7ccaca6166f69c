SPECIFICATION Spec
CONSTANTS
    N = 3
    Reservation <- TwoEach
    Limit = 6
    Usages <- UnderOrOver
    Need <- SlowFirst
    Deadline = 4
    MaxEvents = 100
    MaxInvocations = 3
CHECK_DEADLOCK FALSE
INVARIANTS
    CoordinatorInv
    LaunchedOnce
    FinalIsQuiet
    LoadableUnlessTorn
PROPERTIES
    HistoryKept
