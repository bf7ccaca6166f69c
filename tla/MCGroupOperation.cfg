CONSTANTS
    N = 2
    MaxCommands = 6
SPECIFICATION Spec
INVARIANTS GroupInv NoTrialOverFailure
PROPERTIES RestoredOnce
CHECK_DEADLOCK FALSE
