CONSTANTS
    MaxFaults = 3
    MaxHost = 2
SPECIFICATION Spec
INVARIANTS RuntimeInv
PROPERTIES OnlyOwn Recovers
CHECK_DEADLOCK FALSE
