CONSTANTS
    NumTrials = 2
    MaxAttempts = 2
    MaxApiCalls = 2
    MaxCallsPerTrial = 2
    Commands = {c1}
    MaxFaults = 1
    Supervised = TRUE
    None = None
SPECIFICATION Spec
VIEW Deciding
INVARIANTS BatchInv OneTrialInWorld
PROPERTIES ImplementsQueue
CHECK_DEADLOCK FALSE
