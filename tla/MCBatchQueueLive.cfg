CONSTANTS
    NumTrials = 1
    MaxAttempts = 2
    MaxApiCalls = 2
    MaxCallsPerTrial = 1
    Commands = {c1}
    MaxFaults = 2
    Supervised = TRUE
    None = None
SPECIFICATION FairSpec
INVARIANTS CrashAdoptsScore
PROPERTIES Settles
CHECK_DEADLOCK FALSE
