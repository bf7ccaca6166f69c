CONSTANTS
    ControlModes = {"serial", "continuous", "adaptive", "horizon"}
    MaxCalls = 3
    MaxActions = 2
    MaxTokens = 4
    MaxRequests = 3
    Reserve = 2
SPECIFICATION LoopSpec
INVARIANTS ControllerInv TraceHonest
PROPERTIES Returned
CHECK_DEADLOCK FALSE
