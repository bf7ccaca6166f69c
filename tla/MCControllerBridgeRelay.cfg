CONSTANTS
    Runs = {r1}
    None = None
    Modes = {"adaptive"}
    MaxProviderCalls = 2
    MaxInputs = 1
    MaxIds = 1
    MaxTurns = 2
    MaxLate = 1
    MaxFaults = 2
SPECIFICATION Spec
INVARIANTS BridgeInv LeaseOutlivesInput
CHECK_DEADLOCK FALSE
