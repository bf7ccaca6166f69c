CONSTANTS
    Runs = {r1, r2}
    None = None
    Modes = {"api"}
    MaxProviderCalls = 1
    MaxInputs = 0
    MaxIds = 1
    MaxTurns = 0
    MaxLate = 0
    MaxFaults = 2
SPECIFICATION Spec
SYMMETRY AnyRun
INVARIANTS OneController OutcomeHonest
PROPERTIES NoStartOverDamage
CHECK_DEADLOCK FALSE
