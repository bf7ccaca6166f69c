CONSTANTS
    Commands = {c1, c2}
    Attempts = {a1}
    None = None
    Phases <- PHASES
    Reservation = 2
    Amounts = {1, 3}
SPECIFICATION FairSpec
INVARIANTS TrialInv OneActor NoControllerAfterClose UsageIsCharged
PROPERTIES ImplementsLedger WorldReleased
CHECK_DEADLOCK FALSE
