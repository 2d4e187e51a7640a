SPECIFICATION FairSpec
CONSTANTS
    Run = {r1, r2}
    EventCount = 2
    JourneySize = 2
    MaxConcurrent = 1
    FaultKinds = {"db", "kafka", "timeout", "crash"}
    MaxFaults = 2
CHECK_DEADLOCK FALSE
INVARIANTS
    RunInv
PROPERTIES
    DocumentedTransitions
    SettledRunsAreQuiet
    CountsOnlyGrow
    EventuallyEnded
