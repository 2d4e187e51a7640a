SPECIFICATION Spec
CONSTANTS
    Run = {r1}
    EventCount = 3
    JourneySize = 2
    MaxConcurrent = 1
    FaultKinds = {}
    MaxFaults = 0
CHECK_DEADLOCK FALSE
INVARIANTS
    FinalCountDurable
