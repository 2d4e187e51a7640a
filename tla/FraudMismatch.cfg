SPECIFICATION Spec
CONSTANTS
    Worker = {w1, w2}
    Deployments <- RefundDeployments
    Home <- CustomerHome
    MaxFaults = 0
    NoEvent = NoEvent
    NoResult = NoResult
SYMMETRY Symmetry
CHECK_DEADLOCK FALSE
INVARIANT
    MismatchAsDocumented
