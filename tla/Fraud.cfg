SPECIFICATION Spec
CONSTANTS
    Worker = {w1, w2}
    Deployments <- FraudDeployments
    Home <- CustomerHome
    MaxFaults = 1
    NoEvent = NoEvent
    NoResult = NoResult
SYMMETRY Symmetry
CHECK_DEADLOCK FALSE
INVARIANTS
    TypeOK
    EvaluatedAtomically
    VerdictOfTheLog
    OrderUndisturbed
    RulesWithinMaximum
