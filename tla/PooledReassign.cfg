SPECIFICATION Spec
CONSTANTS
    q1 = q1
    q2 = q2
    LogEnd = 3
    Partition = {q1}
    Worker = {w1, w2}
    BatchSize = 2
    Reassign = TRUE
    FaultKinds = {"rebalance"}
    Loads <- ReassignLoads
    NoRecord = NoRecord
    Idle = Idle
    Exited = Exited
    STOP = STOP
SYMMETRY WorkerSymmetry
CHECK_DEADLOCK FALSE
INVARIANTS
    CommittedIsResolved
