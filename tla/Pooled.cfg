SPECIFICATION FairSpec
CONSTANTS
    q1 = q1
    q2 = q2
    LogEnd = 8
    Partition = {q1, q2}
    Worker = {w1, w2}
    BatchSize = 2
    Reassign = FALSE
    FaultKinds = {"startup", "rebalance", "stall", "kafka", "unresolved", "raise", "signal", "crash"}
    Loads <- PoolLoads
    NoRecord = NoRecord
    Idle = Idle
    Exited = Exited
    STOP = STOP
CHECK_DEADLOCK FALSE
INVARIANTS
    PoolInv
    CommittedIsResolved
    CommitBacklogBounded
PROPERTIES
    CommitsOnlyForward
    EventuallyCommitted
    ShutdownCompletes
