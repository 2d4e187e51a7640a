SPECIFICATION FairSpec
CONSTANTS
    NumRows = 3
    Corrupt = {2}
    Publisher = {p1, p2}
    Token = {t1, t2, t3}
    BatchSize = 2
    MaxAttempts = 2
    FaultKinds = {"stall", "kafka", "db", "crash", "signal"}
    MaxFaults = 2
    NoToken = NoToken
CHECK_DEADLOCK FALSE
INVARIANTS
    OutboxInv
PROPERTIES
    EventuallySettled
    SettledForGood
    OnlyHolderEndsClaim
