SPECIFICATION FairSpec
CONSTANTS
    LogEnd = 6
    Proc = {p1, p2}
    parent = parent
    child = child
    odd = odd
    d1 = d1
    d2 = d2
    Event = {parent, child, odd}
    Digest = {d1, d2}
    Token = {t1, t2, t3, t4}
    EventOf <- MixedEventOf
    DigestOf <- MixedDigestOf
    Malformed = Malformed
    Needs <- ChainNeeds
    Poison = {odd}
    BatchSize = 2
    MaxAttempts = 2
    FaultKinds = {"crash", "stall", "db", "redis", "kafka", "rebalance", "stop"}
    MaxFaults = 2
    NoProc = NoProc
    NoToken = NoToken
    NoDigest = NoDigest
INVARIANTS
    TypeOK
    CommittedIsTerminal
    EffectsOnce
    DependencyOrder
    ExhaustedByFailures
PROPERTIES
    DeliverySpec
    EventuallyCommitted
    OnlyHolderEndsLease
