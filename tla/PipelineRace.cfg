SPECIFICATION Spec
CONSTANTS
    LogEnd = 3
    Proc = {p1, p2}
    parent = parent
    child = child
    odd = odd
    d1 = d1
    d2 = d2
    Event = {parent, child, odd}
    Digest = {d1, d2}
    Token = {t1, t2, t3, t4}
    EventOf <- DupEventOf
    DigestOf <- DupDigestOf
    Malformed = Malformed
    Needs <- ChainNeeds
    Poison = {}
    BatchSize = 2
    MaxAttempts = 2
    FaultKinds = {"stall"}
    MaxFaults = 2
    NoProc = NoProc
    NoToken = NoToken
    NoDigest = NoDigest
SYMMETRY Symmetry
INVARIANTS
    PersistedNotDeadLettered
