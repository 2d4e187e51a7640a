SPECIFICATION FairSpec
CONSTANTS
    ann = ann
    bob = bob
    s1 = s1
    k1 = k1
    x1 = x1
    x2 = x2
    o1 = o1
    o2 = o2
    p1 = p1
    p2 = p2
    r1 = r1
    r2 = r2
    i1 = i1
    i2 = i2
    Worker = {w1, w2, w3}
    Event <- MoneyEvents
    Customer = {ann, bob}
    Session = {s1}
    Cart = {k1}
    Product = {x1, x2}
    Order = {o1, o2}
    Payment = {p1, p2}
    Refund = {r1, r2}
    Identity = {i1, i2}
    MaxFaults = 0
    Absent = Absent
    NoEvent = NoEvent
    NoOne = NoOne
CHECK_DEADLOCK FALSE
INVARIANTS
    RefundsCovered
    OrderStatusBacked
PROPERTIES
    TransactionsEnd
