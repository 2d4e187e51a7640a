--------------------------- MODULE MCFraudEngine ---------------------------
(* Small instances of FraudEngine for TLC. *)
EXTENDS FraudEngine, TLC

CustomerHome == [ann |-> "TR", bob |-> "TR"]

Ev(n, type, t, session) ==
    [id |-> n, type |-> type, time |-> t, customer |-> "ann", session |-> session,
     order |-> 0, payment |-> 0, amount |-> 0, device |-> None, country |-> None]

Session(n, t, s) == Ev(n, "session_started", t, s)
View(n, t, s) == Ev(n, "product_viewed", t, s)
Checkout(n, t, s, a) == [Ev(n, "checkout_started", t, s) EXCEPT !.amount = a]
Ordered(n, t, s, o, a) ==
    [Ev(n, "order_created", t, s) EXCEPT !.order = o, !.amount = a, !.country = "TR"]
Paid(n, type, t, o, a, d, c) ==
    [Ev(n, type, t, 0) EXCEPT !.order = o, !.payment = n, !.amount = a, !.device = d,
                              !.country = c]
GiveBack(n, t, o, p, a) ==
    [Ev(n, "refund_requested", t, 0) EXCEPT !.order = o, !.payment = p, !.amount = a]

(* The defaults, with shorter windows and smaller thresholds *)
Defaults ==
    [enabled |-> TRUE, outbox |-> TRUE, rules |-> RuleId, review |-> 30, block |-> 60,
     lookback |-> 40, limit |-> 5, amount |-> 50, multiplier |-> 3, attempts |-> 3,
     velocity_window |-> 4, failures |-> 2, failure_window |-> 6, history |-> 1,
     country_window |-> 8, rapid |-> 3, signals |-> 4, refund_rate |-> 50,
     rapid_refund |-> 4, views |-> 2,
     amount_score |-> 25, deviation_score |-> 20, velocity_score |-> 20,
     failure_score |-> 25, device_score |-> 15, country_score |-> 10,
     multi_country_score |-> 10, rapid_score |-> 15, takeover_score |-> 60,
     refund_score |-> 35, bot_score |-> 30, mismatch_score |-> 100]

By(c, e) == [e EXCEPT !.customer = c]

(* Attempts in quick succession, on two orders and from two countries; and *)
(* a payment of another customer, after one of the wrong amount            *)
Burst ==
    {Session(1, 0, 1), Ordered(2, 1, 1, 1, 2), Ordered(3, 2, 1, 2, 2),
     Paid(4, "payment_failed", 3, 1, 2, "d1", "TR"),
     Paid(5, "payment_failed", 4, 2, 2, "d1", "DE"),
     Paid(6, "payment_completed", 5, 1, 2, "d1", "TR"),
     By("bob", Session(7, 0, 2)), By("bob", Ordered(8, 5, 2, 3, 2)),
     By("bob", Paid(9, "payment_failed", 6, 3, 1, "d2", "TR")),
     By("bob", Paid(10, "payment_completed", 7, 3, 2, "d2", "TR"))}

(* A purchase, and a second one that looks like a takeover *)
Takeover ==
    {Session(1, 0, 1), Ordered(2, 1, 1, 1, 10),
     Paid(3, "payment_completed", 2, 1, 10, "d1", "TR"),
     Session(4, 20, 2), Ordered(5, 21, 2, 2, 60),
     Paid(6, "payment_completed", 22, 2, 60, "d2", "DE"),
     GiveBack(7, 23, 1, 3, 10), GiveBack(8, 24, 2, 6, 30)}

(* Refunds of one payment, in parts and whole *)
Refunds ==
    {Session(1, 0, 1), Ordered(2, 1, 1, 1, 4),
     Paid(3, "payment_completed", 2, 1, 4, "d1", "TR"),
     GiveBack(4, 3, 1, 3, 2), GiveBack(5, 4, 1, 3, 1), GiveBack(6, 5, 1, 3, 1),
     GiveBack(7, 6, 1, 3, 4)}

(* Views followed by a rapid checkout; the order_id and the payment_id are *)
(* used twice, and only one of the two events can be persisted             *)
Bot ==
    {Session(1, 0, 1), View(2, 1, 1), View(3, 1, 1), View(4, 9, 1), Checkout(5, 2, 1, 3),
     Ordered(6, 3, 1, 1, 3), Paid(7, "payment_failed", 8, 1, 3, "d1", "DE"),
     Ordered(8, 4, 1, 1, 5),
     [Paid(9, "payment_completed", 8, 1, 3, "d1", "TR") EXCEPT !.payment = 7]}

FraudDeployments ==
    {[log |-> l, config |-> Defaults] : l \in {Burst, Takeover, Refunds, Bot}}
    \cup
    {[log |-> Burst, config |-> [Defaults EXCEPT !.country_score = 60,
                                                 !.multi_country_score = 60]],
     [log |-> Burst, config |-> [Defaults EXCEPT !.limit = 2, !.failures = 1]],
     [log |-> Bot, config |-> [Defaults EXCEPT !.outbox = FALSE]],
     [log |-> Bot, config |-> [Defaults EXCEPT !.enabled = FALSE]]}

(* The refunds alone *)
RefundDeployments == {[log |-> Refunds, config |-> Defaults]}

ASSUME CausalDeployments == \A d \in Deployments : CausalLog(d.log)

Symmetry == Permutations(Worker)
=============================================================================
