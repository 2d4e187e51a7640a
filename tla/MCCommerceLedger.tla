-------------------------- MODULE MCCommerceLedger --------------------------
(* Small instances of CommerceLedger for TLC. *)
EXTENDS CommerceLedger, TLC

CONSTANTS ann, bob, s1, k1, x1, x2, o1, o2, p1, p2, r1, r2, i1, i2

Register(n, c, i) ==
    [type |-> "user_registered", id |-> n, customer |-> c, identity |-> i]

StartSession(n, i) ==
    [type |-> "session_started", id |-> n, session |-> s1, customer |-> ann,
     identity |-> i]

Arrival == {Register(1, ann, i1), StartSession(1, i1)}

Add(x, n, c) ==
    [type |-> "added_to_cart", cart |-> k1, customer |-> c, session |-> s1,
     product |-> x, quantity |-> n, price |-> 1]

Checkout(n, d) ==
    [type |-> "checkout_started", cart |-> k1, customer |-> ann, session |-> s1,
     count |-> n, subtotal |-> n, discount |-> d]

Ordered(o, c, n, d) ==
    [type |-> "order_created", order |-> o, cart |-> k1, customer |-> c,
     session |-> s1, count |-> n, subtotal |-> n, discount |-> d]

Pay(t, p, o, a) ==
    [type |-> t, payment |-> p, order |-> o, customer |-> ann, amount |-> a]

GiveBack(r, p, a) ==
    [type |-> "refund_requested", refund |-> r, payment |-> p, order |-> o1,
     customer |-> ann, amount |-> a]

(* A customer registered again, alike and not; a session sent again; items *)
(* replaced before, during and after a checkout and an order, and an item  *)
(* and an order of another customer for the same cart.                     *)
ShopEvents ==
    Arrival \cup
    {Register(2, ann, i1), Register(3, ann, i2), Register(4, bob, i1), StartSession(2, i1),
     [type |-> "product_viewed", id |-> 4, session |-> s1, customer |-> ann],
     Add(x1, 3, ann), Add(x1, 1, ann), Add(x2, 1, bob),
     Checkout(3, 2), Ordered(o1, ann, 3, 2), Ordered(o2, bob, 3, 2)}

(* Two orders of one cart, payment attempts with keys that collide, and     *)
(* refunds that compete for one balance.                                   *)
MoneyEvents ==
    Arrival \cup
    {Add(x1, 2, ann), Ordered(o1, ann, 2, 0), Ordered(o2, ann, 2, 0),
     Pay("payment_completed", p1, o1, 2), Pay("payment_completed", p1, o1, 1),
     Pay("payment_failed", p1, o2, 2), Pay("payment_failed", p2, o1, 2),
     Pay("payment_completed", p2, o1, 2),
     GiveBack(r1, p1, 1), GiveBack(r2, p1, 2), GiveBack(r2, p2, 1)}

Symmetry == Permutations(Worker)
=============================================================================
