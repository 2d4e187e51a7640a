--------------------------- MODULE CommerceLedger ---------------------------
(***************************************************************************)
(* The business tables and the transactions that write them                *)
(* (persistence/handlers.py and persistence/repositories).  One            *)
(* transaction applies one event; several run at the same time, from the   *)
(* workers of a pool or from instances with different partitions.          *)
(*                                                                         *)
(* PostgreSQL runs them at READ COMMITTED: every statement sees what is    *)
(* committed when it starts, SELECT ... FOR UPDATE and INSERT wait for the *)
(* holder of the row or key, and nothing written is visible before the     *)
(* commit.  A statement that reads or waits is a step; the writes take     *)
(* effect with the commit.  An event is applied at most once: that is      *)
(* EventPipeline's EffectsOnce.  Currency is compared like the customer    *)
(* and is left out.                                                        *)
(***************************************************************************)
EXTENDS Integers, FiniteSetsExt

CONSTANTS
    Worker,         \* workers with a database connection
    Event,          \* the valid events, as records (EventShape)
    Customer, Session, Cart, Product, Order, Payment, Refund,   \* row ids
    Identity,       \* immutable attributes a customer or session comes with
    MaxFaults,      \* bound: connection losses and lock timeouts
    Absent, NoEvent, NoOne

(* The fields of each payload that the repositories look at, and the event *)
(* id where two events may have the same payload.  Totals have been        *)
(* validated: total_amount = subtotal - discount_amount >= 0.              *)
EventShape ==
    [type : {"user_registered"}, id : Nat, customer : Customer, identity : Identity]
    \cup [type : {"session_started"}, id : Nat, session : Session, customer : Customer,
          identity : Identity]
    \cup [type : {"product_viewed"}, id : Nat, session : Session, customer : Customer]
    \cup [type : {"added_to_cart"}, cart : Cart, customer : Customer,
          session : Session, product : Product, quantity : Nat \ {0}, price : Nat]
    \cup [type : {"checkout_started"}, cart : Cart, customer : Customer,
          session : Session, count : Nat \ {0}, subtotal : Nat, discount : Nat]
    \cup [type : {"order_created"}, order : Order, cart : Cart,
          customer : Customer, session : Session, count : Nat \ {0}, subtotal : Nat,
          discount : Nat]
    \cup [type : {"payment_completed", "payment_failed"}, payment : Payment,
          order : Order, customer : Customer, amount : Nat \ {0}]
    \cup [type : {"refund_requested"}, refund : Refund, payment : Payment,
          order : Order, customer : Customer, amount : Nat \ {0}]

(* The rows, without the columns no repository compares. *)
CartRow    == [customer : Customer, session : Session,
               status : {"active", "checkout_started", "ordered"},
               subtotal : Nat, discount : Nat, total : Nat, count : Nat]
OrderRow   == [customer : Customer, session : Session, cart : Cart, total : Nat,
               status : {"created", "paid", "partially_refunded", "refunded"}]
PaymentRow == [order : Order, customer : Customer, amount : Nat \ {0},
               status : {"completed", "failed", "partially_refunded", "refunded"}]
ItemRow    == [quantity : Nat \ {0}, price : Nat]

ASSUME LedgerAssumption ==
    /\ Event \subseteq EventShape
    /\ \A e \in Event : e.type \in {"checkout_started", "order_created"}
                            => e.discount <= e.subtotal
    /\ IsFiniteSet(Product)
    /\ MaxFaults \in Nat
    /\ NoEvent \notin EventShape
    /\ Absent \notin Identity \cup (Customer \X Identity) \cup CartRow \cup ItemRow
                      \cup OrderRow \cup PaymentRow
    /\ NoOne \notin Worker

VARIABLES
    \* the tables
    customers, sessions, views, carts, items, orders, payments, refunds,
    \* SELECT SUM(amount) FROM refunds WHERE payment_id = p, for every p
    refunded,
    \* what became of each event: not applied yet, applied, or rejected as a
    \* permanent integrity error
    outcome,
    \* the transactions: event, next statement, and the SUM a refund read
    event, pc, seen,
    \* row and key locks
    lock,
    \* disturbances left
    budget

tables == <<customers, sessions, views, carts, items, orders, payments, refunds, refunded>>
txVars == <<event, pc, seen>>
vars == <<tables, outcome, txVars, lock, budget>>

Lockable == Customer \cup Session \cup Cart \cup Order \cup Payment \cup Refund

PC == {"idle", "begin", "insert", "sum", "order", "commit"}

TypeOK ==
    /\ customers \in [Customer -> Identity \cup {Absent}]
    /\ sessions \in [Session -> (Customer \X Identity) \cup {Absent}]
    /\ views \subseteq Event
    /\ carts \in [Cart -> CartRow \cup {Absent}]
    /\ items \in [Cart -> [Product -> ItemRow \cup {Absent}]]
    /\ orders \in [Order -> OrderRow \cup {Absent}]
    /\ payments \in [Payment -> PaymentRow \cup {Absent}]
    /\ refunds \subseteq Refund
    /\ refunded \in [Payment -> Nat]
    /\ outcome \in [Event -> {"new", "applied", "integrity"}]
    /\ event \in [Worker -> Event \cup {NoEvent}]
    /\ pc \in [Worker -> PC]
    /\ seen \in [Worker -> Nat]
    /\ lock \in [Lockable -> Worker \cup {NoOne}]
    /\ budget \in 0 .. MaxFaults

Init ==
    /\ customers = [c \in Customer |-> Absent]
    /\ sessions = [s \in Session |-> Absent]
    /\ views = {}
    /\ carts = [k \in Cart |-> Absent]
    /\ items = [k \in Cart |-> [x \in Product |-> Absent]]
    /\ orders = [o \in Order |-> Absent]
    /\ payments = [p \in Payment |-> Absent]
    /\ refunds = {}
    /\ refunded = [p \in Payment |-> 0]
    /\ outcome = [e \in Event |-> "new"]
    /\ event = [w \in Worker |-> NoEvent]
    /\ pc = [w \in Worker |-> "idle"]
    /\ seen = [w \in Worker |-> 0]
    /\ lock = [r \in Lockable |-> NoOne]
    /\ budget = MaxFaults

-----------------------------------------------------------------------------
Goto(w, l) == pc' = [pc EXCEPT ![w] = l]

(* ROLLBACK and COMMIT release what the transaction holds. *)
Released(w) == [r \in Lockable |-> IF lock[r] = w THEN NoOne ELSE lock[r]]

(* The transaction is over. *)
EndTx(w, result) ==
    /\ outcome' = [outcome EXCEPT ![event[w]] = result]
    /\ event' = [event EXCEPT ![w] = NoEvent]
    /\ seen' = [seen EXCEPT ![w] = 0]
    /\ Goto(w, "idle")
    /\ lock' = Released(w)

(* The repository raises, and the transaction is rolled back. *)
Reject(w, result) ==
    /\ EndTx(w, result)
    /\ UNCHANGED tables

(* A statement takes the row or key r, waiting for another holder to end. *)
Acquire(w, r) ==
    /\ lock[r] \in {NoOne, w}
    /\ lock' = [lock EXCEPT ![r] = w]

(* MissingBusinessDependencyError: the event is tried again later. *)
Missing(w) == Reject(w, "new")

(* The event changes no row that is modelled (only last_event_id). *)
Unneeded(w) ==
    /\ EndTx(w, "applied")
    /\ UNCHANGED tables

(* The next statement of w is l; no row has been written. *)
Proceed(w, l) ==
    /\ Goto(w, l)
    /\ UNCHANGED <<tables, outcome, event>>

Begin(w, e) ==
    /\ pc[w] = "idle"
    /\ outcome[e] = "new"
    /\ \A v \in Worker : event[v] # e
    /\ event' = [event EXCEPT ![w] = e]
    /\ Goto(w, "begin")
    /\ UNCHANGED <<tables, outcome, seen, lock, budget>>

(* The first statements of w's transaction, for an event of the types T. *)
First(w, T) == pc[w] = "begin" /\ event[w].type \in T

-----------------------------------------------------------------------------
(* customers.register: an identity that is already there must be the same. *)
(* What it reads is not locked.                                            *)
RegisterRead(w) ==
    LET e == event[w]
    IN  /\ First(w, {"user_registered"})
        /\ \/ /\ customers[e.customer] = Absent
              /\ Proceed(w, "insert")
              /\ UNCHANGED <<lock, seen>>
           \/ /\ customers[e.customer] = e.identity
              /\ Unneeded(w)
           \/ /\ customers[e.customer] \notin {Absent, e.identity}
              /\ Reject(w, "integrity")
        /\ UNCHANGED budget

(* sessions.insert refuses a session that is already there, even the same: *)
(* ip_address::text of the INET column has a netmask ("192.0.2.1/32"), and *)
(* str(payload.ip_address) has none, so the rows always differ.            *)
SessionRead(w) ==
    LET e == event[w]
    IN  /\ First(w, {"session_started"})
        /\ \/ /\ customers[e.customer] = Absent
              /\ Missing(w)
           \/ /\ customers[e.customer] # Absent
              /\ \/ /\ sessions[e.session] = Absent
                    /\ Proceed(w, "insert")
                    /\ UNCHANGED <<lock, seen>>
                 \/ /\ sessions[e.session] # Absent
                    /\ Reject(w, "integrity")
        /\ UNCHANGED budget

(* The rows a view and a cart item hang on. *)
ParentsExist(e) == customers[e.customer] # Absent /\ sessions[e.session] # Absent

(* product_views.insert *)
ViewRead(w) ==
    /\ First(w, {"product_viewed"})
    /\ \/ ~ParentsExist(event[w]) /\ Missing(w)
       \/ /\ ParentsExist(event[w])
          /\ Proceed(w, "commit")
          /\ UNCHANGED <<lock, seen>>
    /\ UNCHANGED budget

(* The checks and the upsert of carts.add_item, which locks the cart or    *)
(* the key of a new one.                                                   *)
ItemRead(w) ==
    /\ First(w, {"added_to_cart"})
    /\ \/ ~ParentsExist(event[w]) /\ Missing(w)
       \/ /\ ParentsExist(event[w])
          /\ Acquire(w, event[w].cart)
          /\ Proceed(w, "commit")
          /\ UNCHANGED seen
    /\ UNCHANGED budget

(* What carts.checkout and orders.insert compare the cart with. *)
CartMatches(row, e) ==
    /\ row.customer = e.customer
    /\ row.session = e.session
    /\ row.subtotal = e.subtotal
    /\ row.count = e.count
    /\ e.type = "order_created" => /\ row.discount = e.discount
                                   /\ row.total = e.subtotal - e.discount

(* A faulty variant: SELECT without FOR UPDATE. *)
CartReadUnlocked(w) ==
    LET e == event[w]
    IN  /\ First(w, {"checkout_started", "order_created"})
        /\ \/ /\ carts[e.cart] = Absent
              /\ Missing(w)
           \/ /\ carts[e.cart] # Absent
              /\ CartMatches(carts[e.cart], e)
              /\ Proceed(w, IF e.type = "checkout_started" THEN "commit" ELSE "insert")
              /\ UNCHANGED <<lock, seen>>
        /\ UNCHANGED budget

(* They lock it first, if there is one. *)
CartRead(w) ==
    LET e == event[w]
    IN  /\ First(w, {"checkout_started", "order_created"})
        /\ \/ /\ carts[e.cart] = Absent
              /\ Missing(w)
           \/ /\ carts[e.cart] # Absent
              /\ lock[e.cart] = NoOne
              /\ ~CartMatches(carts[e.cart], e)
              /\ Reject(w, "integrity")
           \/ /\ carts[e.cart] # Absent
              /\ Acquire(w, e.cart)
              /\ CartMatches(carts[e.cart], e)
              /\ Proceed(w, IF e.type = "checkout_started" THEN "commit" ELSE "insert")
              /\ UNCHANGED seen
        /\ UNCHANGED budget

(* payments._insert locks the order and compares it. *)
OrderRead(w) ==
    LET e == event[w]
        row == orders[e.order]
        matches == row.customer = e.customer /\ row.total = e.amount
    IN  /\ First(w, {"payment_completed", "payment_failed"})
        /\ \/ row = Absent /\ Missing(w)
           \/ /\ row # Absent
              /\ lock[e.order] = NoOne
              /\ ~matches
              /\ Reject(w, "integrity")
           \/ /\ row # Absent
              /\ Acquire(w, e.order)
              /\ matches
              /\ Proceed(w, "insert")
              /\ UNCHANGED seen
        /\ UNCHANGED budget

(* A faulty variant: SELECT without FOR UPDATE. *)
PaymentReadUnlocked(w) ==
    LET e == event[w]
        row == payments[e.payment]
    IN  /\ First(w, {"refund_requested"})
        /\ \/ row = Absent /\ Missing(w)
           \/ /\ row # Absent
              /\ row.status # "failed"
              /\ row.order = e.order /\ row.customer = e.customer
              /\ Proceed(w, "sum")
              /\ UNCHANGED <<lock, seen>>
        /\ UNCHANGED budget

(* refunds.insert locks the payment and checks it ... *)
PaymentRead(w) ==
    LET e == event[w]
        row == payments[e.payment]
        matches == /\ row.status # "failed"
                   /\ row.order = e.order
                   /\ row.customer = e.customer
    IN  /\ First(w, {"refund_requested"})
        /\ \/ row = Absent /\ Missing(w)
           \/ /\ row # Absent
              /\ lock[e.payment] = NoOne
              /\ ~matches
              /\ Reject(w, "integrity")
           \/ /\ row # Absent
              /\ Acquire(w, e.payment)
              /\ matches
              /\ Proceed(w, "sum")
              /\ UNCHANGED seen
        /\ UNCHANGED budget

(* ... then adds up the refunds in a statement of its own. *)
RefundSum(w) ==
    LET e == event[w]
    IN  /\ pc[w] = "sum"
        /\ \/ /\ refunded[e.payment] + e.amount > payments[e.payment].amount
              /\ Reject(w, "integrity")
           \/ /\ refunded[e.payment] + e.amount <= payments[e.payment].amount
              /\ seen' = [seen EXCEPT ![w] = refunded[e.payment]]
              /\ Proceed(w, "insert")
              /\ UNCHANGED lock
        /\ UNCHANGED budget

-----------------------------------------------------------------------------
(* The primary key an INSERT of w is about to take, and whether a          *)
(* committed row already has it.                                           *)
NewKey(w) ==
    LET e == event[w]
    IN  CASE e.type = "user_registered" -> e.customer
          [] e.type = "session_started" -> e.session
          [] e.type = "order_created" -> e.order
          [] e.type \in {"payment_completed", "payment_failed"} -> e.payment
          [] e.type = "refund_requested" -> e.refund

(* A faulty variant: identities have no primary key. *)
KeyTakenNotByIdentity(w) ==
    LET e == event[w]
    IN  CASE e.type \in {"user_registered", "session_started"} -> FALSE
          [] e.type = "order_created" -> orders[e.order] # Absent
          [] e.type \in {"payment_completed", "payment_failed"} ->
                payments[e.payment] # Absent
          [] e.type = "refund_requested" -> e.refund \in refunds

KeyTaken(w) ==
    LET e == event[w]
    IN  CASE e.type = "user_registered" -> customers[e.customer] # Absent
          [] e.type = "session_started" -> sessions[e.session] # Absent
          [] e.type = "order_created" -> orders[e.order] # Absent
          [] e.type \in {"payment_completed", "payment_failed"} ->
                payments[e.payment] # Absent
          [] e.type = "refund_requested" -> e.refund \in refunds

(* A faulty variant: ON CONFLICT DO UPDATE, which also waits for whoever    *)
(* holds the row that has the key.                                         *)
InsertRowWaits(w) ==
    /\ pc[w] = "insert"
    /\ \/ /\ KeyTaken(w)
          /\ lock[NewKey(w)] \in {NoOne, w}
          /\ Reject(w, "integrity")
       \/ /\ ~KeyTaken(w)
          /\ Acquire(w, NewKey(w))
          /\ Proceed(w, IF event[w].type = "refund_requested" THEN "order" ELSE "commit")
          /\ UNCHANGED seen
    /\ UNCHANGED budget

(* INSERT waits for a transaction that is inserting the same key.  If the  *)
(* key is taken in the end, it fails: 23505, or rowcount = 0 and an        *)
(* identity conflict.                                                      *)
InsertRow(w) ==
    /\ pc[w] = "insert"
    /\ \/ /\ KeyTaken(w)
          /\ Reject(w, "integrity")
       \/ /\ ~KeyTaken(w)
          /\ Acquire(w, NewKey(w))
          /\ Proceed(w, IF event[w].type = "refund_requested" THEN "order" ELSE "commit")
          /\ UNCHANGED seen
    /\ UNCHANGED budget

(* The refund updates the order of its payment last. *)
RefundOrder(w) ==
    /\ pc[w] = "order"
    /\ Acquire(w, event[w].order)
    /\ Proceed(w, "commit")
    /\ UNCHANGED <<seen, budget>>
-----------------------------------------------------------------------------
(* What each repository has written when its transaction commits. *)
WriteIdentity(e) ==
    \/ /\ e.type = "user_registered"
       /\ customers' = [customers EXCEPT ![e.customer] = e.identity]
       /\ UNCHANGED <<sessions, views>>
    \/ /\ e.type = "session_started"
       /\ sessions' = [sessions EXCEPT ![e.session] = <<e.customer, e.identity>>]
       /\ UNCHANGED <<customers, views>>
    \/ /\ e.type = "product_viewed"
       /\ views' = views \cup {e}
       /\ UNCHANGED <<customers, sessions>>

LineTotal(line) == line.quantity * line.price

InCart(lines) == {x \in Product : lines[x] # Absent}

Subtotal(lines) == MapThenSumSet(LAMBDA x : LineTotal(lines[x]), InCart(lines))

ItemCount(lines) == MapThenSumSet(LAMBDA x : lines[x].quantity, InCart(lines))

(* The item replaces an earlier one of the same product. *)
NewLines(e) ==
    [items[e.cart] EXCEPT ![e.product] = [quantity |-> e.quantity, price |-> e.price]]

(* The cart as the upsert finds or makes it. *)
CartBefore(e) ==
    IF carts[e.cart] = Absent
    THEN [customer |-> e.customer, session |-> e.session, status |-> "active",
          subtotal |-> 0, discount |-> 0, total |-> 0, count |-> 0]
    ELSE carts[e.cart]

(* The totals are computed from the items again; the status stays. *)
CartAfter(e) ==
    [CartBefore(e) EXCEPT !.subtotal = Subtotal(NewLines(e)),
                          !.total = Subtotal(NewLines(e)) - CartBefore(e).discount,
                          !.count = ItemCount(NewLines(e))]

(* The cart belongs to someone else, or CHECK (total >= 0) fails. *)
CartRefuses(e) ==
    \/ CartBefore(e).customer # e.customer
    \/ CartBefore(e).session # e.session
    \/ CartAfter(e).total < 0

WriteItem(e) ==
    /\ e.type = "added_to_cart"
    /\ ~CartRefuses(e)
    /\ carts' = [carts EXCEPT ![e.cart] = CartAfter(e)]
    /\ items' = [items EXCEPT ![e.cart] = NewLines(e)]
    /\ UNCHANGED orders

WriteCheckout(e) ==
    /\ e.type = "checkout_started"
    /\ carts' = [carts EXCEPT ![e.cart].status = "checkout_started",
                              ![e.cart].discount = e.discount,
                              ![e.cart].total = e.subtotal - e.discount]
    /\ UNCHANGED <<items, orders>>

WriteOrder(e) ==
    /\ e.type = "order_created"
    /\ carts' = [carts EXCEPT ![e.cart].status = "ordered"]
    /\ orders' = [orders EXCEPT ![e.order] =
                    [customer |-> e.customer, session |-> e.session, cart |-> e.cart,
                     total |-> e.subtotal - e.discount, status |-> "created"]]
    /\ UNCHANGED items

(* A faulty variant: a failed attempt marks the order paid, too. *)
WritePaymentAlwaysPaid(e) ==
    /\ payments' = [payments EXCEPT ![e.payment] =
                        [order |-> e.order, customer |-> e.customer, amount |-> e.amount,
                         status |-> IF e.type = "payment_completed" THEN "completed"
                                    ELSE "failed"]]
    /\ orders' = [orders EXCEPT ![e.order].status = "paid"]

WritePayment(e) ==
    /\ payments' = [payments EXCEPT ![e.payment] =
                        [order |-> e.order, customer |-> e.customer, amount |-> e.amount,
                         status |-> IF e.type = "payment_completed" THEN "completed"
                                    ELSE "failed"]]
    /\ orders' = IF e.type = "payment_completed"
                 THEN [orders EXCEPT ![e.order].status = "paid"] ELSE orders

(* The new status follows from the sum read under the lock. *)
WriteRefund(w, e) ==
    LET status == IF seen[w] + e.amount = payments[e.payment].amount
                  THEN "refunded" ELSE "partially_refunded"
    IN  /\ refunds' = refunds \cup {e.refund}
        /\ refunded' = [refunded EXCEPT ![e.payment] = @ + e.amount]
        /\ payments' = [payments EXCEPT ![e.payment].status = status]
        /\ orders' = [orders EXCEPT ![e.order].status = status]

(* The COMMIT, or for an item of a cart the statement that is refused. *)
Commit(w) ==
    LET e == event[w]
    IN  /\ pc[w] = "commit"
        /\ \/ /\ WriteIdentity(e)
              /\ EndTx(w, "applied")
              /\ UNCHANGED <<carts, items, orders, payments, refunds, refunded>>
           \/ /\ WriteItem(e) \/ WriteCheckout(e) \/ WriteOrder(e)
              /\ EndTx(w, "applied")
              /\ UNCHANGED <<customers, sessions, views, payments, refunds, refunded>>
           \/ /\ e.type = "added_to_cart"
              /\ CartRefuses(e)
              /\ Reject(w, "integrity")
           \/ /\ e.type \in {"payment_completed", "payment_failed"}
              /\ WritePayment(e)
              /\ EndTx(w, "applied")
              /\ UNCHANGED <<customers, sessions, views, carts, items, refunds, refunded>>
           \/ /\ e.type = "refund_requested"
              /\ WriteRefund(w, e)
              /\ EndTx(w, "applied")
              /\ UNCHANGED <<customers, sessions, views, carts, items>>
        /\ UNCHANGED budget

(* The connection is lost (to be retried), or a statement, waiting for a   *)
(* lock or not, exceeds its timeout, which is taken for permanent.         *)
TxFails(w) ==
    /\ pc[w] # "idle"
    /\ budget > 0
    /\ budget' = budget - 1
    /\ Reject(w, "new") \/ Reject(w, "integrity")

Step(w) ==
    \/ RegisterRead(w) \/ SessionRead(w) \/ ViewRead(w) \/ ItemRead(w)
    \/ CartRead(w) \/ OrderRead(w) \/ PaymentRead(w) \/ RefundSum(w) \/ InsertRow(w)
    \/ RefundOrder(w) \/ Commit(w)

Next ==
    \E w \in Worker : Step(w) \/ TxFails(w) \/ \E e \in Event : Begin(w, e)

Spec == Init /\ [][Next]_vars

(* A transaction that can go on does. *)
FairSpec == Spec /\ \A w \in Worker : WF_vars(Step(w))
-----------------------------------------------------------------------------
(* docs/postgresql-persistence.md:139-142: payment row locking "prevents   *)
(* concurrent over-refunding".  The refunds of a payment never add up to   *)
(* more than was paid, a payment that failed has none, and the status of   *)
(* the payment says exactly how much is refunded (refunds.py:15-96).       *)
RefundsCovered ==
    \A p \in Payment :
        IF payments[p] = Absent THEN refunded[p] = 0
        ELSE /\ refunded[p] <= payments[p].amount
             /\ payments[p].status = "failed" => refunded[p] = 0
             /\ payments[p].status = "completed" => refunded[p] = 0
             /\ payments[p].status = "partially_refunded"
                    => refunded[p] \in 1 .. payments[p].amount - 1
             /\ payments[p].status = "refunded" => refunded[p] = payments[p].amount

(* "immutable identity conflict detection" (customers.py:1): a customer or  *)
(* session that is there keeps the attributes it was first seen with, even *)
(* when it is registered by two transactions that both found nothing       *)
(* (customers.py:11-54, sessions.py:12-54).                                *)
IdentitiesImmutable ==
    [][/\ \A c \in Customer : customers[c] # Absent => customers'[c] = customers[c]
       /\ \A s \in Session : sessions[s] # Absent => sessions'[s] = sessions[s]]_vars

(* "Latest cart state and deterministic item replacement" (carts.py:1):    *)
(* whichever transactions replace items, check out and convert a cart at   *)
(* the same time, its subtotal and count are those of its items, and its   *)
(* total is the subtotal less the discount of the last checkout.           *)
CartTotals ==
    \A k \in Cart : carts[k] # Absent =>
        /\ carts[k].subtotal = Subtotal(items[k])
        /\ carts[k].count = ItemCount(items[k])
        /\ carts[k].total = carts[k].subtotal - carts[k].discount

(* The status of an order is the status of one of its payments, and it is  *)
(* "created" as long as none succeeded, in whatever order attempts and     *)
(* refunds of several payments commit (payments.py:86-96, refunds.py:76).  *)
OrderStatusBacked ==
    \A o \in Order : orders[o] # Absent =>
        LET paid == {p \in Payment : /\ payments[p] # Absent
                                     /\ payments[p].order = o
                                     /\ payments[p].status # "failed"}
        IN  IF orders[o].status = "created" THEN paid = {}
            ELSE \E p \in paid : payments[p].status =
                    IF orders[o].status = "paid" THEN "completed" ELSE orders[o].status

(* A chain of rows has one owner: an order is of its cart's customer, a    *)
(* payment of its order's, and it pays the order's exact total, although   *)
(* the rows were written by different transactions (orders.py:28-39,       *)
(* payments.py:50-57).                                                     *)
OneOwner ==
    /\ \A o \in Order : orders[o] # Absent =>
        /\ carts[orders[o].cart] # Absent
        /\ carts[orders[o].cart].customer = orders[o].customer
    /\ \A p \in Payment : payments[p] # Absent =>
        /\ orders[payments[p].order] # Absent
        /\ orders[payments[p].order].customer = payments[p].customer
        /\ orders[payments[p].order].total = payments[p].amount

(* After every commit the business tables are well formed (the CHECK       *)
(* constraints hold), carts add up to their items, and every chain of rows *)
(* has one owner (carts.py, orders.py, payments.py).                       *)
LedgerInv == TypeOK /\ CartTotals /\ OneOwner

(* Every transaction comes to an end: the row and key locks that the       *)
(* repositories take one after another (cart then order key, order then    *)
(* payment key, payment then order) never make transactions wait for each  *)
(* other in a circle (orders.py:17-79, payments.py:31-96, refunds.py).     *)
TransactionsEnd ==
    \A w \in Worker : pc[w] # "idle" ~> pc[w] = "idle"
-----------------------------------------------------------------------------
(***************************************************************************)
(* Why these hold: what a transaction has read stays true until it writes, *)
(* because it holds the lock of the row or of the key.                     *)
(***************************************************************************)
Underway == {"insert", "sum", "order", "commit"}

CartTypes    == {"added_to_cart", "checkout_started", "order_created"}
PaymentTypes == {"payment_completed", "payment_failed"}
InsertTypes  == {"user_registered", "session_started", "order_created", "refund_requested"}
                    \cup PaymentTypes

(* The next statement is one of the event's handler. *)
FitsHandler(w) ==
    /\ pc[w] = "idle" <=> event[w] = NoEvent
    /\ pc[w] \in {"sum", "order"} => event[w].type = "refund_requested"
    /\ pc[w] = "insert" => event[w].type \in InsertTypes

(* The row that the first statement has locked, the key of the INSERT, and *)
(* the order a refund updates.                                             *)
HoldsLocks(w) ==
    LET e == event[w] IN
    /\ pc[w] \in Underway =>
        /\ e.type \in CartTypes => lock[e.cart] = w
        /\ e.type \in PaymentTypes => lock[e.order] = w
        /\ e.type = "refund_requested" => lock[e.payment] = w
    /\ pc[w] \in {"order", "commit"} /\ e.type \in InsertTypes => lock[NewKey(w)] = w
    /\ pc[w] = "commit" /\ e.type = "refund_requested" => lock[e.order] = w

(* What it has seen is still what the tables say. *)
ReadsStand(w) ==
    LET e == event[w] IN
    /\ pc[w] \in Underway =>
        /\ e.type \in {"checkout_started", "order_created"} =>
            carts[e.cart] # Absent /\ CartMatches(carts[e.cart], e)
        /\ e.type \in PaymentTypes =>
            /\ orders[e.order] # Absent
            /\ orders[e.order].customer = e.customer
            /\ orders[e.order].total = e.amount
        /\ e.type = "refund_requested" =>
            /\ payments[e.payment] # Absent
            /\ payments[e.payment].status # "failed"
            /\ payments[e.payment].order = e.order
            /\ pc[w] # "sum" =>
                /\ seen[w] = refunded[e.payment]
                /\ seen[w] + e.amount <= payments[e.payment].amount
    /\ pc[w] \in {"order", "commit"} /\ e.type \in InsertTypes => ~KeyTaken(w)

TxInv == \A w \in Worker : FitsHandler(w) /\ HoldsLocks(w) /\ ReadsStand(w)

LedgerIInv ==
    TypeOK /\ TxInv /\ CartTotals /\ OneOwner /\ RefundsCovered /\ OrderStatusBacked
=============================================================================
