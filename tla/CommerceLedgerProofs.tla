------------------------ MODULE CommerceLedgerProofs ------------------------
(***************************************************************************)
(* What the business tables keep under concurrent transactions, for any    *)
(* events, workers and rows.  The argument is two-phase locking by hand:   *)
(* what a transaction reads under a lock stays true until it commits       *)
(* (TxInv), and then each write keeps the tables consistent.               *)
(***************************************************************************)
EXTENDS CommerceLedger, FiniteSetTheorems, NaturalsInduction, WellFoundedInduction, TLAPS

(* A set of naturals that is not empty has a least element. *)
LEMMA LeastNatural ==
    ASSUME NEW T, T \subseteq Nat, T # {}
    PROVE  \E x \in T : \A y \in T : x <= y
<1>1. PICK x \in T : \A y \in T : ~ (<<y, x>> \in OpToRel(<, Nat))
  BY WFMin, NatLessThanWellFounded, Zenon
<1>2. \A y \in T : x <= y
  <2> TAKE y \in T
  <2>1. x \in Nat /\ y \in Nat
    OBVIOUS
  <2>2. ~(y < x)
    BY <1>1, <2>1 DEF OpToRel
  <2> QED BY <2>1, <2>2
<1> QED BY <1>2

(* The element that MapThenSumSet takes next. *)
Chosen(s) == CHOOSE x \in s : TRUE

(* g holds the sum of f over every subset of S. *)
AddsUp(g, f, S) ==
    g = [s \in SUBSET S |-> IF s = {} THEN 0 ELSE f[Chosen(s)] + g[s \ {Chosen(s)}]]

(* Sums of naturals are naturals: a smallest subset with another sum would *)
(* have a smaller one.                                                     *)
LEMMA AddsUpNat ==
    ASSUME NEW S, IsFiniteSet(S), NEW f \in [S -> Nat], NEW g, AddsUp(g, f, S),
           NEW s \in SUBSET S
    PROVE  g[s] \in Nat
<1> DEFINE bad == {n \in Nat : \E t \in SUBSET S : Cardinality(t) = n /\ g[t] \notin Nat}
<1>1. CASE bad = {}
  <2>1. IsFiniteSet(s) /\ Cardinality(s) \in Nat
    BY FS_Subset, FS_CardinalityType
  <2> QED BY <1>1, <2>1
<1>2. CASE bad # {}
  <2>1. PICK n \in bad : \A m \in bad : n <= m
    <3>1. bad \subseteq Nat
      OBVIOUS
    <3> HIDE DEF bad
    <3> QED BY <1>2, <3>1, LeastNatural
  <2>2. PICK t \in SUBSET S : Cardinality(t) = n /\ g[t] \notin Nat
    OBVIOUS
  <2>3. t # {}
    BY <2>2 DEF AddsUp
  <2>4. Chosen(t) \in t
    BY <2>3 DEF Chosen
  <2>5. /\ Cardinality(t \ {Chosen(t)}) = n - 1 /\ n \in Nat /\ n # 0
        /\ Cardinality(t \ {Chosen(t)}) \in Nat
    <3>1. IsFiniteSet(t) /\ IsFiniteSet(t \ {Chosen(t)})
      BY FS_Subset
    <3> QED BY <2>2, <2>4, <3>1, FS_RemoveElement, FS_EmptySet, FS_CardinalityType
  <2>6. g[t \ {Chosen(t)}] \in Nat
    <3>1. n - 1 \notin bad
      BY <2>1, <2>5
    <3> QED BY <2>5, <3>1
  <2>7. g[t] = f[Chosen(t)] + g[t \ {Chosen(t)}]
    BY <2>3 DEF AddsUp
  <2> QED BY <2>2, <2>4, <2>6, <2>7
<1> QED BY <1>1, <1>2

(* The recursive definition of the sum has a solution on a finite set:     *)
(* there is one for the subsets of every size.                             *)
LEMMA SumExists ==
    ASSUME NEW S, IsFiniteSet(S), NEW f \in [S -> Nat]
    PROVE  \E g : AddsUp(g, f, S)
<1> DEFINE Small(n) == {t \in SUBSET S : Cardinality(t) <= n}
           Upto(g, n) == /\ DOMAIN g = Small(n)
                         /\ \A t \in Small(n) : g[t] = IF t = {} THEN 0
                                     ELSE f[Chosen(t)] + g[t \ {Chosen(t)}]
           bad == {n \in Nat : ~ \E g : g = [x \in DOMAIN g |-> g[x]] /\ Upto(g, n)}
<1>a. \A t \in SUBSET S : IsFiniteSet(t) /\ Cardinality(t) \in Nat /\ (t = {} <=> Cardinality(t) = 0)
  BY FS_Subset, FS_CardinalityType, FS_EmptySet
<1>b. \A t \in SUBSET S : t # {} => /\ Chosen(t) \in t /\ t \ {Chosen(t)} \in SUBSET S
                                    /\ Cardinality(t \ {Chosen(t)}) = Cardinality(t) - 1
  <2> SUFFICES ASSUME NEW t \in SUBSET S, t # {}
               PROVE /\ Chosen(t) \in t /\ t \ {Chosen(t)} \in SUBSET S
                     /\ Cardinality(t \ {Chosen(t)}) = Cardinality(t) - 1
    OBVIOUS
  <2>1. Chosen(t) \in t
    BY DEF Chosen
  <2> QED BY <1>a, <2>1, FS_RemoveElement
<1>1. bad = {}
  <2> SUFFICES ASSUME bad # {} PROVE FALSE
    OBVIOUS
  <2>1. PICK n \in bad : \A m \in bad : n <= m
    <3>1. bad \subseteq Nat
      OBVIOUS
    <3> HIDE DEF bad
    <3> QED BY <3>1, LeastNatural
  <2>2. n # 0
    <3> SUFFICES ASSUME n = 0 PROVE FALSE
      OBVIOUS
    <3> DEFINE g == [t \in Small(0) |-> 0]
    <3>1. \A t \in Small(0) : t = {}
      BY <1>a
    <3>2. Upto(g, 0)
      BY <3>1
    <3> QED BY <3>2
  <2>3. PICK h : h = [x \in DOMAIN h |-> h[x]] /\ Upto(h, n - 1)
    <3>1. n \in Nat /\ n - 1 \in Nat /\ ~(n <= n - 1)
      BY <2>2
    <3>2. n - 1 \notin bad
      <4> HIDE DEF bad
      <4> QED BY <2>1, <3>1
    <3> QED BY <3>1, <3>2
  <2> DEFINE g == [t \in Small(n) |-> IF t = {} THEN 0 ELSE f[Chosen(t)] + h[t \ {Chosen(t)}]]
  <2>4. ASSUME NEW t \in Small(n - 1) PROVE g[t] = h[t]
    <3>1. t \in Small(n)
      BY <1>a
    <3> QED BY <2>3, <3>1
  <2>5. Upto(g, n)
    <3>1. ASSUME NEW t \in Small(n), t # {} PROVE g[t \ {Chosen(t)}] = h[t \ {Chosen(t)}]
      <4>1. t \ {Chosen(t)} \in Small(n - 1)
        BY <1>a, <1>b, <3>1
      <4> HIDE DEF g, Small
      <4> QED BY <2>4, <4>1
    <3> QED BY <3>1
  <2> QED BY <2>5
<1>2. PICK g : DOMAIN g = SUBSET S /\ g = [x \in DOMAIN g |-> g[x]] /\ Upto(g, Cardinality(S))
  <2>1. Small(Cardinality(S)) = SUBSET S
    BY <1>a, FS_Subset
  <2>2. Cardinality(S) \in Nat
    BY <1>a
  <2>3. PICK g : g = [x \in DOMAIN g |-> g[x]] /\ Upto(g, Cardinality(S))
    BY <1>1, <2>2
  <2> QED BY <2>1, <2>3
<1>3. AddsUp(g, f, S)
  BY <1>2 DEF AddsUp
<1> QED BY <1>3

(* The subtotal of a cart is a natural number. *)
LEMMA SubtotalNat ==
    ASSUME NEW lines \in [Product -> ItemRow \cup {Absent}]
    PROVE  Subtotal(lines) \in Nat
<1> DEFINE S == InCart(lines)
           f == [x \in S |-> LineTotal(lines[x])]
           eqn(g) == g = [s \in SUBSET S |-> IF s = {} THEN 0
                                             ELSE LineTotal(lines[CHOOSE x \in s : TRUE])
                                                    + g[s \ {CHOOSE x \in s : TRUE}]]
           iter == CHOOSE g : eqn(g)
<1>1. Subtotal(lines) = iter[S]
  BY DEF Subtotal, MapThenSumSet, MapThenFoldSet
<1>2. \A g : eqn(g) <=> AddsUp(g, f, S)
  <2> TAKE g
  <2>1. ASSUME NEW s \in SUBSET S, s # {}
        PROVE  f[Chosen(s)] = LineTotal(lines[CHOOSE x \in s : TRUE])
    BY <2>1 DEF Chosen
  <2> HIDE DEF f
  <2> QED BY <2>1 DEF AddsUp, Chosen
<1>3. f \in [S -> Nat] /\ IsFiniteSet(S)
  <2>1. \A x \in S : lines[x].quantity \in Nat /\ lines[x].price \in Nat
    BY DEF InCart, ItemRow
  <2>2. \A x \in S : LineTotal(lines[x]) \in Nat
    BY <2>1 DEF LineTotal
  <2>3. IsFiniteSet(S)
    BY LedgerAssumption, FS_Subset DEF InCart
  <2> QED BY <2>2, <2>3
<1> HIDE DEF f, S
<1>4. \E g : eqn(g)
  <2>1. PICK g : AddsUp(g, f, S)
    BY <1>3, SumExists
  <2> HIDE DEF eqn
  <2> QED BY <1>2, <2>1
<1>5. eqn(iter)
  BY <1>4
<1> HIDE DEF iter, eqn
<1>6. AddsUp(iter, f, S)
  BY <1>2, <1>5
<1> QED BY <1>1, <1>3, <1>6, AddsUpNat

(* So is its number of items. *)
LEMMA ItemCountNat ==
    ASSUME NEW lines \in [Product -> ItemRow \cup {Absent}]
    PROVE  ItemCount(lines) \in Nat
<1> DEFINE S == InCart(lines)
           f == [x \in S |-> lines[x].quantity]
           eqn(g) == g = [s \in SUBSET S |-> IF s = {} THEN 0
                                             ELSE lines[CHOOSE x \in s : TRUE].quantity
                                                    + g[s \ {CHOOSE x \in s : TRUE}]]
           iter == CHOOSE g : eqn(g)
<1>1. ItemCount(lines) = iter[S]
  BY DEF ItemCount, MapThenSumSet, MapThenFoldSet
<1>2. \A g : eqn(g) <=> AddsUp(g, f, S)
  <2> TAKE g
  <2>1. ASSUME NEW s \in SUBSET S, s # {}
        PROVE  f[Chosen(s)] = lines[CHOOSE x \in s : TRUE].quantity
    BY <2>1 DEF Chosen
  <2> HIDE DEF f
  <2> QED BY <2>1 DEF AddsUp, Chosen
<1>3. f \in [S -> Nat] /\ IsFiniteSet(S)
  <2>1. \A x \in S : lines[x].quantity \in Nat
    BY DEF InCart, ItemRow
  <2>2. IsFiniteSet(S)
    BY LedgerAssumption, FS_Subset DEF InCart
  <2> QED BY <2>1, <2>2
<1> HIDE DEF f, S
<1>4. \E g : eqn(g)
  <2>1. PICK g : AddsUp(g, f, S)
    BY <1>3, SumExists
  <2> HIDE DEF eqn
  <2> QED BY <1>2, <2>1
<1>5. eqn(iter)
  BY <1>4
<1> HIDE DEF iter, eqn
<1>6. AddsUp(iter, f, S)
  BY <1>2, <1>5
<1> QED BY <1>1, <1>3, <1>6, AddsUpNat
-----------------------------------------------------------------------------
(* The fields of an event, by its type. *)
LEMMA EventFields ==
    ASSUME NEW e \in Event
    PROVE  /\ e.type \in CartTypes \cup InsertTypes \cup {"product_viewed"}
           /\ e.type \in {"user_registered", "session_started"} => e.identity \in Identity
           /\ e.customer \in Customer
           /\ e.type \in CartTypes \cup {"session_started", "product_viewed"}
                => e.session \in Session
           /\ e.type \in CartTypes => e.cart \in Cart
           /\ e.type = "added_to_cart" =>
                e.product \in Product /\ e.quantity \in Nat \ {0} /\ e.price \in Nat
           /\ e.type \in {"checkout_started", "order_created"} =>
                e.subtotal \in Nat /\ e.discount \in Nat /\ e.subtotal - e.discount \in Nat
           /\ e.type \in PaymentTypes \cup {"order_created", "refund_requested"}
                => e.order \in Order
           /\ e.type \in PaymentTypes \cup {"refund_requested"} =>
                e.payment \in Payment /\ e.amount \in Nat \ {0}
           /\ e.type = "refund_requested" => e.refund \in Refund
<1>1. e \in EventShape /\ (e.type \in {"checkout_started", "order_created"}
                                => e.discount <= e.subtotal)
  BY LedgerAssumption
<1> USE DEF CartTypes, InsertTypes, PaymentTypes
<1>2. CASE e \in [type : {"user_registered"}, id : Nat, customer : Customer, identity : Identity]
  BY <1>2
<1>3. CASE e \in [type : {"session_started"}, id : Nat, session : Session, customer : Customer,
                  identity : Identity]
  BY <1>3
<1>4. CASE e \in [type : {"product_viewed"}, id : Nat, session : Session, customer : Customer]
  BY <1>4
<1>5. CASE e \in [type : {"added_to_cart"}, cart : Cart, customer : Customer,
                  session : Session, product : Product, quantity : Nat \ {0}, price : Nat]
  BY <1>5
<1>6. CASE e \in [type : {"checkout_started"}, cart : Cart, customer : Customer,
                  session : Session, count : Nat \ {0}, subtotal : Nat, discount : Nat]
  BY <1>1, <1>6
<1>7. CASE e \in [type : {"order_created"}, order : Order, cart : Cart,
                  customer : Customer, session : Session, count : Nat \ {0}, subtotal : Nat,
                  discount : Nat]
  BY <1>1, <1>7
<1>8. CASE e \in [type : {"payment_completed", "payment_failed"}, payment : Payment,
                  order : Order, customer : Customer, amount : Nat \ {0}]
  BY <1>8
<1>9. CASE e \in [type : {"refund_requested"}, refund : Refund, payment : Payment,
                  order : Order, customer : Customer, amount : Nat \ {0}]
  BY <1>9
<1> QED BY <1>1, <1>2, <1>3, <1>4, <1>5, <1>6, <1>7, <1>8, <1>9 DEF EventShape

(* The worker of a transaction has an event, and its key can be locked. *)
LEMMA TxEvent ==
    ASSUME TypeOK, NEW w \in Worker, FitsHandler(w), pc[w] # "idle"
    PROVE  /\ event[w] \in Event
           /\ event[w].type \in InsertTypes => NewKey(w) \in Lockable
<1>1. event[w] \in Event
  BY DEF TypeOK, FitsHandler
<1>2. event[w].type \in InsertTypes => NewKey(w) \in Lockable
  BY <1>1, EventFields DEF NewKey, Lockable, InsertTypes, PaymentTypes
<1> QED BY <1>1, <1>2

(* The two halves of the type invariant: the tables and the transactions. *)
TablesTyped ==
    /\ customers \in [Customer -> Identity \cup {Absent}]
    /\ sessions \in [Session -> (Customer \X Identity) \cup {Absent}]
    /\ views \subseteq Event
    /\ carts \in [Cart -> CartRow \cup {Absent}]
    /\ items \in [Cart -> [Product -> ItemRow \cup {Absent}]]
    /\ orders \in [Order -> OrderRow \cup {Absent}]
    /\ payments \in [Payment -> PaymentRow \cup {Absent}]
    /\ refunds \subseteq Refund
    /\ refunded \in [Payment -> Nat]

TxTyped ==
    /\ outcome \in [Event -> {"new", "applied", "integrity"}]
    /\ event \in [Worker -> Event \cup {NoEvent}]
    /\ pc \in [Worker -> PC]
    /\ seen \in [Worker -> Nat]
    /\ lock \in [Lockable -> Worker \cup {NoOne}]
    /\ budget \in 0 .. MaxFaults

(* What the tables keep, and what one transaction relies on. *)
RowsInv == CartTotals /\ OneOwner /\ RefundsCovered /\ OrderStatusBacked

Tx(w) == FitsHandler(w) /\ HoldsLocks(w) /\ ReadsStand(w)

(* The inductive invariant in these parts. *)
LEMMA Parts ==
    /\ LedgerIInv <=> TablesTyped /\ TxTyped /\ RowsInv /\ \A w \in Worker : Tx(w)
    /\ LedgerIInv' <=> TablesTyped' /\ TxTyped' /\ RowsInv' /\ \A w \in Worker : Tx(w)'
<1>1. LedgerIInv <=> TablesTyped /\ TxTyped /\ RowsInv /\ \A w \in Worker : Tx(w)
  BY DEF LedgerIInv, TypeOK, TablesTyped, TxTyped, RowsInv, TxInv, Tx
<1>2. LedgerIInv' <=> TablesTyped' /\ TxTyped' /\ RowsInv' /\ \A w \in Worker : Tx(w)'
  BY DEF LedgerIInv, TypeOK, TablesTyped, TxTyped, RowsInv, TxInv, Tx
<1> QED BY <1>1, <1>2

(* A row or key that a transaction has locked is not changed by others. *)
Untouched(r) ==
    /\ r \in Customer => customers'[r] = customers[r]
    /\ r \in Session => sessions'[r] = sessions[r]
    /\ r \in Cart => carts'[r] = carts[r]
    /\ r \in Order => orders'[r] = orders[r]
    /\ r \in Payment => payments'[r] = payments[r] /\ refunded'[r] = refunded[r]
    /\ r \in Refund => (r \in refunds' <=> r \in refunds)

(* Then a transaction that takes no step itself still stands. *)
LEMMA OtherTx ==
    ASSUME TypeOK, NEW v \in Worker, Tx(v),
           event'[v] = event[v], pc'[v] = pc[v], seen'[v] = seen[v],
           \A r \in Lockable : lock[r] = v => lock'[r] = v /\ Untouched(r)
    PROVE  Tx(v)'
<1> DEFINE e == event[v]
<1>1. FitsHandler(v)'
  BY DEF Tx, FitsHandler
<1>2. CASE pc[v] = "idle"
  BY <1>1, <1>2 DEF Tx, HoldsLocks, ReadsStand, Underway
<1>3. CASE pc[v] # "idle"
  <2>1. e \in Event
    BY <1>3, TxEvent DEF Tx
  <2>2. NewKey(v)' = NewKey(v)
    BY DEF NewKey
  <2>3. e.type \in InsertTypes => NewKey(v) \in Lockable
    BY <1>3, TxEvent DEF Tx
  <2>4. /\ e.type \in CartTypes => e.cart \in Lockable /\ e.cart \in Cart
        /\ e.type \in PaymentTypes \cup {"order_created", "refund_requested"}
              => e.order \in Lockable /\ e.order \in Order
        /\ e.type \in PaymentTypes \cup {"refund_requested"}
              => e.payment \in Lockable /\ e.payment \in Payment
    BY <2>1, EventFields DEF Lockable
  <2>5. HoldsLocks(v)'
    BY <2>2, <2>3, <2>4 DEF Tx, HoldsLocks, PaymentTypes
  <2>6. pc[v] \in {"order", "commit"} /\ e.type \in InsertTypes => (KeyTaken(v)' <=> KeyTaken(v))
    <3> SUFFICES ASSUME pc[v] \in {"order", "commit"}, e.type \in InsertTypes
                 PROVE  KeyTaken(v)' <=> KeyTaken(v)
      OBVIOUS
    <3>1. Untouched(NewKey(v))
      BY <2>3 DEF Tx, HoldsLocks
    <3> QED BY <2>1, <3>1, EventFields DEF Untouched, NewKey, KeyTaken, InsertTypes, PaymentTypes
  <2>7. pc[v] \in Underway =>
          /\ e.type \in CartTypes => carts'[e.cart] = carts[e.cart]
          /\ e.type \in PaymentTypes => orders'[e.order] = orders[e.order]
          /\ e.type = "refund_requested" => /\ payments'[e.payment] = payments[e.payment]
                                            /\ refunded'[e.payment] = refunded[e.payment]
    BY <2>4 DEF Tx, HoldsLocks, Untouched
  <2>8. ReadsStand(v)'
    BY <2>6, <2>7 DEF Tx, ReadsStand, CartMatches, CartTypes
  <2> QED BY <1>1, <2>5, <2>8 DEF Tx
<1> QED BY <1>2, <1>3

(* A step of w that only concerns its own transaction: it keeps the        *)
(* tables, and takes no lock from another.                                 *)
Private(w) ==
    /\ \A v \in Worker \ {w} : event'[v] = event[v] /\ pc'[v] = pc[v] /\ seen'[v] = seen[v]
    /\ \A v \in Worker \ {w}, r \in Lockable : lock[r] = v => lock'[r] = v

(* Without a write, only the transaction itself is to be looked at. *)
LEMMA NoWrite ==
    ASSUME LedgerIInv, NEW w \in Worker, UNCHANGED tables, TxTyped', Private(w), Tx(w)'
    PROVE  LedgerIInv'
<1>1. TablesTyped' /\ RowsInv'
  BY Parts DEF tables, TablesTyped, RowsInv, CartTotals, OneOwner, RefundsCovered,
       OrderStatusBacked
<1>2. ASSUME NEW v \in Worker PROVE Tx(v)'
  <2>1. CASE v = w
    BY <2>1
  <2>2. CASE v # w
    <3>1. \A r \in Lockable : Untouched(r)
      BY DEF tables, Untouched
    <3>2. TypeOK /\ Tx(v)
      BY Parts DEF LedgerIInv
    <3> QED BY <2>2, <3>1, <3>2, OtherTx DEF Private
  <2> QED BY <2>1, <2>2
<1> QED BY <1>1, <1>2, Parts

(* A transaction ends, by COMMIT or ROLLBACK. *)
LEMMA TxEnds ==
    ASSUME LedgerIInv, NEW w \in Worker, pc[w] # "idle",
           NEW result \in {"new", "applied", "integrity"}, EndTx(w, result),
           budget' \in 0 .. MaxFaults
    PROVE  TxTyped' /\ Private(w) /\ Tx(w)'
<1>1. event[w] \in Event
  BY TxEvent, Parts DEF LedgerIInv, Tx
<1>2. /\ outcome' = [outcome EXCEPT ![event[w]] = result]
      /\ event' = [event EXCEPT ![w] = NoEvent]
      /\ seen' = [seen EXCEPT ![w] = 0]
      /\ pc' = [pc EXCEPT ![w] = "idle"]
      /\ lock' = [r \in Lockable |-> IF lock[r] = w THEN NoOne ELSE lock[r]]
  BY DEF EndTx, Goto, Released
<1>3. TxTyped
  BY Parts
<1>4. TxTyped'
  BY <1>1, <1>2, <1>3 DEF TxTyped, PC
<1>5. Private(w)
  BY <1>2, <1>3 DEF TxTyped, Private
<1>6. Tx(w)'
  BY <1>2, <1>3 DEF TxTyped, Tx, FitsHandler, HoldsLocks, ReadsStand, Underway
<1> QED BY <1>4, <1>5, <1>6

(* The transaction is rolled back, or had nothing to write. *)
LEMMA Rollback ==
    ASSUME LedgerIInv, NEW w \in Worker, pc[w] # "idle", UNCHANGED tables,
           NEW result \in {"new", "applied", "integrity"}, EndTx(w, result),
           budget' \in 0 .. MaxFaults
    PROVE  LedgerIInv'
BY TxEnds, NoWrite

(* The transaction goes on, with a lock of r or without one. *)
LEMMA GoesOn ==
    ASSUME LedgerIInv, NEW w \in Worker, pc[w] # "idle", NEW l \in PC \ {"idle"}, Proceed(w, l),
           seen' \in [Worker -> Nat], \A v \in Worker \ {w} : seen'[v] = seen[v],
           \/ UNCHANGED lock
           \/ \E r \in Lockable : Acquire(w, r),
           budget' \in 0 .. MaxFaults
    PROVE  /\ UNCHANGED tables /\ UNCHANGED event /\ TxTyped' /\ Private(w)
           /\ pc'[w] = l
           /\ \A r \in Lockable : lock[r] = w => lock'[r] = w
<1>1. /\ pc' = [pc EXCEPT ![w] = l]
      /\ UNCHANGED <<tables, outcome, event>>
  BY DEF Proceed, Goto
<1>2. TxTyped
  BY Parts
<1>3. lock' \in [Lockable -> Worker \cup {NoOne}] /\ \A r \in Lockable : lock'[r] # lock[r] => lock[r] = NoOne /\ lock'[r] = w
  BY <1>2 DEF TxTyped, Acquire
<1>4. TxTyped'
  BY <1>1, <1>2, <1>3 DEF TxTyped
<1>5. Private(w)
  BY <1>1, <1>2, <1>3, LedgerAssumption DEF TxTyped, Private
<1> QED BY <1>1, <1>2, <1>3, <1>4, <1>5, LedgerAssumption DEF TxTyped
-----------------------------------------------------------------------------
(* What holds of a worker whose transaction is at its first statement. *)
LEMMA AtFirst ==
    ASSUME LedgerIInv, NEW w \in Worker, NEW T, First(w, T)
    PROVE  pc[w] = "begin" /\ event[w] \in Event /\ event[w].type \in T
<1>1. pc[w] = "begin" /\ event[w].type \in T
  BY DEF First
<1> QED BY <1>1, TxEvent, Parts DEF LedgerIInv, Tx

(* The rows and keys of an event are lockable. *)
LEMMA EventLocks ==
    ASSUME NEW e \in Event
    PROVE  /\ e.type \in CartTypes => e.cart \in Lockable
           /\ e.type \in PaymentTypes \cup {"order_created", "refund_requested"}
                => e.order \in Lockable
           /\ e.type \in PaymentTypes \cup {"refund_requested"} => e.payment \in Lockable
BY EventFields DEF Lockable

(* A transaction starts. *)
LEMMA BeginStep ==
    ASSUME LedgerIInv, NEW w \in Worker, NEW e \in Event, Begin(w, e)
    PROVE  LedgerIInv'
<1>1. /\ pc[w] = "idle" /\ event' = [event EXCEPT ![w] = e] /\ pc' = [pc EXCEPT ![w] = "begin"]
      /\ UNCHANGED <<tables, outcome, seen, lock, budget>>
  BY DEF Begin, Goto
<1>2. TxTyped /\ e # NoEvent
  BY Parts, LedgerAssumption
<1>3. TxTyped' /\ Private(w)
  BY <1>1, <1>2 DEF TxTyped, Private, PC
<1>4. Tx(w)'
  BY <1>1, <1>2 DEF TxTyped, Tx, FitsHandler, HoldsLocks, ReadsStand, Underway
<1> QED BY <1>1, <1>3, <1>4, NoWrite

(* The statements that read without a lock. *)
LEMMA ReadStep ==
    ASSUME LedgerIInv, NEW w \in Worker, RegisterRead(w) \/ SessionRead(w) \/ ViewRead(w)
    PROVE  LedgerIInv'
<1>1. /\ pc[w] = "begin" /\ event[w] \in Event
      /\ event[w].type \in {"user_registered", "session_started", "product_viewed"}
      /\ UNCHANGED budget
  BY AtFirst DEF RegisterRead, SessionRead, ViewRead
<1>2. budget' \in 0 .. MaxFaults
  BY <1>1, Parts DEF TxTyped
<1>3. \/ \E result \in {"new", "applied", "integrity"} :
            EndTx(w, result) /\ UNCHANGED tables
      \/ /\ UNCHANGED <<lock, seen>>
         /\ \/ Proceed(w, "insert") /\ event[w].type \in {"user_registered", "session_started"}
            \/ Proceed(w, "commit") /\ event[w].type = "product_viewed"
  BY DEF RegisterRead, SessionRead, ViewRead, First, Missing, Reject, Unneeded
<1>4. ASSUME NEW result \in {"new", "applied", "integrity"},
             EndTx(w, result) /\ UNCHANGED tables
      PROVE  LedgerIInv'
  BY <1>1, <1>2, <1>4, Rollback
<1>5. ASSUME NEW l \in {"insert", "commit"}, Proceed(w, l), UNCHANGED <<lock, seen>>,
             IF l = "insert" THEN event[w].type \in {"user_registered", "session_started"}
                             ELSE event[w].type = "product_viewed"
      PROVE  LedgerIInv'
  <2>1. l \in PC \ {"idle"} /\ seen' \in [Worker -> Nat]
    BY <1>5, Parts DEF PC, TxTyped
  <2>2. /\ UNCHANGED tables /\ UNCHANGED event /\ TxTyped' /\ Private(w) /\ pc'[w] = l
    BY <1>1, <1>2, <1>5, <2>1, GoesOn
  <2>3. event[w] # NoEvent
    BY <1>1, LedgerAssumption
  <2>4. Tx(w)'
    BY <1>5, <2>2, <2>3 DEF Tx, FitsHandler, HoldsLocks, ReadsStand, Underway, CartTypes,
         PaymentTypes, InsertTypes
  <2> QED BY <2>2, <2>4, NoWrite
<1> QED BY <1>3, <1>4, <1>5

(* The first statement of a cart, payment or refund event, which locks the *)
(* row r before it compares it.                                            *)
LEMMA LockStep ==
    ASSUME LedgerIInv, NEW w \in Worker,
           ItemRead(w) \/ CartRead(w) \/ OrderRead(w) \/ PaymentRead(w)
    PROVE  LedgerIInv'
<1> DEFINE e == event[w]
<1>1. /\ pc[w] = "begin" /\ e \in Event /\ UNCHANGED budget
      /\ e.type \in CartTypes \cup PaymentTypes \cup {"refund_requested"}
  BY AtFirst DEF ItemRead, CartRead, OrderRead, PaymentRead, CartTypes, PaymentTypes
<1>2. budget' \in 0 .. MaxFaults
  BY <1>1, Parts DEF TxTyped
<1>3. \/ \E result \in {"new", "applied", "integrity"} :
            EndTx(w, result) /\ UNCHANGED tables
      \/ /\ e.type = "added_to_cart"
         /\ Acquire(w, e.cart) /\ Proceed(w, "commit") /\ UNCHANGED seen
      \/ /\ e.type \in {"checkout_started", "order_created"}
         /\ carts[e.cart] # Absent /\ CartMatches(carts[e.cart], e)
         /\ Acquire(w, e.cart) /\ UNCHANGED seen
         /\ Proceed(w, IF e.type = "checkout_started" THEN "commit" ELSE "insert")
      \/ /\ e.type \in PaymentTypes
         /\ orders[e.order] # Absent /\ orders[e.order].customer = e.customer
         /\ orders[e.order].total = e.amount
         /\ Acquire(w, e.order) /\ Proceed(w, "insert") /\ UNCHANGED seen
      \/ /\ e.type = "refund_requested"
         /\ payments[e.payment] # Absent /\ payments[e.payment].status # "failed"
         /\ payments[e.payment].order = e.order
         /\ Acquire(w, e.payment) /\ Proceed(w, "sum") /\ UNCHANGED seen
  BY DEF ItemRead, CartRead, OrderRead, PaymentRead, First, Missing, Reject, PaymentTypes
<1>4. ASSUME NEW result \in {"new", "applied", "integrity"},
             EndTx(w, result) /\ UNCHANGED tables
      PROVE  LedgerIInv'
  BY <1>1, <1>2, <1>4, Rollback
<1>5. ASSUME NEW l \in {"insert", "commit", "sum"}, NEW r \in Lockable,
             Proceed(w, l), Acquire(w, r), UNCHANGED seen
      PROVE  /\ UNCHANGED <<tables, event, seen>> /\ TxTyped' /\ Private(w) /\ pc'[w] = l
             /\ lock'[r] = w /\ e # NoEvent
  <2>1. l \in PC \ {"idle"} /\ seen' \in [Worker -> Nat]
    BY <1>5, Parts DEF PC, TxTyped
  <2>2. lock'[r] = w
    BY <1>5, Parts DEF TxTyped, Acquire
  <2>3. /\ UNCHANGED tables /\ UNCHANGED event /\ TxTyped' /\ Private(w) /\ pc'[w] = l
    BY <1>1, <1>2, <1>5, <2>1, GoesOn
  <2> QED BY <1>1, <1>5, <2>2, <2>3, LedgerAssumption
<1> USE DEF Tx, FitsHandler, HoldsLocks, ReadsStand, Underway, CartTypes, PaymentTypes,
            InsertTypes
<1>6. CASE /\ e.type = "added_to_cart"
           /\ Acquire(w, e.cart) /\ Proceed(w, "commit") /\ UNCHANGED seen
  <2>1. /\ UNCHANGED <<tables, event, seen>> /\ TxTyped' /\ Private(w) /\ pc'[w] = "commit"
        /\ lock'[e.cart] = w /\ e # NoEvent
    BY <1>1, <1>5, <1>6, EventLocks
  <2>2. Tx(w)'
    BY <1>6, <2>1
  <2> QED BY <2>1, <2>2, NoWrite
<1>7. CASE /\ e.type \in {"checkout_started", "order_created"}
           /\ carts[e.cart] # Absent /\ CartMatches(carts[e.cart], e)
           /\ Acquire(w, e.cart) /\ UNCHANGED seen
           /\ Proceed(w, IF e.type = "checkout_started" THEN "commit" ELSE "insert")
  <2>1. /\ UNCHANGED <<tables, event, seen>> /\ TxTyped' /\ Private(w)
        /\ pc'[w] = IF e.type = "checkout_started" THEN "commit" ELSE "insert"
        /\ lock'[e.cart] = w /\ e # NoEvent
    BY <1>1, <1>5, <1>7, EventLocks
  <2>2. Tx(w)'
    BY <1>7, <2>1 DEF tables, CartMatches
  <2> QED BY <2>1, <2>2, NoWrite
<1>8. CASE /\ e.type \in PaymentTypes
           /\ orders[e.order] # Absent /\ orders[e.order].customer = e.customer
           /\ orders[e.order].total = e.amount
           /\ Acquire(w, e.order) /\ Proceed(w, "insert") /\ UNCHANGED seen
  <2>1. /\ UNCHANGED <<tables, event, seen>> /\ TxTyped' /\ Private(w) /\ pc'[w] = "insert"
        /\ lock'[e.order] = w /\ e # NoEvent
    BY <1>1, <1>5, <1>8, EventLocks
  <2>2. Tx(w)'
    BY <1>8, <2>1 DEF tables
  <2> QED BY <2>1, <2>2, NoWrite
<1>9. CASE /\ e.type = "refund_requested"
           /\ payments[e.payment] # Absent /\ payments[e.payment].status # "failed"
           /\ payments[e.payment].order = e.order
           /\ Acquire(w, e.payment) /\ Proceed(w, "sum") /\ UNCHANGED seen
  <2>1. /\ UNCHANGED <<tables, event, seen>> /\ TxTyped' /\ Private(w) /\ pc'[w] = "sum"
        /\ lock'[e.payment] = w /\ e # NoEvent
    BY <1>1, <1>5, <1>9, EventLocks
  <2>2. Tx(w)'
    BY <1>9, <2>1 DEF tables
  <2> QED BY <2>1, <2>2, NoWrite
<1> QED BY <1>3, <1>4, <1>6, <1>7, <1>8, <1>9

(* SELECT SUM: nobody else changes it while the payment is locked. *)
LEMMA SumStep ==
    ASSUME LedgerIInv, NEW w \in Worker, RefundSum(w)
    PROVE  LedgerIInv'
<1> DEFINE e == event[w]
<1>1. pc[w] = "sum" /\ UNCHANGED budget
  BY DEF RefundSum
<1>2. /\ TypeOK /\ Tx(w) /\ TxTyped /\ TablesTyped
  BY Parts DEF LedgerIInv
<1>3. /\ e \in Event /\ e.type = "refund_requested" /\ budget' \in 0 .. MaxFaults
      /\ e # NoEvent
  BY <1>1, <1>2, TxEvent, LedgerAssumption DEF Tx, FitsHandler, TxTyped
<1>4. e.payment \in Payment /\ refunded[e.payment] \in Nat
  BY <1>2, <1>3, EventFields DEF TablesTyped
<1>5. \/ EndTx(w, "integrity") /\ UNCHANGED tables
      \/ /\ refunded[e.payment] + e.amount <= payments[e.payment].amount
         /\ seen' = [seen EXCEPT ![w] = refunded[e.payment]]
         /\ Proceed(w, "insert") /\ UNCHANGED lock
  BY DEF RefundSum, Reject
<1>6. CASE EndTx(w, "integrity") /\ UNCHANGED tables
  BY <1>1, <1>3, <1>6, Rollback
<1>7. CASE /\ refunded[e.payment] + e.amount <= payments[e.payment].amount
           /\ seen' = [seen EXCEPT ![w] = refunded[e.payment]]
           /\ Proceed(w, "insert") /\ UNCHANGED lock
  <2>1. /\ "insert" \in PC \ {"idle"} /\ seen' \in [Worker -> Nat]
        /\ seen'[w] = refunded[e.payment]
        /\ \A v \in Worker \ {w} : seen'[v] = seen[v]
    BY <1>2, <1>4, <1>7 DEF PC, TxTyped
  <2>2. /\ UNCHANGED tables /\ UNCHANGED event /\ TxTyped' /\ Private(w) /\ pc'[w] = "insert"
    BY <1>1, <1>3, <1>7, <2>1, GoesOn
  <2>3. Tx(w)'
    BY <1>1, <1>2, <1>3, <1>7, <2>1, <2>2
      DEF Tx, FitsHandler, HoldsLocks, ReadsStand, Underway, CartTypes, PaymentTypes,
          InsertTypes, tables
  <2> QED BY <2>2, <2>3, NoWrite
<1> QED BY <1>5, <1>6, <1>7

(* The INSERT takes its key, or finds it taken. *)
LEMMA InsertStep ==
    ASSUME LedgerIInv, NEW w \in Worker, InsertRow(w)
    PROVE  LedgerIInv'
<1> DEFINE e == event[w]
           l == IF e.type = "refund_requested" THEN "order" ELSE "commit"
<1>1. pc[w] = "insert" /\ UNCHANGED budget
  BY DEF InsertRow
<1>2. /\ TypeOK /\ Tx(w) /\ TxTyped
  BY Parts DEF LedgerIInv
<1>3. /\ e \in Event /\ e.type \in InsertTypes /\ budget' \in 0 .. MaxFaults
      /\ e # NoEvent /\ NewKey(w) \in Lockable
  BY <1>1, <1>2, TxEvent, LedgerAssumption DEF Tx, FitsHandler, TxTyped
<1>4. \/ EndTx(w, "integrity") /\ UNCHANGED tables
      \/ ~KeyTaken(w) /\ Acquire(w, NewKey(w)) /\ Proceed(w, l) /\ UNCHANGED seen
  BY DEF InsertRow, Reject
<1>5. CASE EndTx(w, "integrity") /\ UNCHANGED tables
  BY <1>1, <1>3, <1>5, Rollback
<1>6. CASE ~KeyTaken(w) /\ Acquire(w, NewKey(w)) /\ Proceed(w, l) /\ UNCHANGED seen
  <2>1. l \in PC \ {"idle"} /\ seen' \in [Worker -> Nat] /\ l \in {"order", "commit"}
    BY <1>2, <1>6 DEF PC, TxTyped
  <2>2. /\ UNCHANGED tables /\ UNCHANGED event /\ TxTyped' /\ Private(w) /\ pc'[w] = l
        /\ \A r \in Lockable : lock[r] = w => lock'[r] = w
    BY <1>1, <1>3, <1>6, <2>1, GoesOn
  <2>3. lock'[NewKey(w)] = w /\ NewKey(w)' = NewKey(w)
    BY <1>2, <1>3, <1>6, <2>2 DEF TxTyped, Acquire, NewKey
  <2>4. ~KeyTaken(w)'
    BY <1>6, <2>2 DEF KeyTaken, tables
  <2>5. FitsHandler(w)'
    BY <1>3, <2>1, <2>2 DEF FitsHandler
  <2>6. HoldsLocks(w)'
    BY <1>1, <1>2, <1>3, <2>1, <2>2, <2>3, EventLocks
      DEF Tx, HoldsLocks, Underway, CartTypes, PaymentTypes
  <2>7. ReadsStand(w)'
    BY <1>1, <1>2, <1>6, <2>2, <2>4 DEF Tx, ReadsStand, Underway, CartMatches, tables
  <2> QED BY <2>2, <2>5, <2>6, <2>7, NoWrite DEF Tx
<1> QED BY <1>4, <1>5, <1>6

(* The refund locks its order. *)
LEMMA OrderStep ==
    ASSUME LedgerIInv, NEW w \in Worker, RefundOrder(w)
    PROVE  LedgerIInv'
<1> DEFINE e == event[w]
<1>1. /\ pc[w] = "order" /\ UNCHANGED <<seen, budget>>
      /\ Acquire(w, e.order) /\ Proceed(w, "commit")
  BY DEF RefundOrder
<1>2. /\ TypeOK /\ Tx(w) /\ TxTyped
  BY Parts DEF LedgerIInv
<1>3. /\ e \in Event /\ e.type = "refund_requested" /\ budget' \in 0 .. MaxFaults
      /\ e # NoEvent /\ NewKey(w) \in Lockable
  BY <1>1, <1>2, TxEvent, LedgerAssumption DEF Tx, FitsHandler, TxTyped, InsertTypes
<1>4. e.order \in Lockable /\ e.payment \in Lockable
  BY <1>3, EventLocks
<1>5. "commit" \in PC \ {"idle"} /\ seen' \in [Worker -> Nat]
  BY <1>1, <1>2 DEF PC, TxTyped
<1>6. /\ UNCHANGED tables /\ UNCHANGED event /\ TxTyped' /\ Private(w) /\ pc'[w] = "commit"
      /\ \A r \in Lockable : lock[r] = w => lock'[r] = w
  BY <1>1, <1>3, <1>4, <1>5, GoesOn
<1>7. lock'[e.order] = w /\ NewKey(w)' = NewKey(w)
  BY <1>1, <1>2, <1>4, <1>6 DEF TxTyped, Acquire, NewKey
<1>8. FitsHandler(w)'
  BY <1>3, <1>6 DEF FitsHandler
<1>9. HoldsLocks(w)'
  BY <1>1, <1>2, <1>3, <1>4, <1>6, <1>7
    DEF Tx, HoldsLocks, Underway, CartTypes, PaymentTypes, InsertTypes
<1>10. ReadsStand(w)'
  <2>1. KeyTaken(w)' <=> KeyTaken(w)
    BY <1>6 DEF KeyTaken, tables
  <2> QED BY <1>1, <1>2, <1>3, <1>6, <2>1
            DEF Tx, ReadsStand, Underway, CartMatches, tables, PaymentTypes
<1> QED BY <1>6, <1>8, <1>9, <1>10, NoWrite DEF Tx

(* The connection is lost, or a statement times out. *)
LEMMA FailStep ==
    ASSUME LedgerIInv, NEW w \in Worker, TxFails(w)
    PROVE  LedgerIInv'
<1>1. pc[w] # "idle" /\ budget' \in 0 .. MaxFaults
  BY Parts, LedgerAssumption DEF TxFails, TxTyped
<1>2. \E result \in {"new", "applied", "integrity"} : EndTx(w, result) /\ UNCHANGED tables
  BY DEF TxFails, Reject
<1> QED BY <1>1, <1>2, Rollback
-----------------------------------------------------------------------------
(* What a transaction knows when it commits. *)
LEMMA AtCommit ==
    ASSUME LedgerIInv, NEW w \in Worker, pc[w] = "commit"
    PROVE  /\ event[w] \in Event /\ TablesTyped /\ RowsInv
           /\ event[w].type \in CartTypes => lock[event[w].cart] = w
           /\ event[w].type \in PaymentTypes \cup {"refund_requested"}
                => lock[event[w].order] = w
           /\ event[w].type = "refund_requested" => lock[event[w].payment] = w
           /\ event[w].type \in InsertTypes => lock[NewKey(w)] = w /\ ~KeyTaken(w)
<1>1. TypeOK /\ Tx(w) /\ TablesTyped /\ RowsInv
  BY Parts DEF LedgerIInv
<1>2. event[w] \in Event
  BY <1>1, TxEvent DEF Tx
<1> QED BY <1>1, <1>2 DEF Tx, HoldsLocks, ReadsStand, Underway

(* A commit that only changes rows w has locked, and leaves the tables     *)
(* consistent, disturbs no other transaction.                              *)
LEMMA CommitApplied ==
    ASSUME LedgerIInv, NEW w \in Worker, pc[w] = "commit", EndTx(w, "applied"),
           UNCHANGED budget, TablesTyped', RowsInv',
           \A r \in Lockable : lock[r] # w => Untouched(r)
    PROVE  LedgerIInv'
<1>1. budget' \in 0 .. MaxFaults
  BY Parts DEF TxTyped
<1>2. TxTyped' /\ Private(w) /\ Tx(w)'
  BY <1>1, TxEnds
<1>3. ASSUME NEW v \in Worker PROVE Tx(v)'
  <2>1. CASE v = w
    BY <1>2, <2>1
  <2>2. CASE v # w
    <3>1. \A r \in Lockable : lock[r] = v => lock'[r] = v /\ Untouched(r)
      BY <1>2, <2>2 DEF Private
    <3>2. TypeOK /\ Tx(v)
      BY Parts DEF LedgerIInv
    <3> QED BY <1>2, <2>2, <3>1, <3>2, OtherTx DEF Private
  <2> QED BY <2>1, <2>2
<1> QED BY <1>2, <1>3, Parts

(* A new customer or session, or a view.  The key was free, so no identity *)
(* is overwritten.                                                         *)
LEMMA IdentityCommit ==
    ASSUME LedgerIInv, NEW w \in Worker, pc[w] = "commit", EndTx(w, "applied"),
           UNCHANGED budget, WriteIdentity(event[w]),
           UNCHANGED <<carts, items, orders, payments, refunds, refunded>>
    PROVE  /\ LedgerIInv'
           /\ \A c \in Customer : customers[c] # Absent => customers'[c] = customers[c]
           /\ \A s \in Session : sessions[s] # Absent => sessions'[s] = sessions[s]
<1> DEFINE e == event[w]
<1>1. /\ e \in Event /\ TablesTyped /\ RowsInv
      /\ e.type \in InsertTypes => lock[NewKey(w)] = w /\ ~KeyTaken(w)
  BY AtCommit
<1>2. RowsInv'
  BY <1>1 DEF RowsInv, CartTotals, OneOwner, RefundsCovered, OrderStatusBacked
<1>3. CASE /\ e.type = "user_registered"
           /\ customers' = [customers EXCEPT ![e.customer] = e.identity]
           /\ UNCHANGED <<sessions, views>>
  <2>1. e.customer \in Customer /\ e.identity \in Identity
    BY <1>1, <1>3, EventFields
  <2>2. lock[e.customer] = w /\ customers[e.customer] = Absent
    BY <1>1, <1>3 DEF InsertTypes, NewKey, KeyTaken
  <2>3. TablesTyped'
    BY <1>1, <1>3, <2>1 DEF TablesTyped
  <2>4. \A c \in Customer : c # e.customer => customers'[c] = customers[c]
    BY <1>1, <1>3 DEF TablesTyped
  <2>5. \A r \in Lockable : lock[r] # w => Untouched(r)
    BY <1>3, <2>2, <2>4 DEF Untouched
  <2>6. LedgerIInv'
    BY <1>2, <2>3, <2>5, CommitApplied
  <2> QED BY <1>3, <2>2, <2>4, <2>6
<1>4. CASE /\ e.type = "session_started"
           /\ sessions' = [sessions EXCEPT ![e.session] = <<e.customer, e.identity>>]
           /\ UNCHANGED <<customers, views>>
  <2>1. e.session \in Session /\ e.customer \in Customer /\ e.identity \in Identity
    BY <1>1, <1>4, EventFields
  <2>2. lock[e.session] = w /\ sessions[e.session] = Absent
    BY <1>1, <1>4 DEF InsertTypes, NewKey, KeyTaken
  <2>3. TablesTyped'
    BY <1>1, <1>4, <2>1 DEF TablesTyped
  <2>4. \A s \in Session : s # e.session => sessions'[s] = sessions[s]
    BY <1>1, <1>4 DEF TablesTyped
  <2>5. \A r \in Lockable : lock[r] # w => Untouched(r)
    BY <1>4, <2>2, <2>4 DEF Untouched
  <2>6. LedgerIInv'
    BY <1>2, <2>3, <2>5, CommitApplied
  <2> QED BY <1>4, <2>2, <2>4, <2>6
<1>5. CASE views' = views \cup {e} /\ UNCHANGED <<customers, sessions>>
  <2>1. TablesTyped'
    BY <1>1, <1>5 DEF TablesTyped
  <2>2. \A r \in Lockable : Untouched(r)
    BY <1>5 DEF Untouched
  <2>3. LedgerIInv'
    BY <1>2, <2>1, <2>2, CommitApplied
  <2> QED BY <1>5, <2>3
<1> QED BY <1>3, <1>4, <1>5 DEF WriteIdentity

(* A row that is there is a row. *)
LEMMA RowTypes ==
    ASSUME TablesTyped
    PROVE  /\ \A k \in Cart : carts[k] # Absent => carts[k] \in CartRow
           /\ \A o \in Order : orders[o] # Absent => orders[o] \in OrderRow
           /\ \A p \in Payment : payments[p] # Absent => payments[p] \in PaymentRow
           /\ \A row \in CartRow \cup OrderRow \cup PaymentRow : row # Absent
BY LedgerAssumption DEF TablesTyped

(* An item is added to a cart that this transaction has locked. *)
LEMMA ItemCommit ==
    ASSUME LedgerIInv, NEW w \in Worker, pc[w] = "commit", EndTx(w, "applied"),
           UNCHANGED budget, WriteItem(event[w]),
           UNCHANGED <<customers, sessions, views, payments, refunds, refunded>>
    PROVE  LedgerIInv'
<1> DEFINE e == event[w]
           lines == NewLines(e)
           row == CartBefore(e)
           new == CartAfter(e)
<1>1. /\ e.type = "added_to_cart" /\ ~CartRefuses(e)
      /\ carts' = [carts EXCEPT ![e.cart] = new]
      /\ items' = [items EXCEPT ![e.cart] = lines]
      /\ UNCHANGED orders
  BY DEF WriteItem
<1>2. /\ e \in Event /\ TablesTyped /\ RowsInv /\ lock[e.cart] = w
  BY <1>1, AtCommit DEF CartTypes
<1>3. /\ e.cart \in Cart /\ e.customer \in Customer /\ e.session \in Session
      /\ e.product \in Product /\ e.quantity \in Nat \ {0} /\ e.price \in Nat
  BY <1>1, <1>2, EventFields DEF CartTypes
<1>4. lines \in [Product -> ItemRow \cup {Absent}]
  BY <1>2, <1>3 DEF NewLines, TablesTyped, ItemRow
<1>5. row \in CartRow /\ (carts[e.cart] # Absent => row = carts[e.cart])
  BY <1>2, <1>3, RowTypes DEF CartBefore, CartRow
<1>6. Subtotal(lines) \in Nat /\ ItemCount(lines) \in Nat
  BY <1>4, SubtotalNat, ItemCountNat
<1>7. new = [row EXCEPT !.subtotal = Subtotal(lines),
                        !.total = Subtotal(lines) - row.discount,
                        !.count = ItemCount(lines)]
  BY DEF CartAfter
<1>8. ~(new.total < 0)
  BY <1>1 DEF CartRefuses
<1> HIDE DEF lines, row, new
<1>9. /\ new \in CartRow /\ new.subtotal = Subtotal(lines) /\ new.count = ItemCount(lines)
      /\ new.total = new.subtotal - new.discount
      /\ new.customer = row.customer
  <2> DEFINE sum == Subtotal(lines)
             num == ItemCount(lines)
  <2>1. new = [row EXCEPT !.subtotal = sum, !.total = sum - row.discount, !.count = num]
    BY <1>7
  <2>2. sum \in Nat /\ num \in Nat
    BY <1>6
  <2> HIDE DEF sum, num
  <2>3. row.discount \in Nat /\ row = [customer |-> row.customer, session |-> row.session,
            status |-> row.status, subtotal |-> row.subtotal, discount |-> row.discount,
            total |-> row.total, count |-> row.count]
    BY <1>5 DEF CartRow
  <2>4. new = [customer |-> row.customer, session |-> row.session, status |-> row.status,
               subtotal |-> sum, discount |-> row.discount, total |-> sum - row.discount,
               count |-> num]
    BY <2>1, <2>3
  <2>5. sum - row.discount \in Nat
    BY <1>8, <2>2, <2>3, <2>4
  <2>6. new \in CartRow
    BY <1>5, <2>2, <2>4, <2>5 DEF CartRow
  <2> QED BY <2>4, <2>6 DEF sum, num
<1>10. /\ carts'[e.cart] = new /\ items'[e.cart] = lines
       /\ \A k \in Cart \ {e.cart} : carts'[k] = carts[k] /\ items'[k] = items[k]
  BY <1>1, <1>2, <1>3 DEF TablesTyped
<1>11. TablesTyped'
  BY <1>1, <1>2, <1>3, <1>4, <1>9 DEF TablesTyped
<1>12. CartTotals'
  BY <1>2, <1>9, <1>10 DEF RowsInv, CartTotals
<1>13. OneOwner'
  <2>1. ASSUME NEW o \in Order, orders[o] # Absent
        PROVE  /\ carts'[orders[o].cart] # Absent
               /\ carts'[orders[o].cart].customer = orders[o].customer
    <3>1. /\ carts[orders[o].cart] # Absent /\ orders[o].cart \in Cart
          /\ carts[orders[o].cart].customer = orders[o].customer
      BY <1>2, <2>1, RowTypes DEF RowsInv, OneOwner, OrderRow
    <3> QED BY <1>2, <1>5, <1>9, <1>10, <3>1, RowTypes
  <2> QED BY <1>1, <1>2, <2>1 DEF RowsInv, OneOwner
<1>14. RefundsCovered' /\ OrderStatusBacked'
  BY <1>1, <1>2 DEF RowsInv, RefundsCovered, OrderStatusBacked
<1>15. \A r \in Lockable : lock[r] # w => Untouched(r)
  BY <1>1, <1>2, <1>10 DEF Untouched
<1> QED BY <1>11, <1>12, <1>13, <1>14, <1>15, CommitApplied DEF RowsInv

(* A checkout writes the discount to the cart it has compared. *)
LEMMA CheckoutCommit ==
    ASSUME LedgerIInv, NEW w \in Worker, pc[w] = "commit", EndTx(w, "applied"),
           UNCHANGED budget, WriteCheckout(event[w]),
           UNCHANGED <<customers, sessions, views, payments, refunds, refunded>>
    PROVE  LedgerIInv'
<1> DEFINE e == event[w]
           row == carts[e.cart]
<1>1. /\ e.type = "checkout_started" /\ UNCHANGED <<items, orders>>
      /\ carts' = [carts EXCEPT ![e.cart].status = "checkout_started",
                                ![e.cart].discount = e.discount,
                                ![e.cart].total = e.subtotal - e.discount]
  BY DEF WriteCheckout
<1>2. /\ e \in Event /\ TablesTyped /\ RowsInv /\ lock[e.cart] = w
  BY <1>1, AtCommit DEF CartTypes
<1>3. /\ e.cart \in Cart /\ e.discount \in Nat /\ e.subtotal - e.discount \in Nat
  BY <1>1, <1>2, EventFields DEF CartTypes
<1>4. row # Absent /\ row.subtotal = e.subtotal
  BY <1>1, Parts DEF Tx, ReadsStand, Underway, CartMatches
<1>5. row \in CartRow
  BY <1>2, <1>3, <1>4, RowTypes
<1>6. /\ carts'[e.cart] \in CartRow
      /\ carts'[e.cart].customer = row.customer
      /\ carts'[e.cart].subtotal = row.subtotal /\ carts'[e.cart].count = row.count
      /\ carts'[e.cart].total = carts'[e.cart].subtotal - carts'[e.cart].discount
      /\ \A k \in Cart \ {e.cart} : carts'[k] = carts[k]
  BY <1>1, <1>2, <1>3, <1>4, <1>5 DEF TablesTyped, CartRow
<1> HIDE DEF row
<1>7. TablesTyped'
  <2>1. DOMAIN carts' = Cart /\ carts' = [k \in Cart |-> carts'[k]]
    BY <1>1, <1>2 DEF TablesTyped
  <2>2. \A k \in Cart : carts'[k] \in CartRow \cup {Absent}
    BY <1>2, <1>6 DEF TablesTyped
  <2>3. carts' \in [Cart -> CartRow \cup {Absent}]
    BY <2>1, <2>2
  <2> QED BY <1>1, <1>2, <2>3 DEF TablesTyped
<1>8. CartTotals'
  BY <1>1, <1>2, <1>4, <1>6 DEF RowsInv, CartTotals, row
<1>9. OneOwner'
  <2>1. ASSUME NEW o \in Order, orders[o] # Absent
        PROVE  /\ carts'[orders[o].cart] # Absent
               /\ carts'[orders[o].cart].customer = orders[o].customer
    <3>1. /\ carts[orders[o].cart] # Absent /\ orders[o].cart \in Cart
          /\ carts[orders[o].cart].customer = orders[o].customer
      BY <1>2, <2>1, RowTypes DEF RowsInv, OneOwner, OrderRow
    <3> QED BY <1>2, <1>6, <3>1, RowTypes DEF row
  <2> QED BY <1>1, <1>2, <2>1 DEF RowsInv, OneOwner
<1>10. RefundsCovered' /\ OrderStatusBacked'
  BY <1>1, <1>2 DEF RowsInv, RefundsCovered, OrderStatusBacked
<1>11. \A r \in Lockable : lock[r] # w => Untouched(r)
  BY <1>1, <1>2, <1>6 DEF Untouched
<1> QED BY <1>7, <1>8, <1>9, <1>10, <1>11, CommitApplied DEF RowsInv

(* An order is made of the cart it has compared, under a key that was      *)
(* free: no payment refers to it yet.                                      *)
LEMMA OrderCommit ==
    ASSUME LedgerIInv, NEW w \in Worker, pc[w] = "commit", EndTx(w, "applied"),
           UNCHANGED budget, WriteOrder(event[w]),
           UNCHANGED <<customers, sessions, views, payments, refunds, refunded>>
    PROVE  LedgerIInv'
<1> DEFINE e == event[w]
           row == carts[e.cart]
           new == [customer |-> e.customer, session |-> e.session, cart |-> e.cart,
                   total |-> e.subtotal - e.discount, status |-> "created"]
<1>1. /\ e.type = "order_created" /\ UNCHANGED items
      /\ carts' = [carts EXCEPT ![e.cart].status = "ordered"]
      /\ orders' = [orders EXCEPT ![e.order] = new]
  BY DEF WriteOrder
<1>2. /\ e \in Event /\ TablesTyped /\ RowsInv /\ lock[e.cart] = w
      /\ lock[e.order] = w /\ orders[e.order] = Absent
  BY <1>1, AtCommit DEF CartTypes, InsertTypes, NewKey, KeyTaken
<1>3. /\ e.cart \in Cart /\ e.order \in Order /\ e.customer \in Customer
      /\ e.session \in Session /\ e.subtotal - e.discount \in Nat
  BY <1>1, <1>2, EventFields DEF CartTypes
<1>4. row # Absent /\ row.customer = e.customer
  BY <1>1, Parts DEF Tx, ReadsStand, Underway, CartMatches
<1>5. row \in CartRow /\ new \in OrderRow /\ new # Absent
  BY <1>2, <1>3, <1>4, RowTypes DEF OrderRow
<1>6. /\ carts'[e.cart] \in CartRow
      /\ carts'[e.cart].customer = row.customer
      /\ carts'[e.cart].subtotal = row.subtotal /\ carts'[e.cart].count = row.count
      /\ carts'[e.cart].total = row.total /\ carts'[e.cart].discount = row.discount
      /\ \A k \in Cart \ {e.cart} : carts'[k] = carts[k]
  BY <1>1, <1>2, <1>3, <1>5 DEF TablesTyped, CartRow
<1>7. new.cart = e.cart /\ new.customer = e.customer /\ new.status = "created"
  OBVIOUS
<1> HIDE DEF row, new
<1>8. orders'[e.order] = new /\ \A o \in Order \ {e.order} : orders'[o] = orders[o]
  BY <1>1, <1>2, <1>3 DEF TablesTyped
<1>9. TablesTyped'
  <2>1. DOMAIN carts' = Cart /\ carts' = [k \in Cart |-> carts'[k]]
    BY <1>1, <1>2 DEF TablesTyped
  <2>2. \A k \in Cart : carts'[k] \in CartRow \cup {Absent}
    BY <1>2, <1>6 DEF TablesTyped
  <2>3. carts' \in [Cart -> CartRow \cup {Absent}]
    BY <2>1, <2>2
  <2>4. orders' \in [Order -> OrderRow \cup {Absent}]
    BY <1>1, <1>2, <1>5 DEF TablesTyped
  <2> QED BY <1>1, <1>2, <2>3, <2>4 DEF TablesTyped
<1>10. CartTotals'
  BY <1>1, <1>2, <1>4, <1>6 DEF RowsInv, CartTotals, row
<1>11. OneOwner'
  <2>1. ASSUME NEW o \in Order, orders'[o] # Absent
        PROVE  /\ carts'[orders'[o].cart] # Absent
               /\ carts'[orders'[o].cart].customer = orders'[o].customer
    <3>1. CASE o = e.order
      BY <1>2, <1>4, <1>6, <1>7, <1>8, <3>1, RowTypes
    <3>2. CASE o # e.order
      <4>1. /\ orders'[o] = orders[o]
            /\ carts[orders[o].cart] # Absent /\ orders[o].cart \in Cart
            /\ carts[orders[o].cart].customer = orders[o].customer
        BY <1>2, <1>8, <2>1, <3>2, RowTypes DEF RowsInv, OneOwner, OrderRow
      <4> QED BY <1>2, <1>6, <4>1, RowTypes DEF row
    <3> QED BY <3>1, <3>2
  <2>2. ASSUME NEW p \in Payment, payments[p] # Absent
        PROVE  orders'[payments[p].order] = orders[payments[p].order]
    <3>1. payments[p].order \in Order /\ orders[payments[p].order] # Absent
      BY <1>2, <2>2, RowTypes DEF RowsInv, OneOwner, PaymentRow
    <3> QED BY <1>2, <1>8, <3>1
  <2> QED BY <1>2, <2>1, <2>2 DEF RowsInv, OneOwner
<1>12. RefundsCovered'
  BY <1>2 DEF RowsInv, RefundsCovered
<1>13. OrderStatusBacked'
  <2>1. ASSUME NEW p \in Payment, payments[p] # Absent PROVE payments[p].order # e.order
    BY <1>2, <2>1 DEF RowsInv, OneOwner
  <2> QED BY <1>2, <1>7, <1>8, <2>1 DEF RowsInv, OrderStatusBacked
<1>14. \A r \in Lockable : lock[r] # w => Untouched(r)
  BY <1>2, <1>6, <1>8 DEF Untouched
<1> QED BY <1>9, <1>10, <1>11, <1>12, <1>13, <1>14, CommitApplied DEF RowsInv

(* A payment attempt under a key that was free, for the order it has       *)
(* locked and compared.                                                    *)
LEMMA PaymentCommit ==
    ASSUME LedgerIInv, NEW w \in Worker, pc[w] = "commit", EndTx(w, "applied"),
           UNCHANGED budget, event[w].type \in PaymentTypes, WritePayment(event[w]),
           UNCHANGED <<customers, sessions, views, carts, items, refunds, refunded>>
    PROVE  LedgerIInv'
<1> DEFINE e == event[w]
           ok == e.type = "payment_completed"
           new == [order |-> e.order, customer |-> e.customer, amount |-> e.amount,
                   status |-> IF ok THEN "completed" ELSE "failed"]
           row == orders[e.order]
<1>1. /\ payments' = [payments EXCEPT ![e.payment] = new]
      /\ orders' = IF ok THEN [orders EXCEPT ![e.order].status = "paid"] ELSE orders
  BY DEF WritePayment
<1>2. /\ e \in Event /\ TablesTyped /\ RowsInv /\ lock[e.order] = w
      /\ lock[e.payment] = w /\ payments[e.payment] = Absent
  BY AtCommit DEF InsertTypes, PaymentTypes, NewKey, KeyTaken
<1>3. /\ e.payment \in Payment /\ e.order \in Order /\ e.customer \in Customer
      /\ e.amount \in Nat \ {0}
  BY <1>2, EventFields
<1>4. row # Absent /\ row.customer = e.customer /\ row.total = e.amount
  BY Parts DEF Tx, ReadsStand, Underway
<1>5. row \in OrderRow /\ new \in PaymentRow /\ new # Absent
  BY <1>2, <1>3, <1>4, RowTypes DEF PaymentRow
<1>6. /\ orders'[e.order] \in OrderRow
      /\ orders'[e.order].customer = row.customer /\ orders'[e.order].total = row.total
      /\ orders'[e.order].cart = row.cart
      /\ orders'[e.order].status = IF ok THEN "paid" ELSE row.status
      /\ \A o \in Order \ {e.order} : orders'[o] = orders[o]
  BY <1>1, <1>2, <1>3, <1>5 DEF TablesTyped, OrderRow
<1>7. /\ new.order = e.order /\ new.customer = e.customer /\ new.amount = e.amount
      /\ new.status = IF ok THEN "completed" ELSE "failed"
  OBVIOUS
<1>8. payments'[e.payment] = new /\ \A p \in Payment \ {e.payment} : payments'[p] = payments[p]
  BY <1>1, <1>2, <1>3 DEF TablesTyped
<1>9. orders' = [o \in Order |-> orders'[o]]
  BY <1>1, <1>2 DEF TablesTyped
<1>10. ~ok => orders' = orders
  BY <1>1
<1> HIDE DEF row, new, ok
<1>11. TablesTyped'
  <2>1. \A o \in Order : orders'[o] \in OrderRow \cup {Absent}
    BY <1>2, <1>6 DEF TablesTyped
  <2>2. orders' \in [Order -> OrderRow \cup {Absent}]
    BY <1>9, <2>1
  <2>3. payments' \in [Payment -> PaymentRow \cup {Absent}]
    BY <1>1, <1>2, <1>5 DEF TablesTyped
  <2> QED BY <1>2, <2>2, <2>3 DEF TablesTyped
<1>12. CartTotals'
  BY <1>2 DEF RowsInv, CartTotals
<1>13. OneOwner'
  <2>1. ASSUME NEW o \in Order, orders'[o] # Absent
        PROVE  orders[o] # Absent /\ orders'[o].cart = orders[o].cart
                 /\ orders'[o].customer = orders[o].customer
    BY <1>4, <1>6, <2>1 DEF row
  <2>2. ASSUME NEW p \in Payment, payments'[p] # Absent
        PROVE  /\ orders'[payments'[p].order] # Absent
               /\ orders'[payments'[p].order].customer = payments'[p].customer
               /\ orders'[payments'[p].order].total = payments'[p].amount
    <3>1. CASE p = e.payment
      BY <1>2, <1>4, <1>6, <1>7, <1>8, <3>1, RowTypes
    <3>2. CASE p # e.payment
      <4>1. /\ payments'[p] = payments[p] /\ payments[p].order \in Order
            /\ orders[payments[p].order] # Absent
            /\ orders[payments[p].order].customer = payments[p].customer
            /\ orders[payments[p].order].total = payments[p].amount
        BY <1>2, <1>8, <2>2, <3>2, RowTypes DEF RowsInv, OneOwner, PaymentRow
      <4> QED BY <1>2, <1>6, <4>1, RowTypes DEF row
    <3> QED BY <3>1, <3>2
  <2> QED BY <1>2, <2>1, <2>2 DEF RowsInv, OneOwner
<1>14. RefundsCovered'
  <2>1. ASSUME NEW p \in Payment, p # e.payment
        PROVE  payments'[p] = payments[p] /\ refunded'[p] = refunded[p]
    BY <1>8, <2>1
  <2>2. refunded'[e.payment] = 0 /\ payments'[e.payment] = new /\ new # Absent
    BY <1>2, <1>3, <1>5, <1>8 DEF RowsInv, RefundsCovered
  <2>3. new.amount \in Nat /\ new.status \in {"completed", "failed"}
    BY <1>3, <1>7
  <2> QED BY <1>2, <2>1, <2>2, <2>3 DEF RowsInv, RefundsCovered
<1>15. OrderStatusBacked'
  <2> DEFINE paid(o) == {p \in Payment : /\ payments[p] # Absent
                                         /\ payments[p].order = o
                                         /\ payments[p].status # "failed"}
             after(o) == {p \in Payment : /\ payments'[p] # Absent
                                          /\ payments'[p].order = o
                                          /\ payments'[p].status # "failed"}
  <2> SUFFICES ASSUME NEW o \in Order, orders'[o] # Absent
               PROVE  IF orders'[o].status = "created" THEN after(o) = {}
                      ELSE \E p \in after(o) : payments'[p].status =
                             IF orders'[o].status = "paid" THEN "completed"
                             ELSE orders'[o].status
    BY DEF OrderStatusBacked
  <2>1. CASE ok /\ o = e.order
    BY <1>3, <1>5, <1>6, <1>7, <1>8, <2>1
  <2>2. CASE ~(ok /\ o = e.order)
    <3>1. orders'[o] = orders[o]
      BY <1>6, <1>10, <2>2
    <3>2. after(o) = paid(o) /\ \A p \in paid(o) : payments'[p] = payments[p]
      BY <1>2, <1>7, <1>8, <2>2
    <3>3. IF orders[o].status = "created" THEN paid(o) = {}
          ELSE \E p \in paid(o) : payments[p].status =
                 IF orders[o].status = "paid" THEN "completed" ELSE orders[o].status
      BY <1>2, <3>1 DEF RowsInv, OrderStatusBacked
    <3> HIDE DEF paid, after
    <3> QED BY <3>1, <3>2, <3>3
  <2> QED BY <2>1, <2>2
<1>16. \A r \in Lockable : lock[r] # w => Untouched(r)
  BY <1>2, <1>6, <1>8 DEF Untouched
<1> QED BY <1>11, <1>12, <1>13, <1>14, <1>15, <1>16, CommitApplied DEF RowsInv

(* A refund of what the sum under the payment's lock has left.  Its order  *)
(* is the payment's, so the status of both says the same.                  *)
LEMMA RefundCommit ==
    ASSUME LedgerIInv, NEW w \in Worker, pc[w] = "commit", EndTx(w, "applied"),
           UNCHANGED budget, event[w].type = "refund_requested", WriteRefund(w, event[w]),
           UNCHANGED <<customers, sessions, views, carts, items>>
    PROVE  LedgerIInv'
<1> DEFINE e == event[w]
           row == payments[e.payment]
           order == orders[e.order]
           status == IF seen[w] + e.amount = row.amount THEN "refunded"
                     ELSE "partially_refunded"
<1>1. /\ refunds' = refunds \cup {e.refund}
      /\ refunded' = [refunded EXCEPT ![e.payment] = @ + e.amount]
      /\ payments' = [payments EXCEPT ![e.payment].status = status]
      /\ orders' = [orders EXCEPT ![e.order].status = status]
  BY DEF WriteRefund
<1>2. /\ e \in Event /\ TablesTyped /\ RowsInv /\ lock[e.order] = w
      /\ lock[e.payment] = w /\ lock[e.refund] = w
  BY AtCommit DEF InsertTypes, PaymentTypes, NewKey, KeyTaken
<1>3. /\ e.payment \in Payment /\ e.order \in Order /\ e.refund \in Refund
      /\ e.amount \in Nat \ {0}
  BY <1>2, EventFields
<1>4. /\ row # Absent /\ row.status # "failed" /\ row.order = e.order
      /\ seen[w] = refunded[e.payment] /\ seen[w] + e.amount <= row.amount
  BY Parts DEF Tx, ReadsStand, Underway
<1>5. row \in PaymentRow /\ order # Absent /\ order \in OrderRow
  BY <1>2, <1>3, <1>4, RowTypes DEF RowsInv, OneOwner
<1>6. /\ payments'[e.payment] \in PaymentRow
      /\ payments'[e.payment].order = e.order
      /\ payments'[e.payment].customer = row.customer
      /\ payments'[e.payment].amount = row.amount
      /\ payments'[e.payment].status = status
      /\ \A p \in Payment \ {e.payment} : payments'[p] = payments[p]
  BY <1>1, <1>2, <1>3, <1>4, <1>5 DEF TablesTyped, PaymentRow
<1>7. /\ orders'[e.order] \in OrderRow
      /\ orders'[e.order].customer = order.customer /\ orders'[e.order].total = order.total
      /\ orders'[e.order].cart = order.cart
      /\ orders'[e.order].status = status
      /\ \A o \in Order \ {e.order} : orders'[o] = orders[o]
  BY <1>1, <1>2, <1>3, <1>5 DEF TablesTyped, OrderRow
<1>8. /\ payments' = [p \in Payment |-> payments'[p]]
      /\ orders' = [o \in Order |-> orders'[o]]
  BY <1>1, <1>2 DEF TablesTyped
<1>9. /\ refunded'[e.payment] = refunded[e.payment] + e.amount
      /\ \A p \in Payment \ {e.payment} : refunded'[p] = refunded[p]
      /\ refunded' \in [Payment -> Nat] /\ refunded[e.payment] \in Nat
  BY <1>1, <1>2, <1>3 DEF TablesTyped
<1>10. /\ seen[w] + e.amount = row.amount => status = "refunded"
       /\ seen[w] + e.amount # row.amount => status = "partially_refunded"
  OBVIOUS
<1> HIDE DEF row, order, status
<1>11. TablesTyped'
  <2>1. \A o \in Order : orders'[o] \in OrderRow \cup {Absent}
    BY <1>2, <1>7 DEF TablesTyped
  <2>2. orders' \in [Order -> OrderRow \cup {Absent}]
    BY <1>8, <2>1
  <2>3. \A p \in Payment : payments'[p] \in PaymentRow \cup {Absent}
    BY <1>2, <1>6 DEF TablesTyped
  <2>4. payments' \in [Payment -> PaymentRow \cup {Absent}]
    BY <1>8, <2>3
  <2> QED BY <1>1, <1>2, <1>3, <1>9, <2>2, <2>4 DEF TablesTyped
<1>12. CartTotals'
  BY <1>2 DEF RowsInv, CartTotals
<1>13. OneOwner'
  <2>1. ASSUME NEW o \in Order, orders'[o] # Absent
        PROVE  orders[o] # Absent /\ orders'[o].cart = orders[o].cart
                 /\ orders'[o].customer = orders[o].customer
    BY <1>5, <1>7, <2>1 DEF order
  <2>2. ASSUME NEW p \in Payment, payments'[p] # Absent
        PROVE  /\ orders'[payments'[p].order] # Absent
               /\ orders'[payments'[p].order].customer = payments'[p].customer
               /\ orders'[payments'[p].order].total = payments'[p].amount
    <3>1. /\ payments[p] # Absent /\ payments'[p].order = payments[p].order
          /\ payments'[p].customer = payments[p].customer
          /\ payments'[p].amount = payments[p].amount
      BY <1>4, <1>6, <2>2 DEF row
    <3>2. /\ payments[p].order \in Order
          /\ orders[payments[p].order] # Absent
          /\ orders[payments[p].order].customer = payments[p].customer
          /\ orders[payments[p].order].total = payments[p].amount
      BY <1>2, <3>1, RowTypes DEF RowsInv, OneOwner, PaymentRow
    <3> QED BY <1>2, <1>7, <3>1, <3>2, RowTypes DEF order
  <2> QED BY <1>2, <2>1, <2>2 DEF RowsInv, OneOwner
<1>14. RefundsCovered'
  <2>1. ASSUME NEW p \in Payment, p # e.payment
        PROVE  payments'[p] = payments[p] /\ refunded'[p] = refunded[p]
    BY <1>6, <1>9, <2>1
  <2>2. /\ payments'[e.payment] # Absent /\ payments'[e.payment].amount = row.amount
        /\ payments'[e.payment].status = status /\ row.amount \in Nat
    BY <1>2, <1>5, <1>6, RowTypes DEF PaymentRow
  <2>3. /\ refunded'[e.payment] \in 1 .. row.amount
        /\ status = "refunded" => refunded'[e.payment] = row.amount
        /\ status = "partially_refunded" => refunded'[e.payment] \in 1 .. row.amount - 1
        /\ status \in {"refunded", "partially_refunded"}
    BY <1>3, <1>4, <1>9, <1>10, <2>2
  <2>4. /\ refunded'[e.payment] <= row.amount
        /\ status \notin {"failed", "completed"}
    BY <1>9, <2>2, <2>3
  <2> QED BY <1>2, <2>1, <2>2, <2>3, <2>4 DEF RowsInv, RefundsCovered
<1>15. OrderStatusBacked'
  <2> DEFINE paid(o) == {p \in Payment : /\ payments[p] # Absent
                                         /\ payments[p].order = o
                                         /\ payments[p].status # "failed"}
             after(o) == {p \in Payment : /\ payments'[p] # Absent
                                          /\ payments'[p].order = o
                                          /\ payments'[p].status # "failed"}
  <2> SUFFICES ASSUME NEW o \in Order, orders'[o] # Absent
               PROVE  IF orders'[o].status = "created" THEN after(o) = {}
                      ELSE \E p \in after(o) : payments'[p].status =
                             IF orders'[o].status = "paid" THEN "completed"
                             ELSE orders'[o].status
    BY DEF OrderStatusBacked
  <2>1. CASE o = e.order
    <3>1. payments'[e.payment] # Absent /\ status \in {"refunded", "partially_refunded"}
      BY <1>2, <1>6, <1>10, RowTypes
    <3>2. e.payment \in after(o)
      BY <1>3, <1>6, <2>1, <3>1
    <3> QED BY <1>6, <1>7, <2>1, <3>1, <3>2
  <2>2. CASE o # e.order
    <3>1. orders'[o] = orders[o]
      BY <1>7, <2>2
    <3>2. after(o) = paid(o) /\ \A p \in paid(o) : payments'[p] = payments[p]
      BY <1>4, <1>6, <2>2 DEF row
    <3>3. IF orders[o].status = "created" THEN paid(o) = {}
          ELSE \E p \in paid(o) : payments[p].status =
                 IF orders[o].status = "paid" THEN "completed" ELSE orders[o].status
      BY <1>2, <3>1 DEF RowsInv, OrderStatusBacked
    <3> HIDE DEF paid, after
    <3> QED BY <3>1, <3>2, <3>3
  <2> QED BY <2>1, <2>2
<1>16. \A r \in Lockable : lock[r] # w => Untouched(r)
  BY <1>1, <1>2, <1>6, <1>7, <1>9 DEF Untouched
<1> QED BY <1>11, <1>12, <1>13, <1>14, <1>15, <1>16, CommitApplied DEF RowsInv

(* The COMMIT of any transaction. *)
LEMMA CommitStep ==
    ASSUME LedgerIInv, NEW w \in Worker, Commit(w)
    PROVE  /\ LedgerIInv'
           /\ \A c \in Customer : customers[c] # Absent => customers'[c] = customers[c]
           /\ \A s \in Session : sessions[s] # Absent => sessions'[s] = sessions[s]
<1> DEFINE e == event[w]
<1>1. pc[w] = "commit" /\ UNCHANGED budget
  BY DEF Commit
<1>2. budget' \in 0 .. MaxFaults
  BY <1>1, Parts DEF TxTyped
<1>3. CASE /\ WriteIdentity(e) /\ EndTx(w, "applied")
           /\ UNCHANGED <<carts, items, orders, payments, refunds, refunded>>
  BY <1>1, <1>3, IdentityCommit
<1>4. CASE /\ WriteItem(e) \/ WriteCheckout(e) \/ WriteOrder(e)
           /\ EndTx(w, "applied")
           /\ UNCHANGED <<customers, sessions, views, payments, refunds, refunded>>
  BY <1>1, <1>4, ItemCommit, CheckoutCommit, OrderCommit
<1>5. CASE Reject(w, "integrity")
  <2>1. EndTx(w, "integrity") /\ UNCHANGED tables
    BY <1>5 DEF Reject
  <2> QED BY <1>1, <1>2, <2>1, Rollback DEF tables
<1>6. CASE /\ e.type \in {"payment_completed", "payment_failed"}
           /\ WritePayment(e) /\ EndTx(w, "applied")
           /\ UNCHANGED <<customers, sessions, views, carts, items, refunds, refunded>>
  BY <1>1, <1>6, PaymentCommit DEF PaymentTypes
<1>7. CASE /\ e.type = "refund_requested" /\ WriteRefund(w, e) /\ EndTx(w, "applied")
           /\ UNCHANGED <<customers, sessions, views, carts, items>>
  BY <1>1, <1>7, RefundCommit
<1> QED BY <1>3, <1>4, <1>5, <1>6, <1>7 DEF Commit
-----------------------------------------------------------------------------
(* The empty tables are consistent. *)
LEMMA LedgerInit == Init => LedgerIInv
<1> SUFFICES ASSUME Init PROVE LedgerIInv
  OBVIOUS
<1>1. TablesTyped
  BY DEF Init, TablesTyped
<1>2. TxTyped
  BY LedgerAssumption DEF Init, TxTyped, PC
<1>3. RowsInv
  BY DEF Init, RowsInv, CartTotals, OneOwner, RefundsCovered, OrderStatusBacked
<1>4. \A w \in Worker : Tx(w)
  BY DEF Init, Tx, FitsHandler, HoldsLocks, ReadsStand, Underway
<1> QED BY <1>1, <1>2, <1>3, <1>4, Parts

(* Every step keeps the invariant, and the identities. *)
LEMMA LedgerStep ==
    ASSUME LedgerIInv, [Next]_vars
    PROVE  /\ LedgerIInv'
           /\ \A c \in Customer : customers[c] # Absent => customers'[c] = customers[c]
           /\ \A s \in Session : sessions[s] # Absent => sessions'[s] = sessions[s]
<1>1. CASE UNCHANGED vars
  <2>1. TablesTyped' /\ TxTyped' /\ RowsInv'
    BY <1>1, Parts DEF vars, tables, txVars, TablesTyped, TxTyped, RowsInv, CartTotals,
         OneOwner, RefundsCovered, OrderStatusBacked
  <2>2. \A w \in Worker : Tx(w)'
    <3>1. \A r \in Lockable : lock'[r] = lock[r] /\ Untouched(r)
      BY <1>1 DEF vars, tables, Untouched
    <3>2. UNCHANGED <<event, pc, seen>> /\ TypeOK /\ \A w \in Worker : Tx(w)
      BY <1>1, Parts DEF vars, txVars, LedgerIInv
    <3> QED BY <3>1, <3>2, OtherTx
  <2> QED BY <1>1, <2>1, <2>2, Parts DEF vars, tables
<1>2. ASSUME NEW w \in Worker, Commit(w)
      PROVE  /\ LedgerIInv'
             /\ \A c \in Customer : customers[c] # Absent => customers'[c] = customers[c]
             /\ \A s \in Session : sessions[s] # Absent => sessions'[s] = sessions[s]
  BY <1>2, CommitStep
<1>3. ASSUME NEW w \in Worker,
             \/ RegisterRead(w) \/ SessionRead(w) \/ ViewRead(w) \/ ItemRead(w)
             \/ CartRead(w) \/ OrderRead(w) \/ PaymentRead(w) \/ RefundSum(w)
             \/ InsertRow(w) \/ RefundOrder(w) \/ TxFails(w) \/ \E e \in Event : Begin(w, e)
      PROVE  LedgerIInv' /\ UNCHANGED <<customers, sessions>>
  <2>1. LedgerIInv'
    BY <1>3, ReadStep, LockStep, SumStep, InsertStep, OrderStep, FailStep, BeginStep
  <2>2. UNCHANGED tables
    BY <1>3 DEF RegisterRead, SessionRead, ViewRead, ItemRead, CartRead, OrderRead,
         PaymentRead, RefundSum, InsertRow, RefundOrder, TxFails, Begin, Missing, Unneeded,
         Reject, Proceed
  <2> QED BY <2>1, <2>2 DEF tables
<1> QED BY <1>1, <1>2, <1>3 DEF Next, Step

(* The inductive invariant of the ledger. *)
THEOREM LedgerIInvHolds == Spec => []LedgerIInv
<1>1. LedgerIInv /\ [Next]_vars => LedgerIInv'
  BY LedgerStep
<1> QED BY <1>1, LedgerInit, PTL DEF Spec

(* LedgerInv: after every commit the tables are well formed, carts add up  *)
(* to their items, and a chain of rows has one owner, whichever            *)
(* transactions interleave (carts.py, orders.py, payments.py).             *)
THEOREM LedgerCorrect == Spec => []LedgerInv
<1>1. LedgerIInv => LedgerInv
  BY DEF LedgerIInv, LedgerInv
<1> QED BY <1>1, LedgerIInvHolds, PTL

(* RefundsCovered: concurrent refunds never exceed the payment, and its    *)
(* status says how much is refunded (refunds.py:15-96).                    *)
THEOREM RefundsCoveredHolds == Spec => []RefundsCovered
<1>1. LedgerIInv => RefundsCovered
  BY DEF LedgerIInv
<1> QED BY <1>1, LedgerIInvHolds, PTL

(* OrderStatusBacked: an order has the status of one of its payments       *)
(* (payments.py:86-96, refunds.py:76).                                     *)
THEOREM OrderStatusBackedHolds == Spec => []OrderStatusBacked
<1>1. LedgerIInv => OrderStatusBacked
  BY DEF LedgerIInv
<1> QED BY <1>1, LedgerIInvHolds, PTL

(* IdentitiesImmutable: a registered customer or session is never          *)
(* overwritten, although the check that finds it absent takes no lock      *)
(* (customers.py, sessions.py).                                            *)
THEOREM IdentitiesImmutableHolds == Spec => IdentitiesImmutable
<1>1. LedgerIInv /\ [Next]_vars =>
        [/\ \A c \in Customer : customers[c] # Absent => customers'[c] = customers[c]
         /\ \A s \in Session : sessions[s] # Absent => sessions'[s] = sessions[s]]_vars
  BY LedgerStep
<1> QED BY <1>1, LedgerIInvHolds, PTL DEF Spec, IdentitiesImmutable
=============================================================================
