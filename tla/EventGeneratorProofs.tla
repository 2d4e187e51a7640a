------------------------ MODULE EventGeneratorProofs ------------------------
(***************************************************************************)
(* What the generator sends, for any configuration, any number of          *)
(* journeys, views and payment attempts, and wherever the process ends.    *)
(* First the shape of one journey, from the walk to the messages the       *)
(* injector makes of it; then the invariant about all that was handed      *)
(* over, which a new journey extends and an interrupted one cuts short.    *)
(***************************************************************************)
EXTENDS EventGenerator, SequenceTheorems, NaturalsInduction, WellFoundedInduction, TLAPS

(* A set of naturals that is not empty has a least element. *)
LEMMA LeastNatural ==
    ASSUME NEW T, T \subseteq Nat, T # {}
    PROVE  \E x \in T : \A y \in T : x <= y
<1>1. PICK x \in T : \A y \in T : ~ (<<y, x>> \in OpToRel(<, Nat))
  BY WFMin, NatLessThanWellFounded, Zenon
<1>2. \A y \in T : x <= y
  <2> TAKE y \in T
  <2>1. x \in Nat /\ y \in Nat
    OBVIOUS
  <2>2. ~(y < x)
    BY <1>1, <2>1 DEF OpToRel
  <2> QED BY <2>1, <2>2
<1> QED BY <1>2

(* Where the elements of a concatenation come from. *)
LEMMA ConcatAt ==
    ASSUME NEW S, NEW a \in Seq(S), NEW b \in Seq(S)
    PROVE  /\ a \o b \in Seq(S) /\ Len(a) \in Nat /\ Len(b) \in Nat
           /\ Len(a \o b) = Len(a) + Len(b)
           /\ \A k \in 1 .. Len(a) : (a \o b)[k] = a[k]
           /\ \A k \in 1 .. Len(b) : (a \o b)[Len(a) + k] = b[k]
           /\ \A k \in 1 .. Len(a \o b) :
                k \notin 1 .. Len(a) =>
                    k - Len(a) \in 1 .. Len(b) /\ (a \o b)[k] = b[k - Len(a)]
<1>1. /\ a \o b \in Seq(S) /\ Len(a) \in Nat /\ Len(b) \in Nat
      /\ Len(a \o b) = Len(a) + Len(b)
  OBVIOUS
<1>2. \A k \in 1 .. Len(a) + Len(b) :
        (a \o b)[k] = IF k <= Len(a) THEN a[k] ELSE b[k - Len(a)]
  BY ConcatProperties
<1> QED BY <1>1, <1>2

(* What the messages of a journey rely on: where a walk has which events. *)
WalkShape(w) ==
    /\ w \in Seq(EventType) /\ Len(w) >= 1 /\ w[1] = "product_viewed"
    /\ \A i \in 1 .. Len(w) : w[i] \notin {"user_registered", "session_started"}
    /\ \A i \in 1 .. Len(w) : w[i] \in {"checkout_started", "order_created"} =>
            \E k \in 1 .. i - 1 : w[k] = "added_to_cart"
    /\ \A i \in 1 .. Len(w) : w[i] \in {"payment_failed", "payment_completed"} =>
            \E k \in 1 .. i - 1 : w[k] = "order_created"
    /\ \A i \in 1 .. Len(w) : w[i] = "refund_requested" =>
            i - 1 \in 1 .. Len(w) /\ w[i - 1] = "payment_completed"
    /\ \A i, k \in 1 .. Len(w) : w[i] = "order_created" /\ w[k] = "order_created" => i = k

(* A sequence of payment attempts: failures, and at most the last succeeds. *)
LEMMA PaymentsShape ==
    ASSUME NEW profile, NEW pay \in Payments(profile)
    PROVE  /\ pay \in Seq(EventType) /\ Len(pay) >= 1
           /\ \A k \in 1 .. Len(pay) : pay[k] \in {"payment_failed", "payment_completed"}
<1> DEFINE most == IF profile.retry THEN MaxPaymentAttempts ELSE 1
<1>1. most \in Nat
  BY GeneratorAssumption
<1>2. PICK n \in 1 .. most, ok \in profile.paid :
        pay = [k \in 1 .. n |-> IF k = n /\ ok THEN "payment_completed" ELSE "payment_failed"]
  BY DEF Payments
<1> HIDE DEF most
<1>3. n \in Nat /\ n >= 1
  BY <1>1, <1>2
<1>4. \A k \in 1 .. n : pay[k] \in {"payment_failed", "payment_completed"}
  BY <1>2
<1>5. pay \in [1 .. n -> EventType]
  BY <1>2, <1>4 DEF EventType
<1>6. pay \in Seq(EventType) /\ Len(pay) = n
  BY <1>3, <1>5
<1> QED BY <1>3, <1>4, <1>6

(* What may follow added_to_cart. *)
LEMMA CheckoutsShape ==
    ASSUME NEW profile, NEW c \in Checkouts(profile)
    PROVE  /\ c \in Seq(EventType) /\ Len(c) >= 3
           /\ c[1] = "checkout_started" /\ c[2] = "order_created"
           /\ \A k \in 3 .. Len(c) : c[k] \in {"payment_failed", "payment_completed", "refund_requested"}
           /\ \A k \in 3 .. Len(c) : c[k] = "refund_requested" =>
                    k > 3 /\ c[k - 1] = "payment_completed"
<1> DEFINE head == <<"checkout_started", "order_created">>
           Body0(x, pay) == /\ x \in Seq(EventType) /\ Len(x) = 2 + Len(pay)
                            /\ x[1] = "checkout_started" /\ x[2] = "order_created"
                            /\ \A k \in 3 .. Len(x) : x[k] = pay[k - 2] /\ k - 2 \in 1 .. Len(pay)
<1>0. head \in Seq(EventType) /\ Len(head) = 2 /\ head[1] = "checkout_started"
      /\ head[2] = "order_created"
  BY DEF EventType
<1>1. ASSUME NEW pay \in Payments(profile)
      PROVE  /\ pay \in Seq(EventType) /\ Len(pay) \in Nat /\ Len(pay) >= 1
             /\ \A k \in 1 .. Len(pay) : pay[k] \in {"payment_failed", "payment_completed"}
             /\ Body0(head \o pay, pay)
  <2>1. /\ pay \in Seq(EventType) /\ Len(pay) \in Nat /\ Len(pay) >= 1
        /\ \A k \in 1 .. Len(pay) : pay[k] \in {"payment_failed", "payment_completed"}
    BY PaymentsShape
  <2> DEFINE x == head \o pay
  <2>2. /\ x \in Seq(EventType) /\ Len(x) = 2 + Len(pay)
        /\ \A k \in 1 .. 2 : x[k] = head[k]
        /\ \A k \in 1 .. Len(x) : k \notin 1 .. 2 => k - 2 \in 1 .. Len(pay) /\ x[k] = pay[k - 2]
    <3> HIDE DEF head
    <3>1. /\ x \in Seq(EventType) /\ Len(x) = Len(head) + Len(pay)
          /\ \A k \in 1 .. Len(head) : x[k] = head[k]
          /\ \A k \in 1 .. Len(x) : k \notin 1 .. Len(head) =>
                k - Len(head) \in 1 .. Len(pay) /\ x[k] = pay[k - Len(head)]
      <4>1. head \in Seq(EventType) /\ pay \in Seq(EventType)
        BY <1>0, <2>1
      <4> QED BY ONLY <4>1, ConcatAt
    <3> HIDE DEF x
    <3> QED BY <1>0, <2>1, <3>1
  <2> HIDE DEF x, head
  <2>3. Body0(x, pay)
    BY <1>0, <2>1, <2>2
  <2> QED BY <2>1, <2>3 DEF x
<1> HIDE DEF head
<1>2. CASE c \in {head \o pay : pay \in Payments(profile)}
  <2>1. PICK pay \in Payments(profile) : c = head \o pay
    BY <1>2
  <2>2. /\ Body0(c, pay) /\ Len(pay) \in Nat /\ Len(pay) >= 1
        /\ \A k \in 1 .. Len(pay) : pay[k] \in {"payment_failed", "payment_completed"}
    BY <1>1, <2>1
  <2> QED BY <2>2
<1>3. CASE c \in {head \o pay \o <<"refund_requested">>
                    : pay \in {p \in Payments(profile) : /\ p[Len(p)] = "payment_completed"
                                                         /\ TRUE \in profile.refund}}
  <2>1. PICK pay \in Payments(profile) : /\ c = (head \o pay) \o <<"refund_requested">>
                                         /\ pay[Len(pay)] = "payment_completed"
    BY <1>3
  <2> DEFINE x == head \o pay
             n == Len(pay)
  <2>2. /\ Body0(x, pay) /\ n \in Nat /\ n >= 1
        /\ \A k \in 1 .. n : pay[k] \in {"payment_failed", "payment_completed"}
    BY <1>1, <2>1
  <2>3. <<"refund_requested">> \in Seq(EventType) /\ Len(<<"refund_requested">>) = 1
        /\ <<"refund_requested">>[1] = "refund_requested"
    BY DEF EventType
  <2>4. c = x \o <<"refund_requested">>
    BY <2>1
  <2> HIDE DEF x
  <2>5. /\ c \in Seq(EventType) /\ Len(c) = 3 + n
        /\ \A k \in 1 .. 2 + n : c[k] = x[k]
        /\ c[3 + n] = "refund_requested"
    BY <2>2, <2>3, <2>4, ConcatAt
  <2>6. c[1] = "checkout_started" /\ c[2] = "order_created"
    BY <2>2, <2>5
  <2>7. ASSUME NEW k \in 3 .. 2 + n PROVE c[k] = pay[k - 2] /\ k - 2 \in 1 .. n
    BY <2>2, <2>5
  <2>8. c[2 + n] = "payment_completed"
    <3>1. 2 + n \in 3 .. 2 + n /\ (2 + n) - 2 = n
      BY <2>2
    <3>2. c[2 + n] = pay[(2 + n) - 2]
      BY <2>7, <3>1
    <3> QED BY <2>1, <3>1, <3>2
  <2>9. ASSUME NEW k \in 3 .. Len(c)
        PROVE  /\ c[k] \in {"payment_failed", "payment_completed", "refund_requested"}
               /\ c[k] = "refund_requested" => k > 3 /\ c[k - 1] = "payment_completed"
    <3>1. CASE k = 3 + n
      BY <2>2, <2>5, <2>8, <3>1
    <3>2. CASE k # 3 + n
      <4>1. k \in 3 .. 2 + n
        BY <2>2, <2>5, <3>2
      <4> QED BY <2>2, <2>7, <4>1
    <3> QED BY <3>1, <3>2
  <2> QED BY <2>2, <2>5, <2>6, <2>9
<1> QED BY <1>2, <1>3 DEF Checkouts, head

(* Every walk has the shape. *)
LEMMA WalksShape ==
    ASSUME NEW profile, NEW w \in Walks(profile)
    PROVE  WalkShape(w)
<1> DEFINE atc == <<"added_to_cart">>
           rests == (IF FALSE \in profile.add THEN {<<>>} ELSE {})
                    \cup (IF FALSE \in profile.checkout THEN {atc} ELSE {})
                    \cup (IF TRUE \in profile.checkout
                          THEN {atc \o c : c \in Checkouts(profile)} ELSE {})
<1>1. PICK views \in Views, rest \in rests : w = views \o rest
  BY DEF Walks
<1>2. PICK n \in 1 .. MaxViews : views = [v \in 1 .. n |-> "product_viewed"]
  BY DEF Views
<1>3. n \in Nat /\ n >= 1
  BY <1>2, GeneratorAssumption
<1>4. /\ views \in Seq(EventType) /\ Len(views) = n
      /\ \A k \in 1 .. n : views[k] = "product_viewed"
  <2>1. views \in [1 .. n -> EventType]
    BY <1>2 DEF EventType
  <2> QED BY <1>2, <1>3, <2>1
<1>5. atc \in Seq(EventType) /\ Len(atc) = 1 /\ atc[1] = "added_to_cart"
  BY DEF EventType
<1> HIDE DEF atc
<1>6. \/ rest = <<>> \/ rest = atc
      \/ \E c \in Checkouts(profile) : rest = atc \o c
  OBVIOUS
<1> HIDE DEF rests
<1>7. CASE rest = <<>>
  <2>1. w = views
    BY <1>1, <1>4, <1>7, ConcatEmptySeq
  <2> QED BY <1>3, <1>4, <2>1 DEF WalkShape
<1>8. CASE rest = atc
  <2>1. /\ w \in Seq(EventType) /\ Len(w) = n + 1
        /\ \A k \in 1 .. n : w[k] = "product_viewed"
        /\ w[n + 1] = "added_to_cart"
    BY <1>1, <1>3, <1>4, <1>5, <1>8, ConcatAt
  <2>2. \A k \in 1 .. Len(w) : w[k] \in {"product_viewed", "added_to_cart"}
    <3> SUFFICES ASSUME NEW k \in 1 .. Len(w) PROVE w[k] \in {"product_viewed", "added_to_cart"}
      OBVIOUS
    <3>1. k \in 1 .. n \/ k = n + 1
      BY <1>3, <2>1
    <3> QED BY <2>1, <3>1
  <2> QED BY <1>3, <2>1, <2>2 DEF WalkShape
<1>9. ASSUME NEW c \in Checkouts(profile), rest = atc \o c PROVE WalkShape(w)
  <2>1. /\ c \in Seq(EventType) /\ Len(c) \in Nat /\ Len(c) >= 3
        /\ c[1] = "checkout_started" /\ c[2] = "order_created"
        /\ \A k \in 3 .. Len(c) : c[k] \in {"payment_failed", "payment_completed", "refund_requested"}
        /\ \A k \in 3 .. Len(c) : c[k] = "refund_requested" =>
                    k > 3 /\ c[k - 1] = "payment_completed"
    BY CheckoutsShape
  <2> DEFINE m == Len(c)
  <2>2. /\ rest \in Seq(EventType) /\ Len(rest) = m + 1 /\ rest[1] = "added_to_cart"
        /\ \A k \in 1 .. m : rest[1 + k] = c[k]
    <3>1. /\ rest \in Seq(EventType) /\ Len(rest) = Len(atc) + Len(c)
          /\ \A k \in 1 .. Len(atc) : rest[k] = atc[k]
          /\ \A k \in 1 .. Len(c) : rest[Len(atc) + k] = c[k]
      <4> DEFINE y == atc \o c
      <4>1. /\ y \in Seq(EventType) /\ Len(y) = Len(atc) + Len(c)
            /\ \A k \in 1 .. Len(atc) : y[k] = atc[k]
            /\ \A k \in 1 .. Len(c) : y[Len(atc) + k] = c[k]
        <5>1. atc \in Seq(EventType) /\ c \in Seq(EventType)
          BY <1>5, <2>1
        <5> QED BY ONLY <5>1, ConcatAt
      <4>2. rest = y
        BY <1>9
      <4> HIDE DEF y
      <4> QED BY <4>1, <4>2
    <3> QED BY <1>5, <2>1, <3>1
  <2>3. /\ w \in Seq(EventType) /\ Len(w) = n + (m + 1)
        /\ \A k \in 1 .. n : w[k] = "product_viewed"
        /\ \A k \in 1 .. m + 1 : w[n + k] = rest[k]
    <3>1. /\ w \in Seq(EventType) /\ Len(w) = Len(views) + Len(rest)
          /\ \A k \in 1 .. Len(views) : w[k] = views[k]
          /\ \A k \in 1 .. Len(rest) : w[Len(views) + k] = rest[k]
      <4> DEFINE y == views \o rest
      <4>1. /\ y \in Seq(EventType) /\ Len(y) = Len(views) + Len(rest)
            /\ \A k \in 1 .. Len(views) : y[k] = views[k]
            /\ \A k \in 1 .. Len(rest) : y[Len(views) + k] = rest[k]
        <5>1. views \in Seq(EventType) /\ rest \in Seq(EventType)
          BY <1>4, <2>2
        <5> QED BY ONLY <5>1, ConcatAt
      <4>2. w = y
        BY <1>1
      <4> HIDE DEF y
      <4> QED BY <4>1, <4>2
    <3> QED BY <1>4, <2>1, <2>2, <3>1
  <2> HIDE DEF m
  <2>4. m \in Nat /\ m >= 3 /\ m = Len(c)
    BY <2>1 DEF m
  <2>5. w[n + 1] = "added_to_cart"
    BY <2>2, <2>3, <2>4
  <2>6. ASSUME NEW k \in 1 .. m PROVE w[n + 1 + k] = c[k]
    <3>1. 1 + k \in 1 .. m + 1 /\ n + (1 + k) = n + 1 + k
      BY <1>3, <2>4
    <3> QED BY <2>2, <2>3, <3>1
  <2>7. w[n + 2] = "checkout_started" /\ w[n + 3] = "order_created"
    <3>1. 1 \in 1 .. m /\ 2 \in 1 .. m /\ n + 1 + 1 = n + 2 /\ n + 1 + 2 = n + 3
      BY <1>3, <2>4
    <3> QED BY <2>1, <2>6, <3>1
  <2>8. ASSUME NEW i \in n + 4 .. n + m + 1
        PROVE  /\ w[i] \in {"payment_failed", "payment_completed", "refund_requested"}
               /\ w[i] = "refund_requested" => i > n + 4 /\ w[i - 1] = "payment_completed"
    <3> DEFINE k == i - n - 1
    <3>1. /\ k \in 3 .. m /\ n + 1 + k = i /\ k \in 1 .. m /\ k - 1 \in 1 .. m
          /\ n + 1 + (k - 1) = i - 1 /\ (k > 3 => i > n + 4)
      BY <1>3, <2>4
    <3> HIDE DEF k
    <3>2. w[i] = c[k] /\ w[i - 1] = c[k - 1]
      BY <2>6, <3>1
    <3> QED BY <2>1, <2>4, <3>1, <3>2
  <2>9. ASSUME NEW i \in 1 .. Len(w)
        PROVE  \/ i \in 1 .. n \/ i = n + 1 \/ i = n + 2 \/ i = n + 3
               \/ i \in n + 4 .. n + m + 1
    BY <1>3, <2>3, <2>4
  <2>10. \A i \in 1 .. Len(w) :
           w[i] \in {"checkout_started", "order_created"} =>
                \E k \in 1 .. i - 1 : w[k] = "added_to_cart"
    <3> SUFFICES ASSUME NEW i \in 1 .. Len(w), w[i] \in {"checkout_started", "order_created"}
                 PROVE  n + 1 \in 1 .. i - 1
      BY <2>5
    <3>1. i = n + 2 \/ i = n + 3
      BY <2>3, <2>5, <2>8, <2>9
    <3> QED BY <1>3, <3>1
  <2>11. \A i \in 1 .. Len(w) :
           w[i] \in {"payment_failed", "payment_completed"} =>
                \E k \in 1 .. i - 1 : w[k] = "order_created"
    <3> SUFFICES ASSUME NEW i \in 1 .. Len(w), w[i] \in {"payment_failed", "payment_completed"}
                 PROVE  n + 3 \in 1 .. i - 1
      BY <2>7
    <3>1. i \in n + 4 .. n + m + 1
      BY <2>3, <2>5, <2>7, <2>9
    <3> QED BY <1>3, <3>1
  <2>12. \A i \in 1 .. Len(w) : w[i] = "refund_requested" =>
            i - 1 \in 1 .. Len(w) /\ w[i - 1] = "payment_completed"
    <3> SUFFICES ASSUME NEW i \in 1 .. Len(w), w[i] = "refund_requested"
                 PROVE  i - 1 \in 1 .. Len(w) /\ w[i - 1] = "payment_completed"
      OBVIOUS
    <3>1. i \in n + 4 .. n + m + 1
      BY <2>3, <2>5, <2>7, <2>9
    <3> QED BY <1>3, <2>3, <2>4, <2>8, <3>1
  <2>13. \A i \in 1 .. Len(w) : w[i] = "order_created" => i = n + 3
    BY <2>3, <2>5, <2>7, <2>8, <2>9
  <2>14. \A i \in 1 .. Len(w) : w[i] \notin {"user_registered", "session_started"}
    BY <2>3, <2>5, <2>7, <2>8, <2>9
  <2>15. Len(w) >= 1 /\ w[1] = "product_viewed"
    BY <1>3, <2>3, <2>4
  <2> QED BY <2>3, <2>10, <2>11, <2>12, <2>13, <2>14, <2>15 DEF WalkShape
<1> QED BY <1>6, <1>7, <1>8, <1>9

(* The position before session_started: the registration, if there is one *)
Before(new) == IF new THEN 1 ELSE 0

(* The events of journey n, of customer c with this cart, from time base. *)
JourneyShape(ev, n, c, new, cart, base) ==
    /\ ev \in Seq(Event) /\ Len(ev) >= Before(new) + 2
    /\ \A i \in 1 .. Len(ev) :
        /\ ev[i].id = <<n, i>> /\ ev[i].customer = c /\ ev[i].session = n
        /\ ev[i].cart = cart /\ ev[i].time = base + i - Before(new)
        /\ ev[i].payment[1] = n
        /\ ev[i].kind # "refund_requested" => ev[i].payment = <<n, i>>
        /\ ev[i].kind = "user_registered" => new /\ i = 1
        /\ ev[i].kind = "session_started" => i = Before(new) + 1
    /\ new => ev[1].kind = "user_registered"
    /\ ev[Before(new) + 1].kind = "session_started"
    /\ ev[Before(new) + 2].kind = "product_viewed"
    /\ \A i \in 1 .. Len(ev) : ev[i].kind \in {"checkout_started", "order_created"} =>
            \E k \in 1 .. i - 1 : ev[k].kind = "added_to_cart"
    /\ \A i \in 1 .. Len(ev) : ev[i].kind \in {"payment_failed", "payment_completed"} =>
            \E k \in 1 .. i - 1 : ev[k].kind = "order_created"
    /\ \A i \in 1 .. Len(ev) : ev[i].kind = "refund_requested" =>
            /\ i - 1 \in 1 .. Len(ev) /\ ev[i - 1].kind = "payment_completed"
            /\ ev[i].payment = ev[i - 1].payment
    /\ \A i, k \in 1 .. Len(ev) :
            ev[i].kind = "order_created" /\ ev[k].kind = "order_created" => i = k

(* The builder's events have that shape. *)
LEMMA EventsShape ==
    ASSUME NEW c \in Nat, NEW new \in BOOLEAN, NEW cart \in Nat, NEW base \in Nat,
           journeys \in Nat, NEW walk, WalkShape(walk)
    PROVE  JourneyShape(Events(c, new, cart, walk, base), journeys + 1, c, new, cart, base)
<1> DEFINE start == IF new THEN <<"user_registered">> ELSE <<>>
           opening == start \o <<"session_started">>
           kinds == (IF new THEN <<"user_registered">> ELSE <<>>)
                        \o <<"session_started">> \o walk
           d == Before(new)
           n == journeys + 1
           L == d + 1 + Len(walk)
           ev == Events(c, new, cart, walk, base)
<1>1. d \in Nat /\ d <= 1 /\ n \in Nat /\ Len(walk) \in Nat /\ Len(walk) >= 1 /\ L \in Nat
  BY DEF Before, WalkShape
<1>2. /\ opening \in Seq(EventType) /\ Len(opening) = d + 1
      /\ new => opening[1] = "user_registered"
      /\ opening[d + 1] = "session_started"
  <2>1. CASE new
    <3> DEFINE a == <<"user_registered">>
               b == <<"session_started">>
    <3>1. opening = a \o b /\ d = 1
      BY <2>1 DEF Before
    <3>2. /\ a \in Seq(EventType) /\ Len(a) = 1 /\ a[1] = "user_registered"
          /\ b \in Seq(EventType) /\ Len(b) = 1 /\ b[1] = "session_started"
      BY DEF EventType
    <3> HIDE DEF a, b, opening
    <3>3. /\ a \o b \in Seq(EventType) /\ Len(a \o b) = Len(a) + Len(b)
          /\ \A k \in 1 .. Len(a) : (a \o b)[k] = a[k]
          /\ \A k \in 1 .. Len(b) : (a \o b)[Len(a) + k] = b[k]
      <4>1. a \in Seq(EventType) /\ b \in Seq(EventType)
        BY <3>2
      <4> QED BY ONLY <4>1, ConcatAt
    <3> QED BY <3>1, <3>2, <3>3
  <2>2. CASE ~new
    <3>1. opening = <<"session_started">> /\ d = 0
      BY <2>2 DEF Before
    <3> HIDE DEF opening
    <3> QED BY <2>2, <3>1 DEF EventType
  <2> QED BY <2>1, <2>2
<1>3. kinds = opening \o walk
  OBVIOUS
<1> HIDE DEF opening, kinds, d, n, L
<1>4. /\ kinds \in Seq(EventType) /\ Len(kinds) = L
      /\ \A k \in 1 .. d + 1 : kinds[k] = opening[k]
      /\ \A k \in 1 .. Len(walk) : kinds[d + 1 + k] = walk[k]
  <2>1. opening \in Seq(EventType) /\ walk \in Seq(EventType)
    BY <1>2 DEF WalkShape
  <2> DEFINE y == opening \o walk
  <2>2. /\ y \in Seq(EventType) /\ Len(y) = Len(opening) + Len(walk)
        /\ \A k \in 1 .. Len(opening) : y[k] = opening[k]
        /\ \A k \in 1 .. Len(walk) : y[Len(opening) + k] = walk[k]
    BY ONLY <2>1, ConcatAt
  <2>3. kinds = y
    BY <1>3
  <2> HIDE DEF y
  <2> QED BY <1>2, <2>2, <2>3 DEF L
<1>5. /\ kinds[d + 1] = "session_started" /\ (new => kinds[1] = "user_registered")
  BY <1>1, <1>2, <1>4
<1>6. ASSUME NEW i \in 1 .. L
      PROVE  \/ i = d + 1
             \/ new /\ i = 1 /\ d = 1
             \/ /\ i - d - 1 \in 1 .. Len(walk)
                /\ kinds[i] = walk[i - d - 1]
  <2>1. CASE i <= d + 1
    BY <1>1, <2>1 DEF d, Before
  <2>2. CASE i > d + 1
    <3> DEFINE k == i - d - 1
    <3>1. k \in 1 .. Len(walk) /\ d + 1 + k = i
      BY <1>1, <2>2 DEF L
    <3> HIDE DEF k
    <3>2. kinds[i] = walk[k]
      BY <1>4, <3>1
    <3> QED BY <3>1, <3>2 DEF k
  <2> QED BY <1>1, <2>1, <2>2
<1>7. ev = [i \in 1 .. L |->
            [kind |-> kinds[i], id |-> <<n, i>>, customer |-> c, session |-> n, cart |-> cart,
             payment |-> <<n, IF kinds[i] = "refund_requested" THEN i - 1 ELSE i>>,
             time |-> base + i - d]]
  BY <1>4 DEF Events, kinds, d, Before, n
<1> HIDE DEF ev
<1>8. ASSUME NEW i \in 1 .. L
      PROVE  /\ ev[i].kind = kinds[i] /\ ev[i].id = <<n, i>> /\ ev[i].customer = c
             /\ ev[i].session = n /\ ev[i].cart = cart /\ ev[i].time = base + i - d
             /\ ev[i].payment = <<n, IF kinds[i] = "refund_requested" THEN i - 1 ELSE i>>
             /\ ev[i] \in Event
  <2>1. kinds[i] \in EventType
    BY <1>4
  <2>2. /\ i \in Nat /\ i - 1 \in Nat /\ base + i - d \in Nat
    BY <1>1
  <2>3. ev[i] = [kind |-> kinds[i], id |-> <<n, i>>, customer |-> c, session |-> n, cart |-> cart,
             payment |-> <<n, IF kinds[i] = "refund_requested" THEN i - 1 ELSE i>>,
             time |-> base + i - d]
    BY <1>7
  <2> QED BY <1>1, <2>1, <2>2, <2>3 DEF Event
<1>9. ev \in Seq(Event) /\ Len(ev) = L
  <2>1. ev \in [1 .. L -> Event]
    BY <1>7, <1>8
  <2> QED BY <1>1, <2>1
<1>10. ASSUME NEW i \in 1 .. L
       PROVE  /\ kinds[i] = "user_registered" => new /\ i = 1
              /\ kinds[i] = "session_started" => i = d + 1
  BY <1>1, <1>5, <1>6 DEF WalkShape
<1>11. kinds[d + 2] = "product_viewed" /\ L >= d + 2
  <2>1. 1 \in 1 .. Len(walk) /\ d + 1 + 1 = d + 2
    BY <1>1
  <2>2. kinds[d + 1 + 1] = walk[1]
    BY <1>4, <2>1
  <2> QED BY <1>1, <2>1, <2>2 DEF WalkShape, L
<1>12. ASSUME NEW i \in 1 .. L, NEW T, NEW x,
              kinds[i] \in T, "session_started" \notin T, "user_registered" \notin T,
              \A j \in 1 .. Len(walk) : walk[j] \in T => \E k \in 1 .. j - 1 : walk[k] = x
       PROVE  \E k \in 1 .. i - 1 : kinds[k] = x
  <2> DEFINE j == i - d - 1
  <2>1. j \in 1 .. Len(walk) /\ kinds[i] = walk[j]
    BY <1>5, <1>6, <1>12
  <2>2. PICK k \in 1 .. j - 1 : walk[k] = x
    BY <1>12, <2>1
  <2>3. k \in 1 .. Len(walk) /\ d + 1 + k \in 1 .. i - 1
    BY <1>1, <2>1, <2>2
  <2>4. kinds[d + 1 + k] = walk[k]
    BY <1>4, <2>3
  <2> QED BY <2>2, <2>3, <2>4
<1>13. ASSUME NEW i \in 1 .. L, ev[i].kind \in {"checkout_started", "order_created"}
       PROVE  \E k \in 1 .. i - 1 : ev[k].kind = "added_to_cart"
  <2>1. PICK k \in 1 .. i - 1 : kinds[k] = "added_to_cart"
    <3> DEFINE T == {"checkout_started", "order_created"}
    <3>1. kinds[i] \in T /\ "session_started" \notin T /\ "user_registered" \notin T
      BY <1>8, <1>13
    <3>2. \A j \in 1 .. Len(walk) : walk[j] \in T => \E k \in 1 .. j - 1 : walk[k] = "added_to_cart"
      BY DEF WalkShape
    <3> HIDE DEF T
    <3> QED BY <1>12, <3>1, <3>2
  <2>2. k \in 1 .. L
    BY <1>1, <2>1
  <2> QED BY <1>8, <2>1, <2>2
<1>14. ASSUME NEW i \in 1 .. L, ev[i].kind \in {"payment_failed", "payment_completed"}
       PROVE  \E k \in 1 .. i - 1 : ev[k].kind = "order_created"
  <2>1. PICK k \in 1 .. i - 1 : kinds[k] = "order_created"
    <3> DEFINE T == {"payment_failed", "payment_completed"}
    <3>1. kinds[i] \in T /\ "session_started" \notin T /\ "user_registered" \notin T
      BY <1>8, <1>14
    <3>2. \A j \in 1 .. Len(walk) : walk[j] \in T => \E k \in 1 .. j - 1 : walk[k] = "order_created"
      BY DEF WalkShape
    <3> HIDE DEF T
    <3> QED BY <1>12, <3>1, <3>2
  <2>2. k \in 1 .. L
    BY <1>1, <2>1
  <2> QED BY <1>8, <2>1, <2>2
<1>15. ASSUME NEW i \in 1 .. L, ev[i].kind = "refund_requested"
       PROVE  /\ i - 1 \in 1 .. L /\ ev[i - 1].kind = "payment_completed"
              /\ ev[i].payment = ev[i - 1].payment
  <2> DEFINE j == i - d - 1
  <2>1. kinds[i] = "refund_requested" /\ ev[i].payment = <<n, i - 1>>
    BY <1>8, <1>15
  <2>2. j \in 1 .. Len(walk) /\ kinds[i] = walk[j]
    BY <1>5, <1>6, <2>1
  <2>3. j - 1 \in 1 .. Len(walk) /\ walk[j - 1] = "payment_completed"
    BY <2>1, <2>2 DEF WalkShape
  <2>4. i - 1 \in 1 .. L /\ d + 1 + (j - 1) = i - 1
    BY <1>1, <2>2, <2>3
  <2>5. kinds[i - 1] = "payment_completed"
    BY <1>4, <2>3, <2>4
  <2> QED BY <1>8, <2>1, <2>4, <2>5
<1>16. ASSUME NEW i \in 1 .. L, NEW k \in 1 .. L,
              ev[i].kind = "order_created", ev[k].kind = "order_created"
       PROVE  i = k
  <2>1. kinds[i] = "order_created" /\ kinds[k] = "order_created"
    BY <1>8, <1>16
  <2>2. /\ i - d - 1 \in 1 .. Len(walk) /\ walk[i - d - 1] = "order_created"
        /\ k - d - 1 \in 1 .. Len(walk) /\ walk[k - d - 1] = "order_created"
    BY <1>5, <1>6, <2>1
  <2>3. i - d - 1 = k - d - 1
    BY <2>2 DEF WalkShape
  <2> QED BY <1>1, <2>3
<1>17. \A i \in 1 .. L : /\ ev[i].payment[1] = n
                         /\ ev[i].kind # "refund_requested" => ev[i].payment = <<n, i>>
  BY <1>8
<1>18. d + 1 \in 1 .. L /\ d + 2 \in 1 .. L /\ 1 \in 1 .. L
  BY <1>1, <1>11
<1>19. JourneyShape(ev, n, c, new, cart, base)
  BY <1>5, <1>8, <1>9, <1>10, <1>11, <1>13, <1>14, <1>15, <1>16, <1>17, <1>18
  DEF JourneyShape, d
<1> QED BY <1>19 DEF ev, n

-----------------------------------------------------------------------------
(* The messages of a journey *)

ValidBody(e) == ValidMessage(e).body

(* Message m carries event e unchanged. *)
Carries(m, e) == m.event = e /\ m.body = ValidBody(e)

(* What the injector adds is judged as its kind says. *)
JudgedAs(m, kind) ==
    /\ kind = "malformed_json" => Verdict(m) = "malformed_json"
    /\ kind = "unknown_event_type" => Verdict(m) = "unknown_event_type"
    /\ kind \in {"missing_field", "payload_mismatch"} => Verdict(m) = "contract_validation_failed"
    /\ kind \in {"none", "duplicate", "out_of_order", "late_event"} => Verdict(m) = "valid"

(* What prepare makes of the events ev: first a message for each, of which *)
(* the first two may have changed places, then the mutated ones.           *)
BatchShape(b, ev) ==
    /\ b \in Seq(Message) /\ Len(b) >= Len(ev)
    /\ \A i \in 1 .. Len(b) : JudgedAs(b[i], b[i].tag)
    /\ \A i \in 1 .. Len(b) : \E k \in 1 .. Len(ev) : b[i].event = ev[k]
    /\ \A k \in 1 .. Len(ev) : \E i \in 1 .. Len(ev) : Carries(b[i], ev[k])
    /\ \A i \in 1 .. Len(ev) :
        \/ b[i].tag = "out_of_order"
        \/ /\ b[i].tag = "none" /\ Carries(b[i], ev[i])
           /\ \A k \in 1 .. i - 1 : \E j \in 1 .. i - 1 : Carries(b[j], ev[k])
    /\ \A i \in Len(ev) + 1 .. Len(b) :
        /\ b[i].tag \notin {"none", "out_of_order"}
        /\ b[i].tag = "duplicate" =>
                \E j \in 1 .. Len(ev) : b[j].event = b[i].event /\ b[j].body = b[i].body

(* A message of an event has its type, and the processor accepts it. *)
LEMMA ValidFacts ==
    ASSUME NEW e \in Event
    PROVE  /\ ValidMessage(e) \in Message /\ ValidMessage(e).tag = "none"
           /\ Carries(ValidMessage(e), e)
           /\ Tagged(ValidMessage(e)) \in Message
           /\ Tagged(ValidMessage(e)).tag = "out_of_order"
           /\ Carries(Tagged(ValidMessage(e)), e)
           /\ \A m : Carries(m, e) => Verdict(m) = "valid"
           /\ ValidBody(e) = [parses |-> TRUE, has_id |-> TRUE, kind |-> e.kind,
                              payload |-> e.kind, time |-> e.time]
<1>1. e.kind \in EventType /\ e.time \in Int
  BY DEF Event
<1> DEFINE v == ValidMessage(e)
           b == [parses |-> TRUE, has_id |-> TRUE, kind |-> e.kind,
                 payload |-> e.kind, time |-> e.time]
<1>2. v = [event |-> e, tag |-> "none", body |-> b]
  BY DEF ValidMessage
<1>3. b \in Body
  BY <1>1 DEF Body
<1>4. \A m : Carries(m, e) => Verdict(m) = "valid"
  <2> SUFFICES ASSUME NEW m, Carries(m, e) PROVE Verdict(m) = "valid"
    OBVIOUS
  <2>1. m.event = e /\ m.body = b
    BY <1>2 DEF Carries, ValidBody
  <2> QED BY <1>1, <2>1 DEF Verdict
<1> HIDE DEF b
<1>5. Tagged(v) = [event |-> e, tag |-> "out_of_order", body |-> b]
  BY <1>2 DEF Tagged
<1>6. "none" \in Anomaly \cup {"none"} /\ "out_of_order" \in Anomaly \cup {"none"}
  BY DEF Anomaly
<1> HIDE DEF v
<1>7. v \in Message /\ Tagged(v) \in Message
  BY <1>2, <1>3, <1>5, <1>6 DEF Message
<1>8. Carries(v, e) /\ Carries(Tagged(v), e) /\ ValidBody(e) = b
  BY <1>2, <1>5 DEF Carries, ValidBody, v
<1> QED BY <1>2, <1>4, <1>5, <1>7, <1>8 DEF v, b

(* A message put together from its parts, without what f names *)
Put(e, tag, f, t, y, z) ==
    [event |-> e, tag |-> tag,
     body |-> [parses |-> f # "parses", has_id |-> f # "has_id", kind |-> t,
               payload |-> y, time |-> z]]

(* How the processor judges it. *)
LEMMA MessageFacts ==
    ASSUME NEW e \in Event, NEW tag \in Anomaly, NEW f \in {"nothing", "parses", "has_id"},
           NEW t \in EventType \cup {"synthetic_unknown_event"}, NEW y \in EventType,
           NEW z \in Int
    PROVE  LET m == Put(e, tag, f, t, y, z) IN
           /\ m \in Message /\ m.event = e /\ m.tag = tag
           /\ f = "parses" => Verdict(m) = "malformed_json"
           /\ f # "parses" /\ t \notin EventType => Verdict(m) = "unknown_event_type"
           /\ f # "parses" /\ t \in EventType /\ (f = "has_id" \/ y # t)
                => Verdict(m) = "contract_validation_failed"
           /\ f = "nothing" /\ t = e.kind /\ y = t => Verdict(m) = "valid"
<1> DEFINE m == Put(e, tag, f, t, y, z)
           b == [parses |-> f # "parses", has_id |-> f # "has_id", kind |-> t,
                 payload |-> y, time |-> z]
<1>1. /\ b \in Body /\ b.parses = (f # "parses") /\ b.has_id = (f # "has_id")
      /\ b.kind = t /\ b.payload = y
  BY DEF Body
<1>2. m = [event |-> e, tag |-> tag, body |-> b]
  BY DEF Put
<1> HIDE DEF b, m
<1>3. m \in Message /\ m.event = e /\ m.tag = tag /\ m.body = b
  BY <1>1, <1>2 DEF Message
<1>4. e.kind \in EventType
  BY DEF Event
<1>5. /\ m.body.parses = (f # "parses") /\ m.body.has_id = (f # "has_id")
      /\ m.body.kind = t /\ m.body.payload = y
  BY <1>1, <1>3
<1>6. f = "nothing" => f # "parses" /\ f # "has_id"
  OBVIOUS
<1>7. /\ f = "parses" => Verdict(m) = "malformed_json"
      /\ f # "parses" /\ t \notin EventType => Verdict(m) = "unknown_event_type"
      /\ f # "parses" /\ t \in EventType /\ (f = "has_id" \/ y # t)
           => Verdict(m) = "contract_validation_failed"
      /\ f = "nothing" /\ t = e.kind /\ y = t => Verdict(m) = "valid"
  BY ONLY <1>3, <1>4, <1>5, <1>6, Zenon DEF Verdict
<1> QED BY <1>3, <1>7 DEF m

(* What _mutate makes of the message of an event. *)
LEMMA MutateFacts ==
    ASSUME NEW e \in Event, NEW all, NEW i \in 1 .. 6,
           \E j \in DOMAIN all : all[j].event.kind # e.kind,
           DOMAIN all \subseteq Nat,
           \A j \in DOMAIN all : 1 .. j - 1 \subseteq DOMAIN all,
           \A j \in DOMAIN all : /\ all[j].body.payload = all[j].event.kind
                                 /\ all[j].event.kind \in EventType
    PROVE  LET m == Mutate(AnomalyOrder[i], ValidMessage(e), all)
           IN  /\ m \in Message /\ m.event = e
               /\ m.tag \notin {"none", "out_of_order"}
               /\ JudgedAs(m, m.tag)
               /\ m.tag = "duplicate" => m.body = ValidBody(e)
<1> DEFINE kind == AnomalyOrder[i]
           src == ValidMessage(e)
           other(j) == all[j].event.kind # src.event.kind
           first == CHOOSE j \in DOMAIN all : other(j) /\ \A q \in 1 .. j - 1 : ~other(q)
           m == Mutate(kind, src, all)
           b == [parses |-> TRUE, has_id |-> TRUE, kind |-> e.kind,
                 payload |-> e.kind, time |-> e.time]
           u == "synthetic_unknown_event"
<1>1. src = [event |-> e, tag |-> "none", body |-> b] /\ ValidBody(e) = b
  BY ValidFacts DEF ValidMessage
<1>2. src.event = e /\ src.body = b
  <2> HIDE DEF src, b
  <2> QED BY <1>1
<1>3. kind \in {"duplicate", "malformed_json", "missing_field", "unknown_event_type",
                "late_event", "payload_mismatch"}
  BY DEF AnomalyOrder
<1>4. kind \in Anomaly
  BY DEF Anomaly, AnomalyOrder
<1> HIDE DEF src, kind
<1>5. first \in DOMAIN all /\ all[first].event.kind # e.kind
  <2> DEFINE C == {j \in DOMAIN all : other(j)}
  <2>1. C \subseteq Nat /\ C # {}
    BY <1>2
  <2>2. PICK j \in C : \A q \in C : j <= q
    <3> HIDE DEF C
    <3> QED BY <2>1, LeastNatural
  <2>3. j \in DOMAIN all /\ other(j) /\ \A q \in 1 .. j - 1 : ~other(q)
    <3>1. j \in DOMAIN all /\ other(j) /\ j \in Nat
      BY <2>1, <2>2
    <3>2. ASSUME NEW q \in 1 .. j - 1 PROVE ~other(q)
      <4>1. q \in DOMAIN all /\ ~(j <= q)
        BY <3>1
      <4>2. q \notin C
        BY <2>2, <4>1
      <4> QED BY <4>1, <4>2
    <3> QED BY <3>1, <3>2
  <2>4. first \in DOMAIN all /\ other(first)
    <3> HIDE DEF other
    <3> QED BY <2>3
  <2> QED BY <1>2, <2>4
<1> DEFINE y == all[first].body.payload
<1>6. y \in EventType /\ y # e.kind
  BY <1>5
<1>7. m = [src EXCEPT !.body =
             CASE kind = "duplicate" -> src.body
               [] kind = "malformed_json" -> [src.body EXCEPT !.parses = FALSE]
               [] kind = "missing_field" -> [src.body EXCEPT !.has_id = FALSE]
               [] kind = "unknown_event_type" -> [src.body EXCEPT !.kind = "synthetic_unknown_event"]
               [] kind = "late_event" -> [src.body EXCEPT !.time = @ - Lateness]
               [] kind = "payload_mismatch" -> [src.body EXCEPT !.payload = y],
             !.tag = kind]
  BY DEF Mutate
<1> HIDE DEF first, y, m, b
<1> DEFINE bd == CASE kind = "duplicate" -> b
                   [] kind = "malformed_json" -> [b EXCEPT !.parses = FALSE]
                   [] kind = "missing_field" -> [b EXCEPT !.has_id = FALSE]
                   [] kind = "unknown_event_type" -> [b EXCEPT !.kind = "synthetic_unknown_event"]
                   [] kind = "late_event" -> [b EXCEPT !.time = @ - Lateness]
                   [] kind = "payload_mismatch" -> [b EXCEPT !.payload = y]
<1>8. m = [event |-> e, tag |-> kind, body |-> bd]
  BY <1>1, <1>2, <1>7
<1> HIDE DEF bd
<1>9. e.kind \in EventType /\ e.time \in Int /\ Lateness \in Int
  BY GeneratorAssumption DEF Event
<1>10. e.kind # u /\ u \notin EventType /\ u \in EventType \cup {u} /\ TRUE \in BOOLEAN
       /\ FALSE \in BOOLEAN /\ e.kind \in EventType \cup {u} /\ e.time - Lateness \in Int
  BY <1>9 DEF EventType
<1> DEFINE Goal == /\ m \in Message /\ m.event = e
                   /\ m.tag \notin {"none", "out_of_order"}
                   /\ JudgedAs(m, m.tag)
                   /\ m.tag = "duplicate" => m.body = ValidBody(e)
<1>11. ASSUME kind = "duplicate" PROVE Goal
  <2>1. bd = b
    BY ONLY <1>11 DEF bd
  <2>2. bd = [parses |-> TRUE, has_id |-> TRUE, kind |-> e.kind, payload |-> e.kind, time |-> e.time]
    BY <2>1 DEF b
  <2>3. m = Put(e, kind, "nothing", e.kind, e.kind, e.time)
    BY <1>8, <2>2 DEF Put
  <2>4. m \in Message /\ m.event = e /\ m.tag = kind /\ Verdict(m) = "valid"
    BY <1>4, <1>9, <1>10, <2>3, MessageFacts
  <2>5. m.body = b
    BY <1>8, <2>1
  <2> QED BY <1>1, <1>11, <2>4, <2>5 DEF JudgedAs
<1>12. ASSUME kind = "malformed_json" PROVE Goal
  <2>1. bd = [b EXCEPT !.parses = FALSE]
    BY ONLY <1>12 DEF bd
  <2>2. bd = [parses |-> FALSE, has_id |-> TRUE, kind |-> e.kind, payload |-> e.kind, time |-> e.time]
    BY <2>1 DEF b
  <2>3. m = Put(e, kind, "parses", e.kind, e.kind, e.time)
    BY <1>8, <2>2 DEF Put
  <2>4. m \in Message /\ m.event = e /\ m.tag = kind /\ Verdict(m) = "malformed_json"
    BY <1>4, <1>9, <1>10, <2>3, MessageFacts
  <2> QED BY <1>1, <1>12, <2>4 DEF JudgedAs
<1>13. ASSUME kind = "missing_field" PROVE Goal
  <2>1. bd = [b EXCEPT !.has_id = FALSE]
    BY ONLY <1>13 DEF bd
  <2>2. bd = [parses |-> TRUE, has_id |-> FALSE, kind |-> e.kind, payload |-> e.kind, time |-> e.time]
    BY <2>1 DEF b
  <2>3. m = Put(e, kind, "has_id", e.kind, e.kind, e.time)
    BY <1>8, <2>2 DEF Put
  <2>4. m \in Message /\ m.event = e /\ m.tag = kind /\ Verdict(m) = "contract_validation_failed"
    BY <1>4, <1>9, <1>10, <2>3, MessageFacts
  <2> QED BY <1>1, <1>13, <2>4 DEF JudgedAs
<1>14. ASSUME kind = "unknown_event_type" PROVE Goal
  <2>1. bd = [b EXCEPT !.kind = "synthetic_unknown_event"]
    BY ONLY <1>14 DEF bd
  <2>2. bd = [parses |-> TRUE, has_id |-> TRUE, kind |-> u, payload |-> e.kind, time |-> e.time]
    BY <2>1 DEF b
  <2>3. m = Put(e, kind, "nothing", u, e.kind, e.time)
    BY <1>8, <2>2 DEF Put
  <2>4. m \in Message /\ m.event = e /\ m.tag = kind /\ Verdict(m) = "unknown_event_type"
    BY <1>4, <1>9, <1>10, <2>3, MessageFacts
  <2> QED BY <1>1, <1>14, <2>4 DEF JudgedAs
<1>15. ASSUME kind = "late_event" PROVE Goal
  <2>1. bd = [b EXCEPT !.time = @ - Lateness]
    BY ONLY <1>15 DEF bd
  <2>2. bd = [parses |-> TRUE, has_id |-> TRUE, kind |-> e.kind, payload |-> e.kind, time |-> e.time - Lateness]
    BY <2>1 DEF b
  <2>3. m = Put(e, kind, "nothing", e.kind, e.kind, e.time - Lateness)
    BY <1>8, <2>2 DEF Put
  <2>4. m \in Message /\ m.event = e /\ m.tag = kind /\ Verdict(m) = "valid"
    BY <1>4, <1>9, <1>10, <2>3, MessageFacts
  <2> QED BY <1>1, <1>15, <2>4 DEF JudgedAs
<1>16. ASSUME kind = "payload_mismatch" PROVE Goal
  <2>1. bd = [b EXCEPT !.payload = y]
    BY ONLY <1>16 DEF bd
  <2>2. bd = [parses |-> TRUE, has_id |-> TRUE, kind |-> e.kind, payload |-> y, time |-> e.time]
    BY <2>1 DEF b
  <2>3. m = Put(e, kind, "nothing", e.kind, y, e.time)
    BY <1>8, <2>2 DEF Put
  <2>4. m \in Message /\ m.event = e /\ m.tag = kind /\ Verdict(m) = "contract_validation_failed"
    BY <1>4, <1>6, <1>9, <1>10, <2>3, MessageFacts
  <2> QED BY <1>1, <1>16, <2>4 DEF JudgedAs
<1> QED BY <1>3, <1>11, <1>12, <1>13, <1>14, <1>15, <1>16 DEF m, kind, src

(* The messages the injector may add for the events ev *)
Additions(ev) ==
    {m \in Message : \E k \in 1 .. Len(ev) :
        /\ m.event = ev[k]
        /\ m.tag \notin {"none", "out_of_order"}
        /\ JudgedAs(m, m.tag)
        /\ m.tag = "duplicate" => m.body = ValidBody(ev[k])}

(* Injected makes only such messages, whichever kinds were chosen. *)
LEMMA InjectedShape ==
    ASSUME NEW ev \in Seq(Event), NEW kinds, Len(ev) >= 1,
           \A k \in 1 .. Len(ev) : \E j \in 1 .. Len(ev) : ev[j].kind # ev[k].kind
    PROVE  Injected(kinds, [j \in DOMAIN ev |-> ValidMessage(ev[j])]) \in Seq(Additions(ev))
<1> DEFINE valid == [j \in DOMAIN ev |-> ValidMessage(ev[j])]
           G == Additions(ev)
           n == Len(ev)
<1>1. DOMAIN ev = 1 .. n /\ DOMAIN valid = 1 .. n /\ n \in Nat
  OBVIOUS
<1>2. ASSUME NEW j \in 1 .. n
      PROVE  /\ valid[j] = ValidMessage(ev[j]) /\ ev[j] \in Event /\ valid[j].event = ev[j]
             /\ valid[j].body.payload = ev[j].kind /\ ev[j].kind \in EventType
             /\ valid[j] \in Message
  <2>1. valid[j] = ValidMessage(ev[j]) /\ ev[j] \in Event
    BY <1>1
  <2> DEFINE e == ev[j]
  <2>2. /\ e \in Event /\ e.kind \in EventType
    BY <2>1 DEF Event
  <2> HIDE DEF valid, e
  <2>3. /\ ValidMessage(e) \in Message /\ ValidMessage(e).event = e
        /\ ValidMessage(e).body = [parses |-> TRUE, has_id |-> TRUE, kind |-> e.kind,
                                   payload |-> e.kind, time |-> e.time]
    BY <2>2, ValidFacts DEF Carries
  <2>4. ValidMessage(e).body.payload = e.kind
    BY <2>3
  <2> QED BY <2>1, <2>2, <2>3, <2>4 DEF e
<1>3. Len(valid) = n
  <2>1. valid \in [1 .. n -> Message]
    BY <1>1, <1>2
  <2> HIDE DEF valid, n
  <2> QED BY <1>1, <2>1
<1> HIDE DEF valid
<1>4. ASSUME NEW i \in 1 .. 6
      PROVE  Mutate(AnomalyOrder[i], valid[((i - 1) % Len(valid)) + 1], valid) \in G
  <2> DEFINE k == ((i - 1) % Len(valid)) + 1
  <2>1. k \in 1 .. n
    BY <1>1, <1>3
  <2> HIDE DEF k
  <2> DEFINE m == Mutate(AnomalyOrder[i], ValidMessage(ev[k]), valid)
  <2>2. /\ \E j \in DOMAIN valid : valid[j].event.kind # ev[k].kind
        /\ DOMAIN valid \subseteq Nat
        /\ \A j \in DOMAIN valid : 1 .. j - 1 \subseteq DOMAIN valid
        /\ \A j \in DOMAIN valid : /\ valid[j].body.payload = valid[j].event.kind
                                   /\ valid[j].event.kind \in EventType
        /\ ev[k] \in Event
    <3>1. PICK j \in 1 .. n : ev[j].kind # ev[k].kind
      BY <2>1
    <3>2. valid[j].event.kind # ev[k].kind
      BY <1>2, <3>1
    <3>3. /\ DOMAIN valid \subseteq Nat
          /\ \A q \in DOMAIN valid : 1 .. q - 1 \subseteq DOMAIN valid
      <4> HIDE DEF n
      <4> QED BY <1>1
    <3>4. \A q \in DOMAIN valid : /\ valid[q].body.payload = valid[q].event.kind
                                  /\ valid[q].event.kind \in EventType
      BY <1>1, <1>2
    <3>5. ev[k] \in Event
      BY <1>2, <2>1
    <3> QED BY <1>1, <3>1, <3>2, <3>3, <3>4, <3>5
  <2>3. /\ m \in Message /\ m.event = ev[k] /\ m.tag \notin {"none", "out_of_order"}
        /\ JudgedAs(m, m.tag)
        /\ m.tag = "duplicate" => m.body = ValidBody(ev[k])
    BY <2>2, MutateFacts
  <2>4. m \in G
    <3> HIDE DEF m
    <3> QED BY <2>1, <2>3 DEF Additions
  <2>5. valid[k] = ValidMessage(ev[k])
    BY <1>2, <2>1
  <2> QED BY <2>4, <2>5 DEF k
<1> DEFINE M(i) == Mutate(AnomalyOrder[i], valid[((i - 1) % Len(valid)) + 1], valid)
           con(i) == IF AnomalyOrder[i] \in kinds THEN <<M(i)>> ELSE <<>>
<1> HIDE DEF G, M
<1>5. ASSUME NEW i \in 1 .. 6 PROVE con(i) \in Seq(G)
  <2>1. M(i) \in G
    BY <1>4 DEF M
  <2> QED BY <2>1
<1> HIDE DEF con
<1>6. /\ con(1) \in Seq(G) /\ con(2) \in Seq(G) /\ con(3) \in Seq(G)
      /\ con(4) \in Seq(G) /\ con(5) \in Seq(G) /\ con(6) \in Seq(G)
  BY <1>5
<1>7. con(1) \o con(2) \o con(3) \o con(4) \o con(5) \o con(6) \in Seq(G)
  BY ONLY <1>6
<1>8. Injected(kinds, valid) = con(1) \o con(2) \o con(3) \o con(4) \o con(5) \o con(6)
  BY DEF Injected, con, M
<1> QED BY <1>7, <1>8 DEF G, valid

(* The sequence of all messages, before two of them may change places *)
LEMMA UnswappedShape ==
    ASSUME NEW ev \in Seq(Event), NEW inj \in Seq(Additions(ev)), Len(ev) >= 2
    PROVE  LET b == [j \in DOMAIN ev |-> ValidMessage(ev[j])] \o inj
           IN  /\ b \in Seq(Message) /\ Len(b) >= Len(ev)
               /\ \A i \in 1 .. Len(ev) : b[i] = ValidMessage(ev[i])
               /\ \A i \in Len(ev) + 1 .. Len(b) : b[i] \in Additions(ev)
<1> DEFINE valid == [j \in DOMAIN ev |-> ValidMessage(ev[j])]
           n == Len(ev)
<1>1. DOMAIN ev = 1 .. n /\ n \in Nat /\ \A i \in 1 .. n : ev[i] \in Event
  OBVIOUS
<1>2. \A i \in 1 .. n : valid[i] = ValidMessage(ev[i])
  BY <1>1
<1>3. valid \in [1 .. n -> Message]
  <2>1. \A i \in 1 .. n : ValidMessage(ev[i]) \in Message
    BY <1>1, ValidFacts
  <2> QED BY <1>1, <2>1
<1> HIDE DEF valid, n
<1>4. valid \in Seq(Message) /\ Len(valid) = n
  BY <1>1, <1>3
<1>5. /\ inj \in Seq(Message) /\ Len(inj) \in Nat
      /\ \A i \in 1 .. Len(inj) : inj[i] \in Additions(ev)
  <2>1. Additions(ev) \subseteq Message
    BY DEF Additions
  <2> HIDE DEF Additions
  <2> QED BY <2>1, ElementOfSeq, SeqMonotonic
<1> DEFINE b == valid \o inj
<1>6. /\ b \in Seq(Message) /\ Len(b) = Len(valid) + Len(inj)
      /\ \A k \in 1 .. Len(valid) : b[k] = valid[k]
      /\ \A k \in 1 .. Len(b) : k \notin 1 .. Len(valid) =>
            k - Len(valid) \in 1 .. Len(inj) /\ b[k] = inj[k - Len(valid)]
  BY ONLY <1>4, <1>5, ConcatAt
<1> HIDE DEF b
<1>7. /\ b \in Seq(Message) /\ Len(b) >= n
      /\ \A i \in 1 .. n : b[i] = ValidMessage(ev[i])
      /\ \A i \in n + 1 .. Len(b) : b[i] \in Additions(ev)
  <2>1. b \in Seq(Message) /\ Len(b) = n + Len(inj) /\ Len(b) \in Nat
    BY <1>1, <1>4, <1>5, <1>6
  <2>2. \A i \in 1 .. n : b[i] = ValidMessage(ev[i])
    BY <1>2, <1>4, <1>6
  <2>3. \A i \in n + 1 .. Len(b) : b[i] \in Additions(ev)
    <3> SUFFICES ASSUME NEW i \in n + 1 .. Len(b) PROVE b[i] \in Additions(ev)
      OBVIOUS
    <3>1. i \in 1 .. Len(b) /\ i \notin 1 .. Len(valid)
      BY <1>1, <1>4, <2>1
    <3>2. i - Len(valid) \in 1 .. Len(inj) /\ b[i] = inj[i - Len(valid)]
      BY <1>6, <3>1
    <3> HIDE DEF Additions
    <3> QED BY <1>5, <3>2
  <2> QED BY <1>1, <1>5, <2>1, <2>2, <2>3
<1> QED BY <1>7 DEF b, valid, n

(* A message that carries its event is judged as an untouched one is. *)
LEMMA JudgedValid ==
    ASSUME NEW e \in Event, NEW m, Carries(m, e), m.tag \in {"none", "out_of_order"}
    PROVE  JudgedAs(m, m.tag)
<1>1. Verdict(m) = "valid"
  BY ValidFacts
<1> QED BY <1>1 DEF JudgedAs

(* prepare returns such a sequence. *)
LEMMA PreparedShape ==
    ASSUME NEW n \in Nat, NEW c, NEW new \in BOOLEAN, NEW cart, NEW base, NEW ev,
           JourneyShape(ev, n, c, new, cart, base), NEW b \in Prepared(ev)
    PROVE  BatchShape(b, ev)
<1> DEFINE L == Len(ev)
           valid == [j \in DOMAIN ev |-> ValidMessage(ev[j])]
<1>1. /\ ev \in Seq(Event) /\ L \in Nat /\ L >= 2 /\ DOMAIN ev = 1 .. L
      /\ \A i \in 1 .. L : ev[i] \in Event
  <2>1. ev \in Seq(Event) /\ L >= 2
    BY DEF JourneyShape, Before
  <2> QED BY <2>1
<1>2. \A k \in 1 .. L : \E j \in 1 .. L : ev[j].kind # ev[k].kind
  <2> DEFINE d == Before(new)
  <2>1. d + 1 \in 1 .. L /\ d + 2 \in 1 .. L
    BY <1>1 DEF JourneyShape, Before
  <2>2. ev[d + 1].kind = "session_started" /\ ev[d + 2].kind = "product_viewed"
    BY DEF JourneyShape
  <2> HIDE DEF d, L
  <2> QED BY <2>1, <2>2
<1>3. PICK kinds : \/ b = valid \o Injected(kinds, valid)
                   \/ b = Swapped(valid \o Injected(kinds, valid))
  BY DEF Prepared
<1> DEFINE inj == Injected(kinds, valid)
           q == valid \o inj
<1>4. inj \in Seq(Additions(ev))
  <2>1. /\ ev \in Seq(Event) /\ Len(ev) >= 1
        /\ \A k \in 1 .. Len(ev) : \E j \in 1 .. Len(ev) : ev[j].kind # ev[k].kind
    BY <1>1, <1>2
  <2> QED BY ONLY <2>1, InjectedShape
<1>5. /\ q \in Seq(Message) /\ Len(q) >= L /\ Len(q) \in Nat
      /\ \A i \in 1 .. L : q[i] = ValidMessage(ev[i])
      /\ \A i \in L + 1 .. Len(q) : q[i] \in Additions(ev)
  <2> HIDE DEF inj
  <2>1. /\ q \in Seq(Message) /\ Len(q) >= L
        /\ \A i \in 1 .. L : q[i] = ValidMessage(ev[i])
        /\ \A i \in L + 1 .. Len(q) : q[i] \in Additions(ev)
    BY <1>1, <1>4, UnswappedShape
  <2> HIDE DEF q
  <2> QED BY <2>1
<1>6. b = q \/ b = Swapped(q)
  BY <1>3
<1> HIDE DEF q, inj, valid, L
<1>7. ASSUME NEW i \in 1 .. L
      PROVE  /\ ev[i] \in Event /\ q[i] \in Message /\ q[i].tag = "none" /\ Carries(q[i], ev[i])
             /\ Tagged(q[i]) \in Message /\ Tagged(q[i]).tag = "out_of_order"
             /\ Carries(Tagged(q[i]), ev[i])
  <2>1. q[i] = ValidMessage(ev[i]) /\ ev[i] \in Event
    BY <1>1, <1>5
  <2> QED BY <2>1, ValidFacts
<1>8. ASSUME NEW i \in L + 1 .. Len(q)
      PROVE  /\ JudgedAs(q[i], q[i].tag) /\ q[i].tag \notin {"none", "out_of_order"}
             /\ \E k \in 1 .. L : q[i].event = ev[k]
             /\ q[i].tag = "duplicate" =>
                    \E k \in 1 .. L : q[i].event = ev[k] /\ q[i].body = ValidBody(ev[k])
  BY <1>5 DEF Additions, L
<1>9. CASE b = q
  <2>1. \A i \in 1 .. L : b[i].tag = "none" /\ Carries(b[i], ev[i]) /\ JudgedAs(b[i], b[i].tag)
    BY <1>7, <1>9, JudgedValid
  <2>2. \A i \in 1 .. Len(b) : i \in 1 .. L \/ i \in L + 1 .. Len(b)
    BY <1>1, <1>5, <1>9
  <2>3. \A i \in 1 .. Len(b) : JudgedAs(b[i], b[i].tag)
    BY <1>8, <1>9, <2>1, <2>2
  <2>4. \A i \in 1 .. Len(b) : \E k \in 1 .. L : b[i].event = ev[k]
    BY <1>8, <1>9, <2>1, <2>2 DEF Carries
  <2>5. \A i \in 1 .. L : 1 .. i - 1 \subseteq 1 .. L
    BY <1>1
  <2>6. \A i \in 1 .. L : \A k \in 1 .. i - 1 : \E j \in 1 .. i - 1 : Carries(b[j], ev[k])
    BY <2>1, <2>5
  <2>7. \A i \in L + 1 .. Len(b) :
          /\ b[i].tag \notin {"none", "out_of_order"}
          /\ b[i].tag = "duplicate" =>
                \E j \in 1 .. L : b[j].event = b[i].event /\ b[j].body = b[i].body
    BY <1>8, <1>9, <2>1 DEF Carries
  <2> QED BY <1>5, <1>9, <2>1, <2>3, <2>4, <2>6, <2>7 DEF BatchShape, L
<1>10. CASE b = Swapped(q)
  <2>1. /\ DOMAIN q = 1 .. Len(q) /\ 1 \in 1 .. L /\ 2 \in 1 .. L
        /\ \A i \in 1 .. L : i \in 1 .. Len(q)
    BY <1>1, <1>5
  <2>2. \A i \in 1 .. Len(q) : b[i] = IF i = 1 THEN Tagged(q[2])
                                      ELSE IF i = 2 THEN Tagged(q[1]) ELSE q[i]
    BY <1>10, <2>1 DEF Swapped
  <2>3. b \in [1 .. Len(q) -> Message]
    <3>1. \A i \in 1 .. Len(q) : q[i] \in Message
      BY <1>5
    <3> QED BY <1>7, <1>10, <2>1, <3>1 DEF Swapped
  <2>4. b \in Seq(Message) /\ Len(b) = Len(q)
    BY <1>5, <2>3
  <2>5. /\ b[1].tag = "out_of_order" /\ Carries(b[1], ev[2])
        /\ b[2].tag = "out_of_order" /\ Carries(b[2], ev[1])
    BY <1>7, <2>1, <2>2
  <2>6. \A i \in 1 .. Len(q) : i = 1 \/ i = 2 \/ i \in 3 .. L \/ i \in L + 1 .. Len(q)
    BY <1>1, <1>5
  <2>7. \A i \in 3 .. L : b[i].tag = "none" /\ Carries(b[i], ev[i]) /\ i \in 1 .. L
    BY <1>1, <1>7, <2>1, <2>2
  <2>8. \A i \in L + 1 .. Len(q) : b[i] = q[i]
    BY <1>1, <1>5, <2>2
  <2>9. \A i \in 1 .. Len(q) : JudgedAs(b[i], b[i].tag)
    BY <1>1, <1>8, <2>1, <2>5, <2>6, <2>7, <2>8, JudgedValid
  <2>10. \A i \in 1 .. Len(q) : \E k \in 1 .. L : b[i].event = ev[k]
    BY <1>8, <2>1, <2>5, <2>6, <2>7, <2>8 DEF Carries
  <2>11. \A k \in 1 .. L : k = 1 \/ k = 2 \/ k \in 3 .. L
    BY <1>1
  <2>12. \A k \in 1 .. L : \E i \in 1 .. L : Carries(b[i], ev[k])
    BY <2>1, <2>5, <2>7, <2>11
  <2>13. \A i \in 3 .. L : \A k \in 1 .. i - 1 : \E j \in 1 .. i - 1 : Carries(b[j], ev[k])
    <3> SUFFICES ASSUME NEW i \in 3 .. L, NEW k \in 1 .. i - 1
                 PROVE  \E j \in 1 .. i - 1 : Carries(b[j], ev[k])
      OBVIOUS
    <3>1. 1 \in 1 .. i - 1 /\ 2 \in 1 .. i - 1 /\ (k = 1 \/ k = 2 \/ k \in 3 .. L)
      BY <1>1
    <3> QED BY <2>5, <2>7, <3>1
  <2>14. \A i \in L + 1 .. Len(q) :
          /\ b[i].tag \notin {"none", "out_of_order"}
          /\ b[i].tag = "duplicate" =>
                \E j \in 1 .. L : b[j].event = b[i].event /\ b[j].body = b[i].body
    <3> SUFFICES ASSUME NEW i \in L + 1 .. Len(q)
                 PROVE  /\ b[i].tag \notin {"none", "out_of_order"}
                        /\ b[i].tag = "duplicate" =>
                            \E j \in 1 .. L : b[j].event = b[i].event /\ b[j].body = b[i].body
      OBVIOUS
    <3>1. b[i].tag \notin {"none", "out_of_order"}
      BY <1>8, <2>8
    <3>2. ASSUME b[i].tag = "duplicate"
          PROVE  \E j \in 1 .. L : b[j].event = b[i].event /\ b[j].body = b[i].body
      <4>1. PICK k \in 1 .. L : b[i].event = ev[k] /\ b[i].body = ValidBody(ev[k])
        BY <1>8, <2>8, <3>2
      <4>2. PICK j \in 1 .. L : Carries(b[j], ev[k])
        BY <2>12
      <4> QED BY <4>1, <4>2 DEF Carries
    <3> QED BY <3>1, <3>2
  <2>15. \A i \in 1 .. L : \/ b[i].tag = "out_of_order"
                           \/ /\ b[i].tag = "none" /\ Carries(b[i], ev[i])
                              /\ \A k \in 1 .. i - 1 : \E j \in 1 .. i - 1 : Carries(b[j], ev[k])
    BY <2>5, <2>7, <2>11, <2>13
  <2> QED BY <1>5, <2>4, <2>9, <2>10, <2>12, <2>14, <2>15 DEF BatchShape, L
<1> QED BY <1>6, <1>9, <1>10

-----------------------------------------------------------------------------
(* What Build does, whichever way it is taken: the events ev of a journey  *)
(* of customer c are prepared, and the pool keeps the customer.            *)
Took(p, c, new, cart, base, ev) ==
    /\ p \in Persona /\ new \in BOOLEAN /\ c \in Nat /\ cart \in Nat /\ base \in Nat
    /\ JourneyShape(ev, journeys + 1, c, new, cart, base)
    /\ BatchShape(batch', ev)
    /\ store' = [d \in DOMAIN store \cup {c} |->
                    IF d = c THEN Finished(c, p, cart, ev) ELSE store[d]]
    /\ new => c = journeys + 1
    /\ ~new => c \in DOMAIN store /\ base > store[c].last
    /\ \/ cart = journeys + 1
       \/ c \in DOMAIN store /\ cart = store[c].abandoned /\ cart # NoCart
    /\ p = "account_takeover" => c \in DOMAIN store /\ store[c].history

(* Journey takes such a step, if its customer is new or returning. *)
LEMMA JourneyFacts ==
    ASSUME TypeOK, NEW p \in Persona, NEW c \in Nat, NEW new \in BOOLEAN, NEW base \in Nat,
           Journey(p, c, new, base),
           new => c = journeys + 1,
           ~new => c \in DOMAIN store /\ base > store[c].last,
           p = "account_takeover" => c \in DOMAIN store /\ store[c].history
    PROVE  \E cart, ev : Took(p, c, new, cart, base, ev)
<1> DEFINE profile == IF Seeding THEN SeedingProfile ELSE Profile[p]
           cart == CartOf(profile, c)
<1>1. PICK walk \in Walks(profile) :
        /\ batch' \in Prepared(Events(c, new, cart, walk, base))
        /\ store' = [d \in DOMAIN store \cup {c} |->
                        IF d = c THEN Finished(c, p, cart, Events(c, new, cart, walk, base))
                        ELSE store[d]]
  BY DEF Journey
<1>2. WalkShape(walk)
  BY WalksShape
<1>3. /\ cart \in Nat /\ journeys \in Nat
      /\ \/ cart = journeys + 1
         \/ c \in DOMAIN store /\ cart = store[c].abandoned /\ cart # NoCart
  <2>1. journeys \in Nat
    BY GeneratorAssumption DEF TypeOK
  <2>2. c \in DOMAIN store => store[c].abandoned \in Nat
    BY DEF TypeOK, Customer
  <2> QED BY <2>1, <2>2 DEF CartOf
<1> HIDE DEF cart, profile
<1> DEFINE ev == Events(c, new, cart, walk, base)
<1>4. JourneyShape(ev, journeys + 1, c, new, cart, base)
  BY <1>2, <1>3, EventsShape
<1> HIDE DEF ev
<1>5. batch' \in Prepared(ev)
  BY <1>1 DEF ev
<1>6. BatchShape(batch', ev)
  <2> DEFINE b == batch'
  <2>1. b \in Prepared(ev) /\ journeys + 1 \in Nat
    BY <1>3, <1>5
  <2> HIDE DEF b
  <2>2. BatchShape(b, ev)
    BY <1>4, <2>1, PreparedShape
  <2> QED BY <2>2 DEF b
<1>7. store' = [d \in DOMAIN store \cup {c} |->
                    IF d = c THEN Finished(c, p, cart, ev) ELSE store[d]]
  BY <1>1 DEF ev
<1>8. Took(p, c, new, cart, base, ev)
  BY <1>3, <1>4, <1>6, <1>7 DEF Took
<1> QED BY <1>8

(* Build takes such a step: a takeover is only of a customer with a       *)
(* history, and a returning customer starts after the last activity.       *)
LEMMA BuildFacts ==
    ASSUME TypeOK, Build
    PROVE  \E p, c, new, cart, base, ev : Took(p, c, new, cart, base, ev)
<1>1. PICK p \in ChosenPersonas, now \in config.clock :
        \/ \E c \in Returning(p) : Journey(p, c, FALSE, Base(c, now))
        \/ CreatesNew(p) /\ ~PoolFull /\ Journey(p, journeys + 1, TRUE, now)
  BY DEF Build
<1>2. /\ config.clock \subseteq Nat /\ config.persona \in Persona \cup {"mix"}
      /\ config \in ConfigType
  BY GeneratorAssumption DEF TypeOK, ConfigType
<1>3. /\ now \in Nat /\ journeys \in Nat /\ DOMAIN store \subseteq 1 .. journeys
      /\ \A c \in DOMAIN store : c \in Nat /\ store[c].last \in Nat
  BY <1>1, <1>2, GeneratorAssumption DEF TypeOK, Customer
<1>4. p \in Persona /\ (p = "account_takeover" => TakeoverCandidates # {})
  <2>1. CASE Seeding
    BY <1>1, <2>1 DEF ChosenPersonas, Persona
  <2>2. CASE ~Seeding /\ config.persona # "mix"
    BY <1>1, <1>2, <2>2 DEF ChosenPersonas, Seeding
  <2>3. CASE ~Seeding /\ config.persona = "mix"
    BY <1>1, <2>3 DEF ChosenPersonas
  <2> QED BY <2>1, <2>2, <2>3
<1>5. ASSUME NEW c \in Returning(p), Journey(p, c, FALSE, Base(c, now))
      PROVE  \E new, cart, base, ev : Took(p, c, new, cart, base, ev)
  <2>1. /\ c \in DOMAIN store
        /\ p = "account_takeover" => store[c].history
    BY <1>5 DEF Returning, TakeoverCandidates
  <2> DEFINE base == Base(c, now)
  <2>2. base \in Nat /\ base > store[c].last /\ c \in Nat
    BY <1>3, <2>1 DEF Base
  <2> HIDE DEF base
  <2>3. Journey(p, c, FALSE, base)
    BY <1>5 DEF base
  <2>4. \E cart, ev : Took(p, c, FALSE, cart, base, ev)
    BY <1>4, <2>1, <2>2, <2>3, JourneyFacts
  <2> QED BY <2>4
<1>6. ASSUME CreatesNew(p), Journey(p, journeys + 1, TRUE, now)
      PROVE  \E c, new, cart, base, ev : Took(p, c, new, cart, base, ev)
  <2>1. p # "account_takeover"
    BY <1>4, <1>6 DEF CreatesNew, Returning
  <2>2. journeys + 1 \in Nat
    BY <1>3
  <2> DEFINE c == journeys + 1
  <2>3. \E cart, ev : Took(p, c, TRUE, cart, now, ev)
    BY <1>3, <1>4, <1>6, <2>1, <2>2, JourneyFacts
  <2> QED BY <2>3
<1> QED BY <1>1, <1>5, <1>6

-----------------------------------------------------------------------------
(* Sequences of messages that grow at the end, or are cut there *)

(* What holds of all that was to be handed over holds when the process     *)
(* ends before all of it was.                                              *)
LEMMA PrefixKeeps ==
    ASSUME NEW s \in Seq(Message), NEW t \in Seq(Message), Len(t) <= Len(s),
           \A i \in 1 .. Len(t) : t[i] = s[i]
    PROVE  /\ VerdictsIn(s) => VerdictsIn(t)
           /\ ForwardIn(s) => ForwardIn(t)
           /\ ReferredBefore(s) => ReferredBefore(t)
           /\ CreatedOnce(s) => CreatedOnce(t)
<1>1. /\ DOMAIN s = 1 .. Len(s) /\ DOMAIN t = 1 .. Len(t) /\ Len(s) \in Nat /\ Len(t) \in Nat
  OBVIOUS
<1>2. \A i \in DOMAIN t : /\ i \in DOMAIN s /\ t[i] = s[i]
                          /\ \A k \in 1 .. i - 1 : t[k] = s[k] /\ k \in DOMAIN t
  BY <1>1
<1>3. ASSUME VerdictsIn(s) PROVE VerdictsIn(t)
  BY <1>2, <1>3 DEF VerdictsIn
<1>4. ASSUME ForwardIn(s) PROVE ForwardIn(t)
  BY <1>2, <1>4 DEF ForwardIn
<1>5. ASSUME ReferredBefore(s) PROVE ReferredBefore(t)
  BY <1>2, <1>5 DEF ReferredBefore
<1>6. ASSUME CreatedOnce(s) PROVE CreatedOnce(t)
  BY <1>2, <1>6 DEF CreatedOnce
<1> QED BY <1>3, <1>4, <1>5, <1>6

(* s is the sequence q, followed by b. *)
Appended(s, q, b) ==
    /\ s \in Seq(Message) /\ q \in Seq(Message) /\ b \in Seq(Message)
    /\ Len(s) \in Nat /\ Len(q) \in Nat /\ Len(b) \in Nat
    /\ DOMAIN s = 1 .. Len(s) /\ DOMAIN q = 1 .. Len(q)
    /\ Len(s) = Len(q) + Len(b)
    /\ \A i \in 1 .. Len(q) : s[i] = q[i] /\ i \in 1 .. Len(s)
    /\ \A k \in 1 .. Len(b) : s[Len(q) + k] = b[k] /\ Len(q) + k \in 1 .. Len(s)
    /\ \A i \in 1 .. Len(s) :
        \/ i \in 1 .. Len(q)
        \/ i - Len(q) \in 1 .. Len(b) /\ s[i] = b[i - Len(q)]

(* Concatenation appends. *)
LEMMA AppendedFacts ==
    ASSUME NEW q \in Seq(Message), NEW b \in Seq(Message)
    PROVE  Appended(q \o b, q, b)
<1> DEFINE s == q \o b
<1>1. /\ s \in Seq(Message) /\ Len(q) \in Nat /\ Len(b) \in Nat
      /\ Len(s) = Len(q) + Len(b)
      /\ \A k \in 1 .. Len(q) : s[k] = q[k]
      /\ \A k \in 1 .. Len(b) : s[Len(q) + k] = b[k]
      /\ \A k \in 1 .. Len(s) :
                k \notin 1 .. Len(q) =>
                    k - Len(q) \in 1 .. Len(b) /\ s[k] = b[k - Len(q)]
  BY ConcatAt
<1>2. DOMAIN q = 1 .. Len(q)
  OBVIOUS
<1> HIDE DEF s
<1>3. DOMAIN s = 1 .. Len(s) /\ Len(s) \in Nat
  BY <1>1
<1>4. Appended(s, q, b)
  BY <1>1, <1>2, <1>3 DEF Appended
<1> QED BY <1>4 DEF s

(* A batch that is judged as it should be is so after what came before. *)
LEMMA VerdictsAppended ==
    ASSUME NEW s, NEW q, NEW b, NEW ev, Appended(s, q, b), BatchShape(b, ev), Len(ev) \in Nat,
           VerdictsIn(q)
    PROVE  VerdictsIn(s)
<1> SUFFICES ASSUME NEW i \in DOMAIN s
             PROVE  LET m == s[i] IN
                    /\ m.tag = "malformed_json" => Verdict(m) = "malformed_json"
                    /\ m.tag = "unknown_event_type" => Verdict(m) = "unknown_event_type"
                    /\ m.tag \in {"missing_field", "payload_mismatch"}
                        => Verdict(m) = "contract_validation_failed"
                    /\ m.tag \in {"none", "duplicate", "out_of_order", "late_event"}
                        => Verdict(m) = "valid"
                    /\ m.tag = "duplicate" => \E k \in 1 .. i - 1 : /\ s[k].event = m.event
                                                                    /\ s[k].body = m.body
  BY DEF VerdictsIn
<1>1. CASE i \in 1 .. Len(q)
  <2>1. s[i] = q[i] /\ i \in DOMAIN q /\ \A k \in 1 .. i - 1 : s[k] = q[k]
    BY <1>1 DEF Appended
  <2> QED BY <2>1 DEF VerdictsIn
<1>2. CASE i \notin 1 .. Len(q)
  <2> DEFINE k == i - Len(q)
  <2>1. k \in 1 .. Len(b) /\ s[i] = b[k] /\ Len(q) \in Nat /\ Len(b) \in Nat /\ i = Len(q) + k
    BY <1>2 DEF Appended
  <2>2. JudgedAs(b[k], b[k].tag)
    BY <2>1 DEF BatchShape
  <2>3. ASSUME b[k].tag = "duplicate"
        PROVE  \E j \in 1 .. i - 1 : s[j].event = s[i].event /\ s[j].body = s[i].body
    <3>1. k \notin 1 .. Len(ev)
      BY <2>3 DEF BatchShape
    <3>2. k \in Len(ev) + 1 .. Len(b)
      BY <2>1, <3>1
    <3>3. PICK j \in 1 .. Len(ev) : b[j].event = b[k].event /\ b[j].body = b[k].body
      BY <2>3, <3>2 DEF BatchShape
    <3>4. j \in 1 .. Len(b) /\ Len(q) + j \in 1 .. i - 1
      BY <2>1, <3>2, <3>3
    <3>5. s[Len(q) + j] = b[j]
      BY <3>4 DEF Appended
    <3> QED BY <2>1, <3>3, <3>4, <3>5
  <2>4. JudgedAs(s[i], s[i].tag)
    BY <2>1, <2>2
  <2>5. s[i].tag = "duplicate" =>
            \E j \in 1 .. i - 1 : s[j].event = s[i].event /\ s[j].body = s[i].body
    BY <2>1, <2>3
  <2> QED BY ONLY <2>4, <2>5 DEF JudgedAs
<1> QED BY <1>1, <1>2

(* The row an event inserts *)
LEMMA ProvidesFacts ==
    ASSUME NEW e, e.kind \in EventType
    PROVE  /\ e.kind = "user_registered" => Provides(e) = {<<"customer", e.customer>>}
           /\ e.kind = "session_started" => Provides(e) = {<<"session", e.session>>}
           /\ e.kind = "added_to_cart" => Provides(e) = {<<"cart", e.cart>>}
           /\ e.kind = "order_created" => Provides(e) = {<<"order", e.session>>}
           /\ e.kind = "payment_completed" => Provides(e) = {<<"payment", e.payment>>}
           /\ \A r \in Provides(e) :
                \/ e.kind = "user_registered" /\ r = <<"customer", e.customer>>
                \/ e.kind = "session_started" /\ r = <<"session", e.session>>
                \/ e.kind = "added_to_cart" /\ r = <<"cart", e.cart>>
                \/ e.kind = "order_created" /\ r = <<"order", e.session>>
                \/ e.kind = "payment_completed" /\ r = <<"payment", e.payment>>
  BY DEF Provides, EventType

(* The message of an event of the journey is in what was appended. *)
LEMMA CarriedIn ==
    ASSUME NEW s, NEW q, NEW b, NEW ev, Appended(s, q, b), BatchShape(b, ev),
           ev \in Seq(Event), NEW k \in 1 .. Len(ev)
    PROVE  \E i \in DOMAIN s : s[i].event = ev[k] /\ Verdict(s[i]) = "valid"
<1>1. PICK i \in 1 .. Len(ev) : Carries(b[i], ev[k])
  BY DEF BatchShape
<1>2. ev[k] \in Event /\ Len(ev) \in Nat
  OBVIOUS
<1>3. Verdict(b[i]) = "valid" /\ b[i].event = ev[k]
  BY <1>1, <1>2, ValidFacts DEF Carries
<1>4. i \in 1 .. Len(b)
  BY <1>1, <1>2 DEF BatchShape, Appended
<1>5. s[Len(q) + i] = b[i] /\ Len(q) + i \in DOMAIN s
  BY <1>4 DEF Appended
<1> QED BY <1>3, <1>5

(* The pool stays announced when the journey that changed it is appended. *)
LEMMA PoolAppended ==
    ASSUME TypeOK, NEW s, NEW q, Appended(s, q, batch'), PoolAnnounced(q),
           NEW p, NEW c, NEW new, NEW cart, NEW base, NEW ev,
           Took(p, c, new, cart, base, ev)
    PROVE  PoolAnnounced(s)'
<1> DEFINE b == batch'
<1>1. /\ Appended(s, q, b) /\ BatchShape(b, ev) /\ ev \in Seq(Event) /\ Len(ev) \in Nat
      /\ JourneyShape(ev, journeys + 1, c, new, cart, base) /\ new \in BOOLEAN
  <2>1. ev \in Seq(Event)
    BY DEF Took, JourneyShape
  <2> QED BY <2>1 DEF Took
<1> HIDE DEF b
<1>2. \A k \in 1 .. Len(ev) : \E i \in DOMAIN s : s[i].event = ev[k] /\ Verdict(s[i]) = "valid"
  BY <1>1, CarriedIn
<1>3. \A i \in DOMAIN q : i \in DOMAIN s /\ s[i] = q[i]
  BY <1>1 DEF Appended
<1>4. \A r : Announced(r, q) => Announced(r, s)
  BY <1>3 DEF Announced
<1>5. \A k \in 1 .. Len(ev) : /\ ev[k].kind \in EventType /\ ev[k].customer = c
                              /\ ev[k].cart = cart
  <2>1. \A k \in 1 .. Len(ev) : ev[k] \in Event
    BY <1>1
  <2> QED BY <1>1, <2>1 DEF JourneyShape, Event
<1>6. \A k \in 1 .. Len(ev) : \A r \in Provides(ev[k]) : Announced(r, s)
  BY <1>2 DEF Announced
<1>7. /\ DOMAIN store' = DOMAIN store \cup {c}
      /\ \A d \in DOMAIN store : d # c => store'[d] = store[d]
      /\ store'[c] = Finished(c, p, cart, ev)
  BY DEF Took
<1>8. ASSUME NEW d \in DOMAIN store'
      PROVE  Announced(<<"customer", d>>, s)
  <2>1. CASE d \in DOMAIN store
    BY <1>4, <2>1 DEF PoolAnnounced
  <2>2. CASE d \notin DOMAIN store
    <3>1. d = c /\ new
      BY <1>7, <2>2 DEF Took
    <3>2. 1 \in 1 .. Len(ev) /\ ev[1].kind = "user_registered"
      BY <1>1, <3>1 DEF JourneyShape, Before
    <3>3. <<"customer", c>> \in Provides(ev[1])
      BY <1>5, <3>2, ProvidesFacts
    <3> QED BY <1>6, <3>1, <3>2, <3>3
  <2> QED BY <2>1, <2>2
<1> DEFINE kinds == {ev[i].kind : i \in DOMAIN ev}
           known == c \in DOMAIN store
<1>9. /\ Finished(c, p, cart, ev).abandoned =
            IF "checkout_started" \in kinds THEN NoCart
            ELSE IF "added_to_cart" \in kinds THEN cart
            ELSE IF known THEN store[c].abandoned ELSE NoCart
      /\ Finished(c, p, cart, ev).history =
            ((known /\ store[c].history) \/ (p = "normal" /\ "payment_completed" \in kinds))
  BY DEF Finished
<1>10. \A x \in kinds : \E k \in 1 .. Len(ev) : ev[k].kind = x
  BY <1>1
<1> HIDE DEF kinds
<1>11. ASSUME store'[c].abandoned # NoCart
       PROVE  Announced(<<"cart", store'[c].abandoned>>, s)
  <2>1. CASE "added_to_cart" \in kinds
    <3>1. store'[c].abandoned = cart
      BY <1>7, <1>9, <1>11, <2>1
    <3>2. PICK k \in 1 .. Len(ev) : ev[k].kind = "added_to_cart"
      BY <1>10, <2>1
    <3>3. <<"cart", cart>> \in Provides(ev[k])
      BY <1>5, <3>2, ProvidesFacts
    <3> QED BY <1>6, <3>1, <3>3
  <2>2. CASE "added_to_cart" \notin kinds
    <3>1. known /\ store'[c].abandoned = store[c].abandoned
      BY <1>7, <1>9, <1>11, <2>2
    <3> QED BY <1>4, <1>11, <3>1 DEF PoolAnnounced
  <2> QED BY <2>1, <2>2
<1>12. ASSUME store'[c].history
       PROVE  \E i \in DOMAIN s : s[i].event.kind = "payment_completed" /\ s[i].event.customer = c
  <2>1. CASE known /\ store[c].history
    <3>1. \E i \in DOMAIN q : q[i].event.kind = "payment_completed" /\ q[i].event.customer = c
      BY <2>1 DEF PoolAnnounced
    <3> QED BY <1>3, <3>1
  <2>2. CASE "payment_completed" \in kinds
    <3>1. PICK k \in 1 .. Len(ev) : ev[k].kind = "payment_completed"
      BY <1>10, <2>2
    <3> QED BY <1>2, <1>5, <3>1
  <2>3. Finished(c, p, cart, ev).history
    BY <1>7, <1>12
  <2> QED BY <1>9, <2>1, <2>2, <2>3
<1>13. ASSUME NEW d \in DOMAIN store', d # c
       PROVE  /\ store'[d].abandoned # NoCart => Announced(<<"cart", store'[d].abandoned>>, s)
              /\ store'[d].history => \E k \in DOMAIN s : /\ s[k].event.kind = "payment_completed"
                                                          /\ s[k].event.customer = d
  <2>1. d \in DOMAIN store /\ store'[d] = store[d]
    BY <1>7, <1>13
  <2> QED BY <1>3, <1>4, <2>1 DEF PoolAnnounced
<1> QED BY <1>8, <1>11, <1>12, <1>13 DEF PoolAnnounced

(* What the proofs use of it: a customer in the pool is the customer of a  *)
(* journey only if returning, and no other customer is touched.            *)
TookShape(p, c, new, cart, base, ev) ==
    /\ journeys \in Nat /\ base \in Nat /\ new \in BOOLEAN /\ c \in Nat
    /\ ev \in Seq(Event) /\ Len(ev) \in Nat /\ Len(ev) >= 2 /\ Len(ev) >= Before(new) + 2
    /\ \A k \in 1 .. Len(ev) : ev[k] \in Event /\ ev[k].kind \in EventType
    /\ JourneyShape(ev, journeys + 1, c, new, cart, base)
    /\ DOMAIN store \subseteq 1 .. journeys
    /\ c \in DOMAIN store <=> ~new
    /\ new => c = journeys + 1
    /\ c \in DOMAIN store => base > store[c].last /\ store[c].last \in Nat
    /\ DOMAIN store' = DOMAIN store \cup {c}
    /\ \A d \in DOMAIN store : d # c => store'[d] = store[d]
    /\ store'[c] = Finished(c, p, cart, ev)
    /\ store'[c].last = base + Len(ev) - Before(new)

(* A journey is taken that way. *)
LEMMA TookFacts ==
    ASSUME TypeOK, NEW p, NEW c, NEW new, NEW cart, NEW base, NEW ev,
           Took(p, c, new, cart, base, ev)
    PROVE  TookShape(p, c, new, cart, base, ev)
<1>1. journeys \in Nat /\ DOMAIN store \subseteq 1 .. journeys
  BY GeneratorAssumption DEF TypeOK
<1>2. /\ base \in Nat /\ new \in BOOLEAN /\ c \in Nat
      /\ JourneyShape(ev, journeys + 1, c, new, cart, base)
      /\ (new => c = journeys + 1) /\ (~new => c \in DOMAIN store /\ base > store[c].last)
  BY DEF Took
<1>3. ev \in Seq(Event) /\ Len(ev) >= Before(new) + 2
  BY <1>2 DEF JourneyShape
<1>4. /\ Len(ev) \in Nat /\ Len(ev) >= 2
      /\ \A k \in 1 .. Len(ev) : ev[k] \in Event /\ ev[k].kind \in EventType
  <2>1. Len(ev) \in Nat /\ \A k \in 1 .. Len(ev) : ev[k] \in Event
    BY <1>3
  <2>2. Len(ev) >= 2
    BY <1>2, <1>3, <2>1 DEF Before
  <2>3. \A k \in 1 .. Len(ev) : ev[k].kind \in EventType
    BY <2>1 DEF Event
  <2> QED BY <2>1, <2>2, <2>3
<1>5. c \in DOMAIN store <=> ~new
  BY <1>1, <1>2
<1>6. c \in DOMAIN store => base > store[c].last /\ store[c].last \in Nat
  BY <1>2, <1>5 DEF TypeOK, Customer
<1>7. /\ DOMAIN store' = DOMAIN store \cup {c}
      /\ \A d \in DOMAIN store : d # c => store'[d] = store[d]
      /\ store'[c] = Finished(c, p, cart, ev)
  BY DEF Took
<1>8. store'[c].last = ev[Len(ev)].time
  BY <1>7 DEF Finished
<1>9. Len(ev) \in 1 .. Len(ev)
  BY <1>4
<1>10. ev[Len(ev)].time = base + Len(ev) - Before(new)
  BY <1>2, <1>9 DEF JourneyShape
<1> QED BY <1>1, <1>2, <1>3, <1>4, <1>5, <1>6, <1>7, <1>8, <1>10 DEF TookShape

(* A plain message of the batch is in place and has its event's time. *)
LEMMA PlainOfBatch ==
    ASSUME NEW b \in Seq(Message), NEW ev \in Seq(Event), BatchShape(b, ev), NEW k \in 1 .. Len(b),
           Plain(b[k])
    PROVE  k \in 1 .. Len(ev) /\ b[k].event = ev[k] /\ b[k].body.time = ev[k].time
<1>1. Len(b) \in Nat /\ Len(ev) \in Nat /\ Len(b) >= Len(ev)
  BY DEF BatchShape
<1>2. k \notin Len(ev) + 1 .. Len(b)
  BY DEF BatchShape, Plain
<1>3. k \in 1 .. Len(ev)
  BY <1>1, <1>2
<1>4. Carries(b[k], ev[k])
  BY <1>3 DEF BatchShape, Plain
<1>5. ev[k] \in Event
  BY <1>3
<1>6. b[k].event = ev[k] /\ b[k].body = ValidBody(ev[k])
  BY <1>4 DEF Carries
<1>7. ValidBody(ev[k]) = [parses |-> TRUE, has_id |-> TRUE, kind |-> ev[k].kind,
                          payload |-> ev[k].kind, time |-> ev[k].time]
  BY <1>5, ValidFacts
<1>8. ValidBody(ev[k]).time = ev[k].time
  BY <1>7
<1> QED BY <1>3, <1>6, <1>8

(* All that was sent stays the pool's, and no later than the customer.     *)
LEMMA EventsAppended ==
    ASSUME TypeOK, NEW s, NEW q, Appended(s, q, batch'), EventsOfPool(q),
           NEW p, NEW c, NEW new, NEW cart, NEW base, NEW ev,
           Took(p, c, new, cart, base, ev), journeys' = journeys + 1
    PROVE  EventsOfPool(s)'
<1> DEFINE b == batch'
<1>1. Appended(s, q, b) /\ BatchShape(b, ev) /\ b \in Seq(Message)
  BY DEF Took, BatchShape
<1>2. TookShape(p, c, new, cart, base, ev)
  BY TookFacts
<1> HIDE DEF b
<1>3. ASSUME NEW i \in DOMAIN s
      PROVE  /\ s[i].event.customer \in DOMAIN store' /\ s[i].event.session <= journeys + 1
             /\ s[i].event.payment[1] <= journeys + 1
             /\ Plain(s[i]) => s[i].body.time <= store'[s[i].event.customer].last
  <2>1. CASE i \in 1 .. Len(q)
    <3>1. i \in DOMAIN q /\ s[i] = q[i] /\ q[i] \in Message
      BY <1>1, <2>1 DEF Appended
    <3> DEFINE e == q[i].event
               t == q[i].body.time
    <3>2. e.session \in Nat /\ e.payment[1] \in Nat /\ t \in Int
      BY <3>1 DEF Message, Event, Body
    <3>3. /\ e.customer \in DOMAIN store /\ e.session <= journeys /\ e.payment[1] <= journeys
          /\ Plain(q[i]) => t <= store[e.customer].last
      BY <3>1 DEF EventsOfPool
    <3> HIDE DEF e, t
    <3>4. store[e.customer].last <= store'[e.customer].last /\ store[e.customer].last \in Nat
          /\ store'[e.customer].last \in Int
      <4>1. store[e.customer].last \in Nat
        BY <3>3 DEF TypeOK, Customer
      <4>2. CASE e.customer # c
        BY <1>2, <3>3, <4>1, <4>2 DEF TookShape
      <4>3. CASE e.customer = c
        BY <1>2, <3>3, <4>1, <4>3 DEF Before, TookShape
      <4> QED BY <4>2, <4>3
    <3>5. Plain(q[i]) => t <= store'[e.customer].last
      BY <3>2, <3>3, <3>4
    <3>6. e.customer \in DOMAIN store' /\ e.session <= journeys + 1 /\ e.payment[1] <= journeys + 1
      BY <1>2, <3>2, <3>3 DEF TookShape
    <3> QED BY <3>1, <3>5, <3>6 DEF e, t
  <2>2. CASE i \notin 1 .. Len(q)
    <3> DEFINE k == i - Len(q)
    <3>1. k \in 1 .. Len(b) /\ s[i] = b[k]
      BY <1>1, <2>2 DEF Appended
    <3> HIDE DEF k
    <3>2. PICK j \in 1 .. Len(ev) : b[k].event = ev[j]
      BY <1>1, <3>1 DEF BatchShape
    <3>3. ev[j].customer = c /\ ev[j].session = journeys + 1 /\ ev[j].payment[1] = journeys + 1
      BY <1>2 DEF JourneyShape, TookShape
    <3>4. ASSUME Plain(b[k]) PROVE b[k].body.time <= store'[c].last
      <4>1. k \in 1 .. Len(ev) /\ b[k].body.time = ev[k].time
        BY <1>1, <1>2, <3>1, <3>4, PlainOfBatch DEF TookShape
      <4>2. ev[k].time = base + k - Before(new)
        BY <1>2, <4>1 DEF JourneyShape, TookShape
      <4> QED BY <1>2, <4>1, <4>2 DEF Before, TookShape
    <3> QED BY <1>2, <3>1, <3>2, <3>3, <3>4 DEF TookShape
  <2> QED BY <2>1, <2>2
<1> QED BY <1>3 DEF EventsOfPool

(* The event times of the customer go on from where they were. *)
LEMMA ForwardAppended ==
    ASSUME TypeOK, NEW s, NEW q, Appended(s, q, batch'), EventsOfPool(q), ForwardIn(q),
           NEW p, NEW c, NEW new, NEW cart, NEW base, NEW ev,
           Took(p, c, new, cart, base, ev)
    PROVE  ForwardIn(s)
<1> DEFINE b == batch'
<1>1. Appended(s, q, b) /\ BatchShape(b, ev) /\ b \in Seq(Message)
  BY DEF Took, BatchShape
<1>2. TookShape(p, c, new, cart, base, ev)
  BY TookFacts
<1> HIDE DEF b
<1>3. ASSUME NEW i \in DOMAIN s, i \notin 1 .. Len(q), Plain(s[i])
      PROVE  /\ s[i].event.customer = c
             /\ s[i].body.time = base + (i - Len(q)) - Before(new)
  <2> DEFINE k == i - Len(q)
  <2>1. k \in 1 .. Len(b) /\ s[i] = b[k]
    BY <1>1, <1>3 DEF Appended
  <2> HIDE DEF k
  <2>2. k \in 1 .. Len(ev) /\ b[k].event = ev[k] /\ b[k].body.time = ev[k].time
    BY <1>1, <1>2, <1>3, <2>1, PlainOfBatch DEF TookShape
  <2>3. ev[k].customer = c /\ ev[k].time = base + k - Before(new)
    BY <1>2, <2>2 DEF JourneyShape, TookShape
  <2> QED BY <2>1, <2>2, <2>3 DEF k
<1>4. Len(q) \in Nat /\ Len(s) \in Nat /\ DOMAIN s = 1 .. Len(s) /\ DOMAIN q = 1 .. Len(q)
      /\ \A i \in 1 .. Len(q) : s[i] = q[i] /\ q[i] \in Message
  BY <1>1 DEF Appended
<1> SUFFICES ASSUME NEW i \in DOMAIN s, NEW k \in DOMAIN s, i < k, Plain(s[i]), Plain(s[k]),
                    s[i].event.customer = s[k].event.customer
             PROVE  s[i].body.time < s[k].body.time
  BY DEF ForwardIn
<1>5. CASE k \in 1 .. Len(q)
  <2>1. i \in 1 .. Len(q)
    BY <1>4, <1>5
  <2> QED BY <1>4, <1>5, <2>1 DEF ForwardIn
<1>6. CASE k \notin 1 .. Len(q) /\ i \in 1 .. Len(q)
  <2>1. /\ s[k].event.customer = c
        /\ s[k].body.time = base + (k - Len(q)) - Before(new)
    BY <1>3, <1>6
  <2> DEFINE t == q[i].body.time
             u == s[k].body.time
  <2>2. s[i] = q[i] /\ q[i].event.customer = c /\ t \in Int
    BY <1>4, <1>6, <2>1 DEF Message, Body
  <2>3. c \in DOMAIN store /\ t <= store[c].last
    BY <1>4, <1>6, <2>2 DEF EventsOfPool
  <2>4. ~new /\ base > store[c].last /\ store[c].last \in Nat
    BY <1>2, <2>3 DEF TookShape
  <2>5. k - Len(q) \in Nat
    BY <1>4, <1>6
  <2> HIDE DEF t, u
  <2>6. u = base + (k - Len(q)) - Before(new)
    BY <2>1 DEF u
  <2>7. t < u
    BY <1>2, <2>2, <2>3, <2>4, <2>5, <2>6 DEF Before, TookShape
  <2> QED BY <2>2, <2>7 DEF t, u
<1>7. CASE k \notin 1 .. Len(q) /\ i \notin 1 .. Len(q)
  <2>1. /\ s[k].body.time = base + (k - Len(q)) - Before(new)
        /\ s[i].body.time = base + (i - Len(q)) - Before(new)
    BY <1>3, <1>7
  <2> QED BY <1>2, <1>4, <2>1 DEF Before, TookShape
<1> QED BY <1>5, <1>6, <1>7

(* What is sent before a message of the batch that was not swapped: the    *)
(* events that come before its own in the journey.                         *)
LEMMA EarlierOfBatch ==
    ASSUME NEW b \in Seq(Message), NEW ev \in Seq(Event), BatchShape(b, ev), NEW k \in 1 .. Len(b),
           b[k].tag # "out_of_order"
    PROVE  \E j \in 1 .. Len(ev) :
              /\ b[k].event = ev[j]
              /\ \A x \in 1 .. j - 1 : \E y \in 1 .. k - 1 : Carries(b[y], ev[x])
<1>1. Len(b) \in Nat /\ Len(ev) \in Nat /\ Len(b) >= Len(ev)
  BY DEF BatchShape
<1>2. CASE k \in 1 .. Len(ev)
  <2>1. /\ b[k].event = ev[k]
        /\ \A x \in 1 .. k - 1 : \E y \in 1 .. k - 1 : Carries(b[y], ev[x])
    BY <1>2 DEF BatchShape, Carries
  <2> QED BY <1>2, <2>1
<1>3. CASE k \notin 1 .. Len(ev)
  <2>1. PICK j \in 1 .. Len(ev) : b[k].event = ev[j]
    BY DEF BatchShape
  <2>2. ASSUME NEW x \in 1 .. j - 1 PROVE \E y \in 1 .. k - 1 : Carries(b[y], ev[x])
    <3>1. x \in 1 .. Len(ev)
      BY <1>1, <2>1
    <3>2. PICK y \in 1 .. Len(ev) : Carries(b[y], ev[x])
      BY <3>1 DEF BatchShape
    <3>3. y \in 1 .. k - 1
      BY <1>1, <1>3, <3>2
    <3> QED BY <3>2, <3>3
  <2> QED BY <2>1, <2>2
<1> QED BY <1>2, <1>3

(* What an event of a journey refers to *)
LEMMA RequiresFacts ==
    ASSUME NEW n \in Nat, NEW c, NEW new \in BOOLEAN, NEW cart, NEW base, NEW ev,
           JourneyShape(ev, n, c, new, cart, base), NEW j \in 1 .. Len(ev),
           NEW r \in Requires(ev[j])
    PROVE  \/ ~new /\ r = <<"customer", c>>
           \/ \E x \in 1 .. j - 1 : r \in Provides(ev[x])
<1> DEFINE d == Before(new)
           L == Len(ev)
<1>1. /\ ev \in Seq(Event) /\ L \in Nat /\ d \in Nat /\ d <= 1 /\ L >= d + 2
      /\ d + 1 \in 1 .. L /\ (new => d = 1)
  <2>1. ev \in Seq(Event) /\ L >= d + 2
    BY DEF JourneyShape
  <2> QED BY <2>1 DEF Before
<1>2. \A i \in 1 .. L : /\ ev[i].kind \in EventType /\ ev[i].customer = c /\ ev[i].session = n
                        /\ ev[i].cart = cart
  <2>1. \A i \in 1 .. L : ev[i] \in Event
    BY <1>1
  <2> QED BY <2>1 DEF JourneyShape, Event
<1>3. /\ new => ev[1].kind = "user_registered"
      /\ ev[d + 1].kind = "session_started"
  BY DEF JourneyShape
<1>4. ev[j].kind # "user_registered"
  BY DEF Requires
<1>5. ASSUME r = <<"customer", c>>, new PROVE \E x \in 1 .. j - 1 : r \in Provides(ev[x])
  <2>1. j # 1
    BY <1>3, <1>4, <1>5
  <2>2. 1 \in 1 .. j - 1 /\ 1 \in 1 .. L
    BY <1>1, <2>1
  <2>3. Provides(ev[1]) = {<<"customer", c>>}
    BY <1>2, <1>3, <1>5, <2>2, ProvidesFacts
  <2> QED BY <1>5, <2>2, <2>3
<1>6. CASE ev[j].kind = "session_started"
  <2>1. r = <<"customer", c>>
    BY <1>2, <1>6 DEF Requires
  <2> QED BY <1>5, <2>1
<1>7. CASE ev[j].kind \in {"product_viewed", "added_to_cart"}
  <2>1. r = <<"customer", c>> \/ r = <<"session", n>>
    BY <1>2, <1>7 DEF Requires
  <2>2. ASSUME r = <<"session", n>> PROVE \E x \in 1 .. j - 1 : r \in Provides(ev[x])
    <3>1. j # d + 1
      BY <1>3, <1>7
    <3>2. j # 1 \/ d = 0
      BY <1>3, <1>4 DEF Before
    <3>3. d + 1 \in 1 .. j - 1
      BY <1>1, <3>1, <3>2
    <3>4. Provides(ev[d + 1]) = {<<"session", n>>}
      BY <1>1, <1>2, <1>3, ProvidesFacts
    <3> QED BY <2>2, <3>3, <3>4
  <2> QED BY <1>5, <2>1, <2>2
<1>8. CASE ev[j].kind \in {"checkout_started", "order_created"}
  <2>1. r = <<"cart", cart>>
    BY <1>2, <1>8 DEF Requires
  <2>2. PICK x \in 1 .. j - 1 : ev[x].kind = "added_to_cart"
    BY <1>8 DEF JourneyShape
  <2>3. x \in 1 .. L
    BY <1>1, <2>2
  <2>4. Provides(ev[x]) = {<<"cart", cart>>}
    BY <1>2, <2>2, <2>3, ProvidesFacts
  <2> QED BY <2>1, <2>2, <2>4
<1>9. CASE ev[j].kind \in {"payment_failed", "payment_completed"}
  <2>1. r = <<"order", n>>
    BY <1>2, <1>9 DEF Requires
  <2>2. PICK x \in 1 .. j - 1 : ev[x].kind = "order_created"
    BY <1>9 DEF JourneyShape
  <2>3. x \in 1 .. L
    BY <1>1, <2>2
  <2>4. Provides(ev[x]) = {<<"order", n>>}
    BY <1>2, <2>2, <2>3, ProvidesFacts
  <2> QED BY <2>1, <2>2, <2>4
<1>10. CASE ev[j].kind = "refund_requested"
  <2>1. r = <<"payment", ev[j].payment>>
    BY <1>10 DEF Requires
  <2>2. /\ j - 1 \in 1 .. L /\ ev[j - 1].kind = "payment_completed"
        /\ ev[j].payment = ev[j - 1].payment
    BY <1>10 DEF JourneyShape
  <2>3. Provides(ev[j - 1]) = {<<"payment", ev[j - 1].payment>>}
    BY <1>2, <2>2, ProvidesFacts
  <2>4. j - 1 \in 1 .. j - 1
    BY <1>1, <2>2
  <2> QED BY <2>1, <2>2, <2>3, <2>4
<1> QED BY <1>2, <1>4, <1>6, <1>7, <1>8, <1>9, <1>10 DEF EventType

(* Whatever a message of the journey refers to is sent before it. *)
LEMMA ReferredAppended ==
    ASSUME TypeOK, NEW s, NEW q, Appended(s, q, batch'), PoolAnnounced(q), ReferredBefore(q),
           NEW p, NEW c, NEW new, NEW cart, NEW base, NEW ev,
           Took(p, c, new, cart, base, ev)
    PROVE  ReferredBefore(s)
<1> DEFINE b == batch'
<1>1. Appended(s, q, b) /\ BatchShape(b, ev) /\ b \in Seq(Message)
  BY DEF Took, BatchShape
<1>2. TookShape(p, c, new, cart, base, ev)
  BY TookFacts
<1>3. ev \in Seq(Event) /\ Len(ev) \in Nat /\ \A x \in 1 .. Len(ev) : ev[x] \in Event
  BY <1>2 DEF TookShape
<1> HIDE DEF b
<1> SUFFICES ASSUME NEW i \in DOMAIN s, Verdict(s[i]) = "valid", s[i].tag # "out_of_order",
                    NEW r \in Requires(s[i].event)
             PROVE  \E k \in 1 .. i - 1 : r \in Provides(s[k].event) /\ Verdict(s[k]) = "valid"
  BY DEF ReferredBefore
<1>4. CASE i \in 1 .. Len(q)
  <2>1. s[i] = q[i] /\ i \in DOMAIN q /\ \A k \in 1 .. i - 1 : s[k] = q[k]
    BY <1>1, <1>4 DEF Appended
  <2> QED BY <2>1 DEF ReferredBefore
<1>5. CASE i \notin 1 .. Len(q)
  <2> DEFINE k == i - Len(q)
  <2>1. k \in 1 .. Len(b) /\ s[i] = b[k] /\ i = Len(q) + k /\ Len(q) \in Nat /\ Len(b) \in Nat
        /\ DOMAIN q = 1 .. Len(q)
    BY <1>1, <1>5 DEF Appended
  <2> HIDE DEF k
  <2>2. PICK j \in 1 .. Len(ev) :
           /\ b[k].event = ev[j]
           /\ \A x \in 1 .. j - 1 : \E y \in 1 .. k - 1 : Carries(b[y], ev[x])
    BY <1>1, <1>3, <2>1, EarlierOfBatch
  <2>3. \/ ~new /\ r = <<"customer", c>>
        \/ \E x \in 1 .. j - 1 : r \in Provides(ev[x])
    <3>1. r \in Requires(ev[j])
      BY <2>1, <2>2
    <3>2. journeys + 1 \in Nat /\ new \in BOOLEAN
          /\ JourneyShape(ev, journeys + 1, c, new, cart, base)
      BY <1>2 DEF TookShape
    <3> QED BY <2>2, <3>1, <3>2, RequiresFacts
  <2>4. CASE ~new /\ r = <<"customer", c>>
    <3>1. Announced(r, q)
      BY <1>2, <2>4 DEF TookShape, PoolAnnounced
    <3>2. PICK x \in DOMAIN q : r \in Provides(q[x].event) /\ Verdict(q[x]) = "valid"
      BY <3>1 DEF Announced
    <3>3. s[x] = q[x] /\ x \in 1 .. i - 1
      BY <1>1, <2>1, <3>2 DEF Appended
    <3> QED BY <3>2, <3>3
  <2>5. CASE \E x \in 1 .. j - 1 : r \in Provides(ev[x])
    <3>1. PICK x \in 1 .. j - 1 : r \in Provides(ev[x])
      BY <2>5
    <3>2. PICK y \in 1 .. k - 1 : Carries(b[y], ev[x])
      BY <2>2
    <3>3. ev[x] \in Event
      BY <1>3, <2>2
    <3>4. b[y].event = ev[x] /\ Verdict(b[y]) = "valid"
      BY <3>2, <3>3, ValidFacts DEF Carries
    <3>5. y \in 1 .. Len(b) /\ Len(q) + y \in 1 .. i - 1
      BY <2>1, <3>2
    <3>6. s[Len(q) + y] = b[y]
      BY <1>1, <3>5 DEF Appended
    <3> QED BY <3>1, <3>4, <3>5, <3>6
  <2> QED BY <2>3, <2>4, <2>5
<1> QED BY <1>4, <1>5

(* No row but a cart is created by two events of a journey. *)
LEMMA CreatedInJourney ==
    ASSUME NEW n \in Nat, NEW c, NEW new \in BOOLEAN, NEW cart, NEW base, NEW ev,
           JourneyShape(ev, n, c, new, cart, base),
           NEW x \in 1 .. Len(ev), NEW y \in 1 .. Len(ev),
           NEW r \in Provides(ev[x]) \cap Provides(ev[y])
    PROVE  r[1] = "cart" \/ x = y
<1>1. ev[x] \in Event /\ ev[y] \in Event
  BY DEF JourneyShape
<1>2. ev[x].kind \in EventType /\ ev[y].kind \in EventType
  BY <1>1 DEF Event
<1>3. ev[x].kind = ev[y].kind
  BY <1>2, ProvidesFacts
<1>4. CASE ev[x].kind = "user_registered"
  <2>1. \A i \in 1 .. Len(ev) : ev[i].kind = "user_registered" => i = 1
    BY DEF JourneyShape
  <2> QED BY <1>3, <1>4, <2>1
<1>5. CASE ev[x].kind = "session_started"
  <2>1. \A i \in 1 .. Len(ev) : ev[i].kind = "session_started" => i = Before(new) + 1
    BY DEF JourneyShape
  <2> QED BY <1>3, <1>5, <2>1
<1>6. CASE ev[x].kind = "added_to_cart"
  BY <1>2, <1>6, ProvidesFacts
<1>7. CASE ev[x].kind = "order_created"
  BY <1>3, <1>7 DEF JourneyShape
<1>8. CASE ev[x].kind = "payment_completed"
  <2>1. ev[x].payment = <<n, x>> /\ ev[y].payment = <<n, y>>
    BY <1>3, <1>8 DEF JourneyShape
  <2>2. r = <<"payment", ev[x].payment>> /\ r = <<"payment", ev[y].payment>>
    BY <1>2, <1>3, <1>8, ProvidesFacts
  <2> QED BY <2>1, <2>2
<1> QED BY <1>2, <1>4, <1>5, <1>6, <1>7, <1>8, ProvidesFacts

(* Nor by an event sent before and one of the journey. *)
LEMMA CreatedAppended ==
    ASSUME TypeOK, NEW s, NEW q, Appended(s, q, batch'), EventsOfPool(q), CreatedOnce(q),
           NEW p, NEW c, NEW new, NEW cart, NEW base, NEW ev,
           Took(p, c, new, cart, base, ev)
    PROVE  CreatedOnce(s)
<1> DEFINE b == batch'
           n == journeys + 1
<1>1. Appended(s, q, b) /\ BatchShape(b, ev) /\ b \in Seq(Message)
  BY DEF Took, BatchShape
<1>2. TookShape(p, c, new, cart, base, ev)
  BY TookFacts
<1>3. n \in Nat /\ new \in BOOLEAN /\ JourneyShape(ev, n, c, new, cart, base) /\ journeys \in Nat
      /\ (new => c = n) /\ DOMAIN store \subseteq 1 .. journeys
      /\ \A x \in 1 .. Len(ev) : ev[x] \in Event /\ ev[x].kind \in EventType
  BY <1>2 DEF TookShape
<1> HIDE DEF b, n
<1>4. ASSUME NEW i \in DOMAIN s, i \notin 1 .. Len(q)
      PROVE  \E x \in 1 .. Len(ev) : s[i].event = ev[x]
  <2> DEFINE k == i - Len(q)
  <2>1. k \in 1 .. Len(b) /\ s[i] = b[k]
    BY <1>1, <1>4 DEF Appended
  <2> HIDE DEF k
  <2> QED BY <1>1, <2>1 DEF BatchShape
<1>5. ASSUME NEW i \in 1 .. Len(q)
      PROVE  /\ i \in DOMAIN q /\ s[i] = q[i] /\ q[i].event.kind \in EventType
             /\ q[i].event.customer # n /\ q[i].event.session # n /\ q[i].event.payment[1] # n
  <2>1. i \in DOMAIN q /\ s[i] = q[i] /\ q[i] \in Message
    BY <1>1 DEF Appended
  <2> DEFINE e == q[i].event
  <2>2. e \in Event
    BY <2>1 DEF Message
  <2>3. e.customer \in DOMAIN store /\ e.session <= journeys /\ e.payment[1] <= journeys
    BY <2>1 DEF EventsOfPool
  <2> HIDE DEF e
  <2>4. /\ e.kind \in EventType /\ e.session \in Nat /\ e.payment \in Nat \X Nat
    BY <2>2 DEF Event
  <2>5. e.payment[1] \in Nat
    BY <2>4
  <2>6. e.customer # n /\ e.session # n /\ e.payment[1] # n
    BY <1>3, <2>3, <2>4, <2>5 DEF n
  <2> QED BY <2>1, <2>4, <2>6 DEF e
<1>6. ASSUME NEW i \in 1 .. Len(q), NEW x \in 1 .. Len(ev),
             NEW r \in Provides(q[i].event) \cap Provides(ev[x])
      PROVE  r[1] = "cart"
  <2> DEFINE e == q[i].event
             f == ev[x]
  <2>1. /\ e.kind \in EventType /\ f.kind \in EventType
        /\ e.customer # n /\ e.session # n /\ e.payment[1] # n
        /\ f.session = n /\ f.payment[1] = n
        /\ f.kind = "user_registered" => f.customer = n
    <3>1. f.session = n /\ f.payment[1] = n
      BY <1>3 DEF JourneyShape
    <3>2. f.kind = "user_registered" => f.customer = n
      BY <1>3 DEF JourneyShape
    <3> QED BY <1>3, <1>5, <3>1, <3>2
  <2> HIDE DEF e, f
  <2>2. r \in Provides(e) /\ r \in Provides(f)
    BY <1>6 DEF e, f
  <2>3. e.kind = f.kind
    BY <2>1, <2>2, ProvidesFacts
  <2>4. CASE e.kind = "payment_completed"
    <3>1. r = <<"payment", e.payment>> /\ r = <<"payment", f.payment>>
      BY <2>1, <2>2, <2>3, <2>4, ProvidesFacts
    <3> QED BY <2>1, <3>1
  <2>5. CASE e.kind = "user_registered"
    <3>1. r = <<"customer", e.customer>> /\ r = <<"customer", f.customer>>
      BY <2>1, <2>2, <2>3, <2>5, ProvidesFacts
    <3> QED BY <2>1, <2>3, <2>5, <3>1
  <2>6. CASE e.kind = "session_started"
    <3>1. r = <<"session", e.session>> /\ r = <<"session", f.session>>
      BY <2>1, <2>2, <2>3, <2>6, ProvidesFacts
    <3> QED BY <2>1, <3>1
  <2>7. CASE e.kind = "order_created"
    <3>1. r = <<"order", e.session>> /\ r = <<"order", f.session>>
      BY <2>1, <2>2, <2>3, <2>7, ProvidesFacts
    <3> QED BY <2>1, <3>1
  <2>8. CASE e.kind = "added_to_cart"
    <3>1. r = <<"cart", e.cart>>
      BY <2>1, <2>2, <2>8, ProvidesFacts
    <3> QED BY <3>1
  <2> QED BY <2>1, <2>2, <2>4, <2>5, <2>6, <2>7, <2>8, ProvidesFacts
<1> SUFFICES ASSUME NEW i \in DOMAIN s, NEW k \in DOMAIN s,
                    NEW r \in Provides(s[i].event) \cap Provides(s[k].event)
             PROVE  r[1] = "cart" \/ s[i].event.id = s[k].event.id
  BY DEF CreatedOnce
<1>7. CASE i \in 1 .. Len(q) /\ k \in 1 .. Len(q)
  BY <1>5, <1>7 DEF CreatedOnce
<1>8. CASE i \in 1 .. Len(q) /\ k \notin 1 .. Len(q)
  <2>1. PICK x \in 1 .. Len(ev) : s[k].event = ev[x]
    BY <1>4, <1>8
  <2>2. r \in Provides(q[i].event) \cap Provides(ev[x])
    BY <1>5, <1>8, <2>1
  <2> QED BY <1>6, <1>8, <2>2
<1>9. CASE i \notin 1 .. Len(q) /\ k \in 1 .. Len(q)
  <2>1. PICK x \in 1 .. Len(ev) : s[i].event = ev[x]
    BY <1>4, <1>9
  <2>2. r \in Provides(q[k].event) \cap Provides(ev[x])
    BY <1>5, <1>9, <2>1
  <2> QED BY <1>6, <1>9, <2>2
<1>10. CASE i \notin 1 .. Len(q) /\ k \notin 1 .. Len(q)
  <2>1. PICK x \in 1 .. Len(ev) : s[i].event = ev[x]
    BY <1>4, <1>10
  <2>2. PICK y \in 1 .. Len(ev) : s[k].event = ev[y]
    BY <1>4, <1>10
  <2>3. r \in Provides(ev[x]) \cap Provides(ev[y])
    BY <2>1, <2>2
  <2>4. r[1] = "cart" \/ x = y
    BY <1>3, <2>3, CreatedInJourney
  <2> QED BY <2>1, <2>2, <2>4
<1> QED BY <1>7, <1>8, <1>9, <1>10

-----------------------------------------------------------------------------
(* What the invariant says of all that is handed over *)
QueueInv ==
    /\ VerdictsIn(Queue)
    /\ pc # "ended" => PoolAnnounced(Queue) /\ EventsOfPool(Queue)
    /\ ForwardIn(Queue)
    /\ ReferredBefore(Queue)
    /\ CreatedOnce(Queue)

(* The queue is a sequence of messages. *)
LEMMA QueueTyped ==
    ASSUME TypeOK
    PROVE  Queue \in Seq(Message)
<1>1. sent \in Seq(Message) /\ batch \in Seq(Message)
  BY DEF TypeOK
<1>2. sent \o batch \in Seq(Message)
  BY <1>1
<1> QED BY <1>1, <1>2 DEF Queue

(* A step that hands nothing over, takes nothing up and changes no pool. *)
LEMMA QueueKept ==
    ASSUME QueueInv, pc # "ended", Queue' = Queue, UNCHANGED <<store, journeys>>
    PROVE  QueueInv'
<1> DEFINE s == Queue
<1>1. PICK t : t = s
  OBVIOUS
<1>2. s = t /\ s' = t
  BY <1>1
<1>3. /\ VerdictsIn(t) /\ PoolAnnounced(t) /\ EventsOfPool(t) /\ ForwardIn(t)
      /\ ReferredBefore(t) /\ CreatedOnce(t)
  BY <1>2 DEF QueueInv
<1>4. PoolAnnounced(t)' /\ EventsOfPool(t)'
  BY <1>3 DEF PoolAnnounced, EventsOfPool
<1> HIDE DEF s
<1>5. Queue = s /\ Queue' = s'
  BY DEF s
<1> QED BY <1>2, <1>3, <1>4, <1>5 DEF QueueInv

(* The process ends with a part of the journey handed over, or none. *)
LEMMA QueueCut ==
    ASSUME QueueInv, TypeOK, pc' = "ended", Queue' \in Seq(Message), Len(Queue') <= Len(Queue),
           \A i \in 1 .. Len(Queue') : Queue'[i] = Queue[i]
    PROVE  QueueInv'
<1>1. Queue \in Seq(Message)
  BY QueueTyped
<1>2. PICK s, t : s = Queue /\ t = Queue'
  OBVIOUS
<1>3. /\ s \in Seq(Message) /\ t \in Seq(Message) /\ Len(t) <= Len(s)
      /\ \A i \in 1 .. Len(t) : t[i] = s[i]
  BY <1>1, <1>2
<1>4. VerdictsIn(s) /\ ForwardIn(s) /\ ReferredBefore(s) /\ CreatedOnce(s)
  BY <1>2 DEF QueueInv
<1>5. VerdictsIn(t) /\ ForwardIn(t) /\ ReferredBefore(t) /\ CreatedOnce(t)
  BY <1>3, <1>4, PrefixKeeps
<1> QED BY <1>2, <1>5 DEF QueueInv

(* A journey is appended. *)
LEMMA QueueBuilt ==
    ASSUME QueueInv, TypeOK, HandsOver, Build
    PROVE  QueueInv'
<1>1. PICK p, c, new, cart, base, ev : Took(p, c, new, cart, base, ev)
  BY BuildFacts
<1>2. /\ pc = "loop" /\ pc' = "publish" /\ sent' = sent /\ journeys' = journeys + 1
  BY DEF Build, clientVars
<1>3. Queue = sent /\ Queue' = sent \o batch' /\ sent \in Seq(Message)
  BY <1>2 DEF Queue, TypeOK
<1>4. BatchShape(batch', ev) /\ batch' \in Seq(Message)
  BY <1>1 DEF Took, BatchShape
<1>5. PICK s, q, b : s = Queue' /\ q = Queue /\ b = batch'
  OBVIOUS
<1>6. Appended(s, q, b)
  <2>1. s = q \o b /\ q \in Seq(Message) /\ b \in Seq(Message)
    BY <1>3, <1>4, <1>5
  <2> QED BY <2>1, AppendedFacts
<1>7. Appended(s, q, batch')
  BY <1>5, <1>6
<1>8. /\ VerdictsIn(q) /\ PoolAnnounced(q) /\ EventsOfPool(q) /\ ForwardIn(q)
      /\ ReferredBefore(q) /\ CreatedOnce(q)
  BY <1>2, <1>5 DEF QueueInv
<1>9. Len(ev) \in Nat /\ BatchShape(b, ev)
  <2>1. TookShape(p, c, new, cart, base, ev)
    BY <1>1, TookFacts
  <2> QED BY <1>4, <1>5, <2>1 DEF TookShape
<1>10. VerdictsIn(s)
  BY <1>6, <1>8, <1>9, VerdictsAppended
<1>11. PoolAnnounced(s)'
  BY <1>1, <1>7, <1>8, PoolAppended
<1>12. EventsOfPool(s)'
  BY <1>1, <1>2, <1>7, <1>8, EventsAppended
<1>13. ForwardIn(s)
  BY <1>1, <1>7, <1>8, ForwardAppended
<1>14. ReferredBefore(s)
  BY <1>1, <1>7, <1>8, ReferredAppended
<1>15. CreatedOnce(s)
  BY <1>1, <1>7, <1>8, CreatedAppended
<1> QED BY <1>5, <1>10, <1>11, <1>12, <1>13, <1>14, <1>15 DEF QueueInv

(* The state of the loop and of the client, without the journeys *)
LoopInv == TypeOK /\ HandsOver /\ CleanExitDelivered

(* What the pool keeps of a customer has its type. *)
LEMMA PoolTyped ==
    ASSUME TypeOK, NEW p, NEW c, NEW new, NEW cart, NEW base, NEW ev,
           Took(p, c, new, cart, base, ev)
    PROVE  /\ DOMAIN store' \subseteq 1 .. journeys + 1
           /\ \A d \in DOMAIN store' : store'[d] \in Customer
           /\ batch' \in Seq(Message)
<1>1. TookShape(p, c, new, cart, base, ev)
  BY TookFacts
<1>2. DOMAIN store' \subseteq 1 .. journeys + 1
  BY <1>1 DEF TookShape
<1>3. p \in Persona /\ cart \in Nat /\ batch' \in Seq(Message)
  BY DEF Took, BatchShape
<1> DEFINE kinds == {ev[i].kind : i \in DOMAIN ev}
           known == c \in DOMAIN store
           a == IF "checkout_started" \in kinds THEN NoCart
                ELSE IF "added_to_cart" \in kinds THEN cart
                ELSE IF known THEN store[c].abandoned ELSE NoCart
           h == \/ known /\ store[c].history
                \/ p = "normal" /\ "payment_completed" \in kinds
           l == ev[Len(ev)].time
<1>4. Finished(c, p, cart, ev) = [persona |-> p, last |-> l, abandoned |-> a, history |-> h]
  BY DEF Finished
<1>5. l \in Nat
  <2>1. Len(ev) \in 1 .. Len(ev)
    BY <1>1 DEF TookShape
  <2>2. ev[Len(ev)] \in Event
    BY <1>1, <2>1 DEF TookShape
  <2> QED BY <2>2 DEF Event
<1>6. a \in Nat
  <2>1. known => store[c].abandoned \in Nat
    BY DEF TypeOK, Customer
  <2> HIDE DEF kinds, known
  <2> QED BY <1>3, <2>1 DEF NoCart
<1>7. h \in BOOLEAN
  BY Zenon
<1> HIDE DEF a, h, l
<1>8. Finished(c, p, cart, ev) \in Customer
  BY <1>3, <1>4, <1>5, <1>6, <1>7 DEF Customer
<1>9. \A d \in DOMAIN store' : store'[d] \in Customer
  BY <1>1, <1>8 DEF TookShape, TypeOK
<1> QED BY <1>2, <1>3, <1>9

(* Every step keeps the types, hands over all of a journey before the next *)
(* begins, and exits with 0 only if all was delivered.                     *)
LEMMA LoopStep ==
    ASSUME LoopInv, [Next]_vars
    PROVE  LoopInv'
<1>0. /\ TypeOK /\ HandsOver /\ CleanExitDelivered
      /\ MaxJourneys \in Nat /\ config.faults \in Nat /\ journeys \in Nat /\ generated \in Nat
      /\ Len(sent) \in Nat /\ resolved \in Nat /\ budget \in Nat
  <2>1. config \in ConfigType
    BY GeneratorAssumption DEF LoopInv, TypeOK
  <2> QED BY <2>1, GeneratorAssumption DEF LoopInv, TypeOK, ConfigType
<1>1. CASE Build
  <2>1. PICK p, c, new, cart, base, ev : Took(p, c, new, cart, base, ev)
    BY <1>0, <1>1, BuildFacts
  <2>2. /\ DOMAIN store' \subseteq 1 .. journeys + 1
        /\ \A d \in DOMAIN store' : store'[d] \in Customer
        /\ batch' \in Seq(Message)
    BY <1>0, <2>1, PoolTyped
  <2>3. /\ pc = "loop" /\ pc' = "publish" /\ journeys' = journeys + 1 /\ journeys < MaxJourneys
        /\ UNCHANGED <<config, code, shutdown, generated, sent, resolved, failed, lost, budget>>
    BY <1>1 DEF Build, clientVars
  <2>4. TypeOK'
    BY <1>0, <2>2, <2>3 DEF TypeOK
  <2>5. HandsOver' /\ CleanExitDelivered'
    BY <1>0, <2>3 DEF TypeOK, HandsOver, CleanExitDelivered, Running
  <2> QED BY <2>4, <2>5 DEF LoopInv
<1>2. CASE BuildRaises
  BY <1>0, <1>2 DEF BuildRaises, LoopInv, TypeOK, HandsOver, CleanExitDelivered, End, clientVars, Running
<1>3. CASE Publish
  <2>1. /\ pc = "publish" /\ pc' = "poll" /\ sent' = sent \o batch /\ batch' = <<>>
        /\ UNCHANGED <<config, store, code, shutdown, generated, journeys, resolved,
                       failed, lost, budget>>
    BY <1>3 DEF Publish
  <2>2. sent' \in Seq(Message) /\ batch' \in Seq(Message) /\ resolved \in 0 .. Len(sent')
    BY <1>0, <2>1 DEF TypeOK
  <2>3. TypeOK'
    BY <1>0, <2>1, <2>2 DEF TypeOK
  <2>4. HandsOver' /\ CleanExitDelivered'
    BY <1>0, <2>1 DEF TypeOK, HandsOver, CleanExitDelivered, Running
  <2> QED BY <2>3, <2>4 DEF LoopInv
<1>4. CASE PublishRaises
  <2>1. PICK k \in 0 .. Len(batch) - 1 : resolved < Len(sent) + k /\ sent' = sent \o SubSeq(batch, 1, k)
    BY <1>4 DEF PublishRaises
  <2>2. /\ pc' = "ended" /\ code' = 1 /\ budget' = budget - 1 /\ budget > 0
        /\ UNCHANGED <<config, store, shutdown, generated, batch, journeys, resolved, failed, lost>>
    BY <1>4 DEF PublishRaises, Fault, End
  <2>3. sent' \in Seq(Message) /\ resolved \in 0 .. Len(sent')
    <3>1. SubSeq(batch, 1, k) \in Seq(Message) /\ Len(SubSeq(batch, 1, k)) = k
      BY <1>0, <2>1 DEF TypeOK
    <3> HIDE DEF LoopInv
    <3>2. sent \in Seq(Message)
      BY <1>0 DEF TypeOK
    <3> DEFINE u == SubSeq(batch, 1, k)
    <3> HIDE DEF u
    <3>3. u \in Seq(Message) /\ Len(u) = k /\ sent' = sent \o u
      BY <2>1, <3>1 DEF u
    <3>4. sent' \in Seq(Message) /\ Len(sent') = Len(sent) + k
      <4>1. sent \o u \in Seq(Message) /\ Len(sent \o u) = Len(sent) + Len(u)
        BY ONLY <3>2, <3>3, ConcatAt
      <4> QED BY <3>3, <4>1
    <3> QED BY <1>0, <2>1, <3>4
  <2>4. TypeOK'
    BY <1>0, <2>2, <2>3 DEF TypeOK, Running
  <2>5. HandsOver' /\ CleanExitDelivered'
    BY <2>2 DEF HandsOver, CleanExitDelivered
  <2> QED BY <2>4, <2>5 DEF LoopInv
<1>5. CASE Poll
  BY <1>0, <1>5 DEF Poll, LoopInv, TypeOK, HandsOver, CleanExitDelivered, End, clientVars, Running
<1>6. CASE StartFlush
  BY <1>0, <1>6 DEF StartFlush, LoopInv, TypeOK, HandsOver, CleanExitDelivered, clientVars, Running
<1>7. CASE Flush
  BY <1>0, <1>7 DEF Flush, LoopInv, TypeOK, HandsOver, CleanExitDelivered, End, clientVars, Running
<1>8. CASE Signal
  BY <1>0, <1>8 DEF Signal, LoopInv, TypeOK, HandsOver, CleanExitDelivered, clientVars, Running
<1>9. CASE Crash
  BY <1>0, <1>9 DEF Crash, Fault, LoopInv, TypeOK, HandsOver, CleanExitDelivered, End, clientVars,
     Running, Killed
<1>10. CASE Deliver
  BY <1>0, <1>10 DEF Deliver, LoopInv, TypeOK, HandsOver, CleanExitDelivered, loopVars, Running
<1>11. CASE DeliveryFails
  <2>1. /\ pc # "ended" /\ resolved < Len(sent) /\ resolved' = resolved + 1
        /\ budget > 0 /\ budget' = budget - 1
        /\ failed' = failed \cup {resolved + 1}
        /\ (lost' = lost \cup {resolved + 1} \/ lost' = lost)
        /\ UNCHANGED <<config, store, pc, code, shutdown, generated, batch, journeys, sent>>
    BY <1>11 DEF DeliveryFails, Fault, loopVars
  <2>2. /\ resolved' \in 0 .. Len(sent) /\ failed' \subseteq 1 .. resolved' /\ lost' \subseteq failed'
        /\ budget' \in 0 .. config.faults
    <3>1. resolved' \in 0 .. Len(sent) /\ budget' \in 0 .. config.faults
      BY <1>0, <2>1 DEF TypeOK
    <3>2. failed \subseteq 1 .. resolved /\ lost \subseteq failed
      BY <1>0 DEF TypeOK
    <3>3. 1 .. resolved \subseteq 1 .. resolved + 1 /\ resolved + 1 \in 1 .. resolved + 1
      BY <1>0
    <3>4. failed' \subseteq 1 .. resolved'
      BY <2>1, <3>2, <3>3
    <3>5. lost' \subseteq failed'
      BY <2>1, <3>2
    <3> QED BY <3>1, <3>4, <3>5
  <2>3. TypeOK'
    BY <1>0, <2>1, <2>2 DEF TypeOK
  <2>4. HandsOver' /\ CleanExitDelivered'
    BY <1>0, <2>1 DEF TypeOK, HandsOver, CleanExitDelivered, Running
  <2> QED BY <2>3, <2>4 DEF LoopInv
<1>12. CASE UNCHANGED vars
  BY <1>0, <1>12 DEF vars, loopVars, clientVars, LoopInv, TypeOK, HandsOver, CleanExitDelivered
<1> QED BY <1>1, <1>2, <1>3, <1>4, <1>5, <1>6, <1>7, <1>8, <1>9, <1>10, <1>11, <1>12
        DEF Next, MainStep

(* Every step keeps what holds of all that is handed over. *)
LEMMA QueueStep ==
    ASSUME LoopInv, QueueInv, [Next]_vars
    PROVE  QueueInv'
<1>0. TypeOK /\ HandsOver /\ sent \in Seq(Message) /\ batch \in Seq(Message)
      /\ Len(sent) \in Nat /\ Len(batch) \in Nat
  BY DEF LoopInv, TypeOK
<1>1. CASE Build
  BY <1>0, <1>1, QueueBuilt
<1>2. CASE Publish
  <2>1. pc # "ended" /\ Queue' = Queue /\ UNCHANGED <<store, journeys>>
    BY <1>2 DEF Publish, Queue
  <2> QED BY <2>1, QueueKept
<1>3. CASE PublishRaises
  <2>1. PICK k \in 0 .. Len(batch) - 1 : sent' = sent \o SubSeq(batch, 1, k)
    BY <1>3 DEF PublishRaises
  <2>2. pc = "publish" /\ pc' = "ended"
    BY <1>3 DEF PublishRaises, End
  <2> DEFINE u == SubSeq(batch, 1, k)
  <2>3. u \in Seq(Message) /\ Len(u) = k /\ \A i \in 1 .. k : u[i] = batch[i]
    BY <1>0, <2>1
  <2> HIDE DEF u
  <2>4. Queue = sent \o batch /\ Queue' = sent \o u
    BY <2>1, <2>2 DEF Queue, u
  <2>5. PICK s, t, q, b : s = sent \o batch /\ t = sent \o u /\ q = sent /\ b = batch
    OBVIOUS
  <2>6. Appended(s, q, b) /\ Appended(t, q, u)
    BY <1>0, <2>3, <2>5, AppendedFacts
  <2>7. Len(b) \in Nat /\ k \in Nat /\ k <= Len(b) /\ \A i \in 1 .. k : u[i] = b[i]
    BY <1>0, <2>1, <2>3, <2>5
  <2>8. t \in Seq(Message) /\ Len(t) <= Len(s)
    BY <2>3, <2>6, <2>7 DEF Appended
  <2>9. ASSUME NEW i \in 1 .. Len(t) PROVE t[i] = s[i]
    <3>1. CASE i \in 1 .. Len(q)
      BY <2>6, <3>1 DEF Appended
    <3>2. CASE i \notin 1 .. Len(q)
      <4> DEFINE j == i - Len(q)
      <4>1. j \in 1 .. Len(u) /\ t[i] = u[j] /\ i = Len(q) + j
        BY <2>6, <3>2 DEF Appended
      <4> HIDE DEF j
      <4>2. j \in 1 .. Len(b) /\ u[j] = b[j]
        BY <2>3, <2>7, <4>1
      <4>3. s[Len(q) + j] = b[j]
        BY <2>6, <4>2 DEF Appended
      <4> QED BY <4>1, <4>2, <4>3
    <3> QED BY <3>1, <3>2
  <2>10. /\ Queue' \in Seq(Message) /\ Len(Queue') <= Len(Queue)
         /\ \A i \in 1 .. Len(Queue') : Queue'[i] = Queue[i]
    BY <2>4, <2>5, <2>8, <2>9
  <2> QED BY <1>0, <2>2, <2>10, QueueCut
<1>4. CASE Crash
  <2>1. pc' = "ended" /\ sent' = sent /\ Queue' = sent
    BY <1>4 DEF Crash, End, clientVars, Queue
  <2>2. CASE pc = "publish"
    <3>1. Queue = sent \o batch
      BY <2>2 DEF Queue
    <3>2. PICK s, q, b : s = sent \o batch /\ q = sent /\ b = batch
      OBVIOUS
    <3>3. Appended(s, q, b)
      BY <1>0, <3>2, AppendedFacts
    <3>4. q \in Seq(Message) /\ Len(q) <= Len(s) /\ \A i \in 1 .. Len(q) : q[i] = s[i]
      BY <3>3 DEF Appended
    <3>5. /\ Queue' \in Seq(Message) /\ Len(Queue') <= Len(Queue)
          /\ \A i \in 1 .. Len(Queue') : Queue'[i] = Queue[i]
      BY <2>1, <3>1, <3>2, <3>4
    <3> QED BY <1>0, <2>1, <3>5, QueueCut
  <2>3. CASE pc # "publish"
    <3>1. Queue' = Queue /\ pc # "ended" /\ UNCHANGED <<store, journeys>>
      BY <1>4, <2>1, <2>3 DEF Queue, Crash
    <3> QED BY <3>1, QueueKept
  <2> QED BY <2>2, <2>3
<1>5. CASE BuildRaises \/ Poll \/ StartFlush \/ Flush
  <2>1. Queue' = Queue /\ pc # "ended" /\ UNCHANGED <<store, journeys>>
    BY <1>5 DEF BuildRaises, Poll, StartFlush, Flush, End, clientVars, Queue
  <2> QED BY <2>1, QueueKept
<1>6. CASE Signal \/ Deliver \/ DeliveryFails
  <2>1. Queue' = Queue /\ pc # "ended" /\ UNCHANGED <<store, journeys>>
    BY <1>6 DEF Signal, Deliver, DeliveryFails, clientVars, loopVars, Queue
  <2> QED BY <2>1, QueueKept
<1>7. CASE UNCHANGED vars
  BY <1>7 DEF vars, loopVars, clientVars, QueueInv, Queue, PoolAnnounced, EventsOfPool
<1> QED BY <1>1, <1>2, <1>3, <1>4, <1>5, <1>6, <1>7 DEF Next, MainStep

(* The customer of a takeover has paid before, whatever is sent later. *)
LEMMA TakeoverStep ==
    ASSUME LoopInv, QueueInv, TakeoverAfterPurchase, [Next]_vars
    PROVE  TakeoverAfterPurchase'
<1>0. TypeOK /\ sent \in Seq(Message) /\ batch \in Seq(Message)
  BY DEF LoopInv, TypeOK
<1>1. CASE Build
  <2>1. PICK p, c, new, cart, base, ev : Took(p, c, new, cart, base, ev)
    BY <1>0, <1>1, BuildFacts
  <2>2. TookShape(p, c, new, cart, base, ev)
    BY <1>0, <2>1, TookFacts
  <2>3. sent' = sent /\ PoolAnnounced(sent)
    BY <1>1 DEF Build, clientVars, QueueInv, Queue
  <2>4. store'[c].persona = p
    BY <2>2 DEF TookShape, Finished
  <2>5. p = "account_takeover" => c \in DOMAIN store /\ store[c].history
    BY <2>1 DEF Took
  <2>6. ASSUME NEW d \in DOMAIN store', store'[d].persona = "account_takeover"
        PROVE  \E i \in DOMAIN sent : /\ sent[i].event.kind = "payment_completed"
                                      /\ sent[i].event.customer = d
    <3>1. CASE d = c
      BY <2>3, <2>4, <2>5, <2>6, <3>1 DEF PoolAnnounced
    <3>2. CASE d # c
      BY <2>2, <2>6, <3>2 DEF TookShape, TakeoverAfterPurchase
    <3> QED BY <3>1, <3>2
  <2> QED BY <2>3, <2>6 DEF TakeoverAfterPurchase
<1>2. ASSUME store' = store, NEW u \in Seq(Message), sent' = sent \o u
      PROVE  TakeoverAfterPurchase'
  <2>1. PICK s, q : s = sent' /\ q = sent
    OBVIOUS
  <2>2. s = q \o u /\ q \in Seq(Message)
    BY <1>0, <1>2, <2>1
  <2>3. Appended(s, q, u)
    BY <2>2, AppendedFacts
  <2>4. \A i \in DOMAIN q : i \in DOMAIN s /\ s[i] = q[i]
    BY <2>3 DEF Appended
  <2> QED BY <1>2, <2>1, <2>4 DEF TakeoverAfterPurchase
<1>3. CASE Publish
  BY <1>0, <1>2, <1>3 DEF Publish
<1>4. CASE PublishRaises
  <2>1. PICK k \in 0 .. Len(batch) - 1 : sent' = sent \o SubSeq(batch, 1, k)
    BY <1>4 DEF PublishRaises
  <2>2. SubSeq(batch, 1, k) \in Seq(Message) /\ store' = store
    BY <1>0, <1>4, <2>1 DEF PublishRaises
  <2> QED BY <1>2, <2>1, <2>2
<1>5. CASE UNCHANGED <<store, sent>>
  BY <1>5 DEF TakeoverAfterPurchase
<1>6. CASE BuildRaises \/ Poll \/ StartFlush \/ Flush \/ Signal \/ Crash \/ Deliver
            \/ DeliveryFails \/ UNCHANGED vars
  BY <1>5, <1>6 DEF BuildRaises, Poll, StartFlush, Flush, Signal, Crash, Deliver, DeliveryFails,
     vars, clientVars
<1> QED BY <1>1, <1>3, <1>4, <1>6 DEF Next, MainStep

-----------------------------------------------------------------------------
(* The inductive invariant of the generator holds: what is handed over,    *)
(* with the journey being published, is causally ordered, judged as it is  *)
(* tagged and in the order of each customer's times, and the pool knows    *)
(* only what was announced in it, in any configuration, however many       *)
(* journeys there are and wherever the process ends.                       *)
THEOREM GeneratorIInvHolds == Spec => []GeneratorIInv
<1>1. Init => GeneratorIInv
  <2> SUFFICES ASSUME Init PROVE GeneratorIInv
    OBVIOUS
  <2>1. config \in ConfigType /\ config \in Configs /\ config.faults \in Nat /\ MaxJourneys \in Nat
    BY GeneratorAssumption DEF Init, ConfigType
  <2>2. DOMAIN store = {} /\ Queue = <<>> /\ Len(sent) = 0 /\ sent = <<>> /\ batch = <<>>
    BY DEF Init, Queue
  <2>3. TypeOK
    <3>1. batch \in Seq(Message) /\ sent \in Seq(Message)
      BY <2>2
    <3>2. /\ resolved \in 0 .. Len(sent) /\ journeys \in 0 .. MaxJourneys
          /\ generated \in 0 .. journeys /\ budget \in 0 .. config.faults
      BY <2>1, <2>2 DEF Init
    <3> QED BY <2>1, <2>2, <3>1, <3>2 DEF Init, TypeOK, Running
  <2>4. HandsOver /\ CleanExitDelivered /\ TakeoverAfterPurchase
    BY <2>2 DEF Init, HandsOver, CleanExitDelivered, TakeoverAfterPurchase, Running
  <2>5. DOMAIN Queue = {}
    BY <2>2
  <2>6. VerdictsIn(Queue) /\ ForwardIn(Queue) /\ ReferredBefore(Queue) /\ CreatedOnce(Queue)
    BY <2>5 DEF VerdictsIn, ForwardIn, ReferredBefore, CreatedOnce
  <2>7. PoolAnnounced(Queue) /\ EventsOfPool(Queue)
    BY <2>2, <2>5 DEF PoolAnnounced, EventsOfPool
  <2> QED BY <2>3, <2>4, <2>6, <2>7 DEF GeneratorIInv
<1>2. GeneratorIInv /\ [Next]_vars => GeneratorIInv'
  <2>1. GeneratorIInv <=> LoopInv /\ QueueInv /\ TakeoverAfterPurchase
    BY DEF GeneratorIInv, LoopInv, QueueInv
  <2>2. GeneratorIInv' <=> LoopInv' /\ QueueInv' /\ TakeoverAfterPurchase'
    BY DEF GeneratorIInv, LoopInv, QueueInv
  <2> QED BY <2>1, <2>2, LoopStep, QueueStep, TakeoverStep
<1> QED BY <1>1, <1>2, PTL DEF Spec

(* The state of the generator keeps its types: in particular no more       *)
(* journeys are counted than were built, and the pool holds only customers *)
(* that were created.                                                      *)
THEOREM GeneratorTypeOKHolds == Spec => []TypeOK
<1>1. GeneratorIInv => TypeOK
  BY DEF GeneratorIInv
<1> QED BY <1>1, GeneratorIInvHolds, PTL

(* Exit code 0 means that every message of every journey is on the topic. *)
THEOREM CleanExitDeliveredHolds == Spec => []CleanExitDelivered
<1>1. GeneratorIInv => CleanExitDelivered
  BY DEF GeneratorIInv
<1> QED BY <1>1, GeneratorIInvHolds, PTL

(* The customer of a takeover has paid for an order in an earlier journey. *)
THEOREM TakeoverAfterPurchaseHolds == Spec => []TakeoverAfterPurchase
<1>1. GeneratorIInv => TakeoverAfterPurchase
  BY DEF GeneratorIInv
<1> QED BY <1>1, GeneratorIInvHolds, PTL

(* What is sent is the queue, or what comes first of it. *)
LEMMA SentOfQueue ==
    ASSUME GeneratorIInv
    PROVE  VerdictsIn(sent) /\ ForwardIn(sent) /\ ReferredBefore(sent) /\ CreatedOnce(sent)
<1>1. /\ VerdictsIn(Queue) /\ ForwardIn(Queue) /\ ReferredBefore(Queue) /\ CreatedOnce(Queue)
      /\ sent \in Seq(Message) /\ batch \in Seq(Message)
  BY DEF GeneratorIInv, TypeOK
<1>2. CASE pc = "publish"
  <2>1. PICK s, q, b : s = sent \o batch /\ q = sent /\ b = batch
    OBVIOUS
  <2>2. Appended(s, q, b)
    BY <1>1, <2>1, AppendedFacts
  <2>3. /\ s \in Seq(Message) /\ q \in Seq(Message) /\ Len(q) <= Len(s)
        /\ \A i \in 1 .. Len(q) : q[i] = s[i]
    BY <2>2 DEF Appended
  <2>4. VerdictsIn(s) /\ ForwardIn(s) /\ ReferredBefore(s) /\ CreatedOnce(s)
    BY <1>1, <1>2, <2>1 DEF Queue
  <2>5. VerdictsIn(q) /\ ForwardIn(q) /\ ReferredBefore(q) /\ CreatedOnce(q)
    BY <2>3, <2>4, PrefixKeeps
  <2> QED BY <2>1, <2>5
<1>3. CASE pc # "publish"
  BY <1>1, <1>3 DEF Queue
<1> QED BY <1>2, <1>3

(* Whatever an event refers to has been sent before it, unless the         *)
(* injector swapped it, and no row but a cart is created by two events.    *)
THEOREM CausallyValidHolds == Spec => []CausallyValid
<1>1. GeneratorIInv => CausallyValid
  BY SentOfQueue DEF CausallyValid
<1> QED BY <1>1, GeneratorIInvHolds, PTL

(* The event times of a customer increase from journey to journey,         *)
(* whatever the system clock shows.                                        *)
THEOREM TimesForwardHolds == Spec => []TimesForward
<1>1. GeneratorIInv => TimesForward
  BY SentOfQueue DEF TimesForward
<1> QED BY <1>1, GeneratorIInvHolds, PTL

(* The processor makes of every message what its anomaly header says, and  *)
(* a duplicate repeats a message sent before it.                           *)
THEOREM InjectedVerdictsHolds == Spec => []InjectedVerdicts
<1>1. GeneratorIInv => InjectedVerdicts
  BY SentOfQueue DEF InjectedVerdicts
<1> QED BY <1>1, GeneratorIInvHolds, PTL
=============================================================================
