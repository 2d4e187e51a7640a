---------------------------- MODULE FraudEngine ----------------------------
(***************************************************************************)
(* The fraud engine inside the persistence transaction: the event is       *)
(* written to the business tables, the context is read back from them,     *)
(* the rules score it, and the evaluation, the alert and the outbox row    *)
(* are committed with the event or not at all.                             *)
(*                                                                         *)
(* Several workers run such transactions at READ COMMITTED: each query of  *)
(* the context sees what is committed when it runs, and the transaction's  *)
(* own rows.  The tables are functions of the set of persisted events, so  *)
(* that set is the state.  Times are seconds; an event has one time        *)
(* (event_time, and attempted_at, ordered_at... in its row).  Currency is  *)
(* compared like the customer and is left out.                             *)
(***************************************************************************)
EXTENDS Integers, FiniteSetsExt

CONSTANTS
    Worker,         \* workers with a database connection
    Deployments,    \* the pairs of events on the topic and configuration
    Home,           \* home_country of each registered customer
    MaxFaults,      \* bound: transactions rolled back
    NoEvent, NoResult

RuleId == {"high_amount", "payment_velocity", "failed_payment_burst", "new_device",
           "country_mismatch", "rapid_checkout", "account_takeover_composite",
           "refund_abuse", "bot_checkout", "payment_amount_mismatch"}

PaymentType == {"payment_failed", "payment_completed"}
OrderType   == {"checkout_started", "order_created"} \cup PaymentType
Eligible    == OrderType \cup {"refund_requested"}
EventType   == Eligible \cup {"session_started", "product_viewed"}

None == "none"      \* a field the payload does not have

(* The payload fields the context looks at.  Ids are numbers, 0 is none.   *)
EventShape ==
    [id : Nat, type : EventType, time : Nat, customer : DOMAIN Home, session : Nat,
     order : Nat, payment : Nat, amount : Nat, device : STRING, country : STRING]

(* FraudConfig; the fields ending in score are percentages, like the       *)
(* thresholds, and refund_rate is one too.                                 *)
ConfigShape ==
    [enabled : BOOLEAN, outbox : BOOLEAN, rules : SUBSET RuleId,
     review : 0 .. 100, block : 0 .. 100, lookback : Nat \ {0}, limit : Nat \ {0},
     amount : Nat, multiplier : Nat \ {0, 1}, attempts : Nat \ {0},
     velocity_window : Nat \ {0}, failures : Nat \ {0}, failure_window : Nat \ {0},
     history : Nat \ {0}, country_window : Nat \ {0}, rapid : Nat \ {0},
     signals : 2 .. 5, refund_rate : 0 .. 100, rapid_refund : Nat \ {0},
     views : Nat \ {0},
     amount_score : 0 .. 100, deviation_score : 0 .. 100, velocity_score : 0 .. 100,
     failure_score : 0 .. 100, device_score : 0 .. 100, country_score : 0 .. 100,
     multi_country_score : 0 .. 100, rapid_score : 0 .. 100,
     takeover_score : 0 .. 100, refund_score : 0 .. 100, bot_score : 0 .. 100,
     mismatch_score : 0 .. 100]

Decision == {"APPROVE", "REVIEW", "BLOCK"}
LOW == 0
MEDIUM == 1
HIGH == 2
CRITICAL == 3

Evaluation == [matched : SUBSET RuleId, score : 0 .. 100, decision : Decision,
               severity : LOW .. CRITICAL]

(* The payloads without an order_id; order_created has no payment_id *)
BeforeOrder == {"session_started", "product_viewed", "checkout_started"}

ASSUME FraudAssumption ==
    /\ Deployments \subseteq [log : SUBSET EventShape, config : ConfigShape]
    /\ \A d \in Deployments :
        /\ IsFiniteSet(d.log) /\ NoEvent \notin d.log
        /\ \A e, f \in d.log : e.id = f.id => e = f
        /\ \A e \in d.log : e.order = 0 <=> e.type \in BeforeOrder
        /\ \A e \in d.log : e.payment = 0 <=> e.type \in BeforeOrder \cup {"order_created"}
        /\ d.config.review < d.config.block
    /\ MaxFaults \in Nat
    /\ NoResult \notin Evaluation

VARIABLES
    \* the events on the topic, and the configuration of the processor
    log, config,
    \* processed_events and the business tables: the events persisted
    persisted,
    \* fraud_evaluations, and the events with an alert and an outbox row
    evaluation, alerts, outbox,
    \* the transactions: event, next step, what the first queries saw, and
    \* the evaluation about to be written
    event, pc, seen, result,
    \* disturbances left
    budget

tables == <<persisted, evaluation, alerts, outbox>>
txVars == <<event, pc, seen, result>>
vars == <<log, config, tables, txVars, budget>>

TypeOK ==
    /\ [log |-> log, config |-> config] \in Deployments
    /\ persisted \subseteq log
    /\ \A e \in DOMAIN evaluation : e \in log /\ evaluation[e] \in Evaluation
    /\ alerts \subseteq log
    /\ outbox \subseteq log
    /\ event \in [Worker -> log \cup {NoEvent}]
    /\ pc \in [Worker -> {"idle", "read", "evaluate", "commit"}]
    /\ seen \in [Worker -> SUBSET log]
    /\ result \in [Worker -> Evaluation \cup {NoResult}]
    /\ budget \in 0 .. MaxFaults

Init ==
    /\ \E d \in Deployments : log = d.log /\ config = d.config
    /\ persisted = {}
    /\ evaluation = [e \in {} |-> NoResult]
    /\ alerts = {}
    /\ outbox = {}
    /\ event = [w \in Worker |-> NoEvent]
    /\ pc = [w \in Worker |-> "idle"]
    /\ seen = [w \in Worker |-> {}]
    /\ result = [w \in Worker |-> NoResult]
    /\ budget = MaxFaults

-----------------------------------------------------------------------------
(* The queries.  rows is the set of events whose rows are visible.         *)
OrderOf(e, rows) == {f \in rows : f.type = "order_created" /\ f.order = e.order}

PaymentOf(e, rows) ==
    {f \in rows : f.type \in PaymentType /\ f.payment = e.payment}

RefundsOf(e, rows) ==
    {f \in rows : f.type = "refund_requested" /\ f.payment = e.payment}

(* The session named by the payload, or the one of its order *)
SessionOf(e, rows) ==
    {s \in rows : /\ s.type = "session_started"
                  /\ \/ s.session = e.session
                     \/ \E o \in OrderOf(e, rows) : e.session = 0 /\ s.session = o.session}

(* ORDER BY time DESC, id LIMIT n *)
Latest(n, rows) ==
    {f \in rows : Cardinality({g \in rows : \/ g.time > f.time
                                            \/ g.time = f.time /\ g.id < f.id}) < n}

Within(rows, types, e, from) ==
    {f \in rows : /\ f.type \in types /\ f.customer = e.customer
                  /\ from <= f.time /\ f.time <= e.time}

(* A faulty variant: rows of later events are not left out. *)
RecentPaymentsUncut(e, rows) ==
    Latest(config.limit,
           {f \in rows : /\ f.type \in PaymentType /\ f.customer = e.customer
                         /\ e.time - config.lookback <= f.time})

RecentPayments(e, rows) ==
    Latest(config.limit, Within(rows, PaymentType, e, e.time - config.lookback))

RecentRefunds(e, rows) ==
    Latest(config.limit,
           Within(rows, {"refund_requested"}, e, e.time - config.lookback))

(* A payment is completed until a refund of it is persisted. *)
Successful(e, rows) ==
    {f \in Latest(config.limit, {g \in rows : /\ g.type \in PaymentType
                                              /\ g.customer = e.customer
                                              /\ g.time < e.time}) :
        f.type = "payment_completed" /\ RefundsOf(f, rows) = {}}

Amounts(rows) == MapThenSumSet(LAMBDA f : f.amount, rows)

NotNegative(n) == IF n < 0 THEN 0 ELSE n

(* FraudContextBuilder.build: the first queries see the rows in first, the *)
(* later ones those in rows.  A checkout has no order yet.                 *)
Context(e, first, rows) ==
    LET order == OrderOf(e, first)
        start == CHOOSE s \in SessionOf(e, first) : TRUE
        recent == RecentPayments(e, first)
        good == Successful(e, rows)
        payment == CHOOSE p \in PaymentOf(e, rows) : TRUE
        after(window) == {f \in recent : f.time >= e.time - window}
        newDevice == /\ e.device # None /\ good # {}
                     /\ e.device \notin {f.device : f \in good}
    IN [type |-> e.type,
        amount |-> e.amount,
        deviates |-> /\ Amounts(good) > 0
                     /\ e.amount * Cardinality(good)
                            >= Amounts(good) * config.multiplier,
        matches |-> \A o \in order : o.amount = e.amount,
        attempts |-> Cardinality(after(config.velocity_window)),
        failures |-> Cardinality({f \in after(config.failure_window) :
                                    f.type = "payment_failed"}),
        countries |-> Cardinality({f.country : f \in after(config.country_window)}),
        established |-> Cardinality(good),
        newDevice |-> newDevice,
        abroad |-> e.country # None /\ e.country # Home[e.customer],
        elapsed |-> NotNegative(e.time - start.time),
        views |-> Cardinality(Latest(config.limit,
                        Within(rows, {"product_viewed"}, e, start.time))),
        refunds |-> Cardinality(RecentRefunds(e, rows)),
        refundable |-> IF e.payment = 0 THEN 0
                       ELSE payment.amount - Amounts(RefundsOf(e, rows)),
        sincePayment |-> IF e.payment = 0 THEN 0 ELSE NotNegative(e.time - payment.time)]

-----------------------------------------------------------------------------
(* rules/: the event types a rule supports, whether it matches, its score  *)
(* and severity if it does, and its maximum_score.                         *)
Rule(types, matched, score, maximum, severity) ==
    [types |-> types, matched |-> matched, score |-> score, maximum |-> maximum,
     severity |-> severity]

Simple(types, matched, score, severity) == Rule(types, matched, score, score, severity)

AtMost(n, maximum) == IF n > maximum THEN maximum ELSE n

HighAmountRule(c) ==
    LET absolute == c.amount >= config.amount
        score == (IF absolute THEN config.amount_score ELSE 0)
                 + (IF c.deviates THEN config.deviation_score ELSE 0)
        maximum == AtMost(config.amount_score + config.deviation_score, 100)
    IN Rule(Eligible, absolute \/ c.deviates, AtMost(score, maximum), maximum,
            IF c.deviates THEN HIGH ELSE MEDIUM)

(* A faulty variant: the sum of the two scores is not capped. *)
CountryMismatchRuleUncapped(c) ==
    LET multiple == c.countries > 1
        score == (IF c.abroad THEN config.country_score ELSE 0)
                 + (IF multiple THEN config.multi_country_score ELSE 0)
        maximum == AtMost(config.country_score + config.multi_country_score, 100)
    IN Rule({"order_created"} \cup PaymentType, c.abroad \/ multiple,
            score, maximum, IF multiple THEN HIGH ELSE MEDIUM)

CountryMismatchRule(c) ==
    LET multiple == c.countries > 1
        score == (IF c.abroad THEN config.country_score ELSE 0)
                 + (IF multiple THEN config.multi_country_score ELSE 0)
        maximum == AtMost(config.country_score + config.multi_country_score, 100)
    IN Rule({"order_created"} \cup PaymentType, c.abroad \/ multiple,
            AtMost(score, maximum), maximum, IF multiple THEN HIGH ELSE MEDIUM)

AccountTakeoverCompositeRule(c) ==
    LET signals == {s \in 1 .. 5 : <<c.established > 0, c.newDevice, c.abroad,
                                     c.elapsed <= config.rapid, c.deviates>>[s]}
    IN Simple(OrderType, Cardinality(signals) >= config.signals,
              config.takeover_score, CRITICAL)

(* refundable_amount is what this refund, already persisted, leaves. *)
RefundAbuseRule(c) ==
    LET rapid == c.sincePayment <= config.rapid_refund
        rate == IF config.refund_rate > 90 THEN config.refund_rate ELSE 90
        nearFull == c.refundable > 0 /\ c.amount * 100 >= c.refundable * rate
    IN Simple({"refund_requested"},
              c.refunds >= 3 \/ (rapid /\ nearFull /\ c.refunds >= 2),
              config.refund_score, HIGH)

PaymentVelocityRule(c) ==
    Simple(PaymentType, c.attempts >= config.attempts, config.velocity_score, MEDIUM)

FailedPaymentBurstRule(c) ==
    Simple(PaymentType, c.failures >= config.failures, config.failure_score, HIGH)

NewDeviceRule(c) ==
    Simple(PaymentType, c.established >= config.history /\ c.newDevice,
           config.device_score, MEDIUM)

RapidCheckoutRule(c) ==
    Simple(OrderType, c.elapsed <= config.rapid, config.rapid_score, MEDIUM)

BotCheckoutRule(c) ==
    Simple(OrderType, c.views >= config.views /\ c.elapsed <= config.rapid,
           config.bot_score, MEDIUM)

PaymentAmountMismatchRule(c) ==
    Simple(Eligible, ~c.matches, config.mismatch_score, CRITICAL)

(* build_rule_registry *)
Rules(c) ==
    [high_amount |-> HighAmountRule(c),
     payment_velocity |-> PaymentVelocityRule(c),
     failed_payment_burst |-> FailedPaymentBurstRule(c),
     new_device |-> NewDeviceRule(c),
     country_mismatch |-> CountryMismatchRule(c),
     rapid_checkout |-> RapidCheckoutRule(c),
     account_takeover_composite |-> AccountTakeoverCompositeRule(c),
     refund_abuse |-> RefundAbuseRule(c),
     bot_checkout |-> BotCheckoutRule(c),
     payment_amount_mismatch |-> PaymentAmountMismatchRule(c)]

(* FraudEngine.evaluate: the enabled rules that support the event and match *)
MatchedRules(c) ==
    {r \in config.rules : c.type \in Rules(c)[r].types /\ Rules(c)[r].matched}

(* A rule that returns more than its maximum raises. *)
Exceeds(c) == \E r \in MatchedRules(c) : Rules(c)[r].score > Rules(c)[r].maximum

(* The highest severity of a matched rule, at least the decision's *)
Severity(c, minimum) == Max({Rules(c)[r].severity : r \in MatchedRules(c)} \cup {minimum})

(* A faulty variant: the sum is not capped. *)
AggregateUncapped(c) ==
    LET score == MapThenSumSet(LAMBDA r : Rules(c)[r].score, MatchedRules(c))
        decision == IF score >= config.block THEN "BLOCK"
                    ELSE IF score >= config.review THEN "REVIEW" ELSE "APPROVE"
        minimum == CASE decision = "BLOCK" -> HIGH
                     [] decision = "REVIEW" -> MEDIUM
                     [] OTHER -> LOW
    IN [matched |-> MatchedRules(c), score |-> score, decision |-> decision,
        severity |-> Severity(c, minimum)]

(* aggregate *)
Aggregate(c) ==
    LET score == AtMost(MapThenSumSet(LAMBDA r : Rules(c)[r].score, MatchedRules(c)), 100)
        decision == IF score >= config.block THEN "BLOCK"
                    ELSE IF score >= config.review THEN "REVIEW" ELSE "APPROVE"
        minimum == CASE decision = "BLOCK" -> HIGH
                     [] decision = "REVIEW" -> MEDIUM
                     [] OTHER -> LOW
    IN [matched |-> MatchedRules(c), score |-> score, decision |-> decision,
        severity |-> Severity(c, minimum)]

-----------------------------------------------------------------------------
(* What the repositories insist on before they write the event's rows      *)
(* (CommerceLedger looks inside): the session its cart needs; an order of  *)
(* this customer and amount; a successful payment with enough left; and an *)
(* order_id or payment_id that is not taken.                               *)
Accepts(e) ==
    LET sameOrder(f) == f.customer = e.customer /\ f.order = e.order IN
    CASE e.type = "session_started" -> TRUE
      [] e.type \in {"product_viewed", "checkout_started", "order_created"} ->
            /\ \E s \in persisted : s.type = "session_started" /\ s.session = e.session
            /\ e.type = "order_created" => OrderOf(e, persisted) = {}
      [] e.type \in PaymentType ->
            /\ PaymentOf(e, persisted) = {}
            /\ \E o \in OrderOf(e, persisted) : sameOrder(o) /\ o.amount = e.amount
      [] e.type = "refund_requested" ->
            \E p \in PaymentOf(e, persisted) :
                /\ sameOrder(p) /\ p.type = "payment_completed"
                /\ Amounts(RefundsOf(e, persisted)) + e.amount <= p.amount

(* A faulty variant: the order is read without FOR UPDATE. *)
WaitsForIdentityOnly(e) == \E w \in Worker : event[w] # NoEvent /\ event[w].id = e.id

(* The events whose handlers take the lock of their order *)
LocksOrder(e) == e.type \in PaymentType \cup {"refund_requested"}

(* Another transaction has inserted the event's identity, or its order_id  *)
(* or payment_id, or holds the lock of its order.  A payment takes that    *)
(* lock first (SELECT ... FOR UPDATE), a refund with its last statement    *)
(* (UPDATE orders); both have it before the queries of the context start.  *)
Waits(e) ==
    \E w \in Worker :
        LET f == event[w] IN
        /\ f # NoEvent
        /\ \/ f.id = e.id
           \/ LocksOrder(f) /\ LocksOrder(e) /\ f.order = e.order
           \/ f.type = "order_created" /\ e.type = "order_created" /\ f.order = e.order
           \/ f.type \in PaymentType /\ e.type \in PaymentType /\ f.payment = e.payment

Ended(w) ==
    /\ event' = [event EXCEPT ![w] = NoEvent]
    /\ pc' = [pc EXCEPT ![w] = "idle"]
    /\ seen' = [seen EXCEPT ![w] = {}]
    /\ result' = [result EXCEPT ![w] = NoResult]

(* insert_identity and handler.apply.  A redelivered event is found by its *)
(* identity, and an event the repositories refuse leaves nothing.          *)
Apply(w, e) ==
    /\ pc[w] = "idle"
    /\ e \notin persisted
    /\ ~Waits(e)
    /\ Accepts(e)
    /\ event' = [event EXCEPT ![w] = e]
    /\ pc' = [pc EXCEPT ![w] = IF config.enabled /\ e.type \in Eligible
                               THEN "read" ELSE "commit"]
    /\ UNCHANGED <<log, config, tables, seen, result, budget>>

(* The queries of the context up to the recent payments *)
ReadPayments(w) ==
    /\ pc[w] = "read"
    /\ seen' = [seen EXCEPT ![w] = persisted \cup {event[w]}]
    /\ pc' = [pc EXCEPT ![w] = "evaluate"]
    /\ UNCHANGED <<log, config, tables, event, result, budget>>

(* The context the rest of the queries complete *)
ContextOf(w) == Context(event[w], seen[w], persisted \cup {event[w]})

Evaluate(w) ==
    /\ pc[w] = "evaluate"
    /\ ~Exceeds(ContextOf(w))
    /\ result' = [result EXCEPT ![w] = Aggregate(ContextOf(w))]
    /\ pc' = [pc EXCEPT ![w] = "commit"]
    /\ UNCHANGED <<log, config, tables, event, seen, budget>>

(* A faulty variant: the alert is written after the decision was committed. *)
CommitEvaluationFirst(w) ==
    /\ pc[w] = "commit"
    /\ persisted' = persisted \cup {event[w]}
    /\ evaluation' = [e \in DOMAIN evaluation
                            \cup (IF result[w] = NoResult THEN {} ELSE {event[w]}) |->
                        IF e = event[w] THEN result[w] ELSE evaluation[e]]
    /\ Ended(w)
    /\ UNCHANGED <<log, config, alerts, outbox, budget>>

(* FraudRepository.persist and the commit *)
Commit(w) ==
    LET raised == result[w] # NoResult /\ result[w].decision # "APPROVE" IN
    /\ pc[w] = "commit"
    /\ persisted' = persisted \cup {event[w]}
    /\ evaluation' = [e \in DOMAIN evaluation
                            \cup (IF result[w] = NoResult THEN {} ELSE {event[w]}) |->
                        IF e = event[w] THEN result[w] ELSE evaluation[e]]
    /\ alerts' = IF raised THEN alerts \cup {event[w]} ELSE alerts
    /\ outbox' = IF raised /\ config.outbox THEN outbox \cup {event[w]} ELSE outbox
    /\ Ended(w)
    /\ UNCHANGED <<log, config, budget>>

(* The process crashes or the connection is lost before the commit. *)
Rollback(w) ==
    /\ pc[w] # "idle"
    /\ budget > 0
    /\ budget' = budget - 1
    /\ Ended(w)
    /\ UNCHANGED <<log, config, tables>>

Next ==
    \E w \in Worker :
        \/ \E e \in log : Apply(w, e)
        \/ ReadPayments(w) \/ Evaluate(w) \/ Commit(w) \/ Rollback(w)

Spec == Init /\ [][Next]_vars
-----------------------------------------------------------------------------
(* docs/fraud-engine.md:87-90: one evaluation for every eligible event     *)
(* that is persisted, an alert and an outbox row for exactly those that    *)
(* are not approved, in whatever step a transaction is rolled back and     *)
(* however often its event is delivered (unit_of_work.py:125-192,          *)
(* repository.py:47-165).                                                  *)
EvaluatedAtomically ==
    /\ DOMAIN evaluation = {e \in persisted : config.enabled /\ e.type \in Eligible}
    /\ alerts = {e \in DOMAIN evaluation : evaluation[e].decision # "APPROVE"}
    /\ outbox = IF config.outbox THEN alerts ELSE {}

(* docs/fraud-engine.md:41-43, "Queries use event_time": once the earlier  *)
(* events of the customer are persisted, the verdict on an event is a      *)
(* function of the log.  Later events that overtook it, concurrent         *)
(* transactions of the customer and the two moments at which the context   *)
(* is read make no difference - except for a later refund, which changes   *)
(* the status of a payment row (context.py:133-206, refunds.py:75-84).     *)
VerdictOfTheLog ==
    \A w \in Worker :
        LET e == event[w]
            past == {f \in log : f.customer = e.customer /\ f.time <= e.time}
            overtaken == \E f \in persisted : /\ f.type = "refund_requested"
                                              /\ f.time > e.time
        IN pc[w] = "evaluate" /\ past \subseteq seen[w] /\ ~overtaken
            => Aggregate(ContextOf(w)) = Aggregate(Context(e, past, past))

(* Attempts and refunds of one order are evaluated one after the other:    *)
(* none of them is persisted between the queries of another and its        *)
(* commit, so velocity and refund counts miss nothing of the order         *)
(* (payments.py:39-45, refunds.py:85-95).                                  *)
OrderUndisturbed ==
    \A w \in Worker :
        LET e == event[w] IN
        pc[w] \in {"evaluate", "commit"} /\ LocksOrder(e) /\ config.enabled
            => {f \in persisted : LocksOrder(f) /\ f.order = e.order} \subseteq seen[w]

(* No rule returns more than its maximum_score, which would raise and send *)
(* the event to the dead-letter topic, even where the scores of its two    *)
(* signals add up to more than 100 (engine.py:43-46, geography.py:19-34).  *)
RulesWithinMaximum ==
    \A w \in Worker : pc[w] = "evaluate" => ~Exceeds(ContextOf(w))

(* When payment_amount_mismatch is reported: never for a checkout, order   *)
(* or payment, because the ledger accepted only amounts that agree, in     *)
(* whatever order the events arrived (payments.py:46-57); and for a refund *)
(* exactly when it is not of the whole order, because its own amount is    *)
(* compared with the order's (context.py:128-132).  The latter is not what *)
(* docs/deep-dives/fraud-decision-strategy.md:61 describes, "Persisted     *)
(* payment amount does not match the order amount".                        *)
MismatchIsPartialRefund ==
    \A e \in DOMAIN evaluation :
        "payment_amount_mismatch" \in evaluation[e].matched <=>
            /\ "payment_amount_mismatch" \in config.rules
            /\ e.type = "refund_requested"
            /\ \E o \in OrderOf(e, persisted) : o.amount # e.amount

(* docs/deep-dives/fraud-decision-strategy.md:61 on                        *)
(* payment_amount_mismatch: "Persisted payment amount does not match the   *)
(* order amount".  Where the rule matches, the payment and the order that  *)
(* are persisted for the event have different amounts (context.py:128-132, *)
(* rules/amount.py:61-81).                                                 *)
MismatchAsDocumented ==
    \A e \in DOMAIN evaluation :
        "payment_amount_mismatch" \in evaluation[e].matched =>
            \E p \in PaymentOf(e, persisted), o \in OrderOf(e, persisted) :
                p.amount # o.amount

(* Nothing in the log is earlier than what it refers to, and a session is  *)
(* used by its customer: so the generator writes it (journey.py).          *)
CausalLog(l) ==
    \A e, f \in l :
        /\ f.type = "session_started" /\ e.type \in Eligible /\ f.session = e.session
            => f.customer = e.customer /\ f.time <= e.time
        /\ f.type = "order_created" /\ LocksOrder(e) /\ f.order = e.order
            => f.time <= e.time
        /\ f.type \in PaymentType /\ e.type = "refund_requested" /\ f.payment = e.payment
            => f.time <= e.time

-----------------------------------------------------------------------------
(* The inductive invariant, for the proofs *)

Active == {event[w] : w \in Worker} \ {NoEvent}

TransactionsApart ==
    /\ \A w \in Worker : (pc[w] = "idle" <=> event[w] = NoEvent)
    /\ Active \cap persisted = {}
    /\ \A v, w \in Worker :
        v # w /\ event[v] # NoEvent /\ event[w] # NoEvent =>
            /\ event[v] # event[w]
            /\ LocksOrder(event[v]) /\ LocksOrder(event[w])
                => event[v].order # event[w].order

EvaluatedIfEligible ==
    \A w \in Worker :
        LET eligible == config.enabled /\ event[w].type \in Eligible IN
        /\ pc[w] \in {"read", "evaluate"} => eligible
        /\ result[w] # NoResult <=> pc[w] = "commit" /\ eligible

OrdersUnique ==
    \A e, f \in persisted \cup Active :
        e.type = "order_created" /\ f.type = "order_created" /\ e.order = f.order => e = f

PaymentsUnique ==
    \A e, f \in persisted \cup Active :
        e.type \in PaymentType /\ f.type \in PaymentType /\ e.payment = f.payment => e = f

OrdersExist ==
    \A e \in persisted \cup Active :
        LocksOrder(e) => \E o \in OrderOf(e, persisted) :
                            /\ o.customer = e.customer
                            /\ e.type \in PaymentType => o.amount = e.amount

PaymentsExist ==
    \A e \in persisted \cup Active :
        e.type = "refund_requested" => \E p \in PaymentOf(e, persisted) :
                                            p.customer = e.customer /\ p.order = e.order

SeesItsOrder ==
    \A w \in Worker :
        /\ seen[w] \subseteq persisted \cup {event[w]}
        /\ pc[w] = "evaluate" /\ LocksOrder(event[w]) => OrderOf(event[w], seen[w]) # {}

MismatchAtCommit ==
    \A w \in Worker :
        LET e == event[w] IN
        result[w] # NoResult =>
            ("payment_amount_mismatch" \in result[w].matched <=>
                /\ "payment_amount_mismatch" \in config.rules
                /\ e.type = "refund_requested"
                /\ \E o \in OrderOf(e, persisted) : o.amount # e.amount)

FraudIInv ==
    /\ TypeOK
    /\ TransactionsApart
    /\ EvaluatedIfEligible
    /\ OrdersUnique
    /\ PaymentsUnique
    /\ OrdersExist
    /\ PaymentsExist
    /\ SeesItsOrder
    /\ MismatchAtCommit
    /\ EvaluatedAtomically
    /\ OrderUndisturbed
    /\ MismatchIsPartialRefund
=============================================================================
