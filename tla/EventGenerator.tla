--------------------------- MODULE EventGenerator ---------------------------
(***************************************************************************)
(* The event generator: the journeys JourneyBuilder constructs, the pool   *)
(* of customers it keeps between them, the anomalies the injector adds,    *)
(* and the producer that hands the messages to Kafka and accounts for      *)
(* their delivery until the process ends.                                  *)
(*                                                                         *)
(* One thread builds, publishes, polls and flushes; the client library     *)
(* delivers, or gives up on, the head of its queue meanwhile.  Identifiers *)
(* are uuid4 values: the n-th journey creates the session, cart, order and *)
(* (if it registers one) customer numbered n, its m-th event is <<n, m>>.  *)
(* A restarted generator has lost its customers and starts from Init; only *)
(* with a configured seed it would repeat its identifiers.                 *)
(***************************************************************************)
EXTENDS Integers, Sequences, FiniteSets

CONSTANTS
    Configs,             \* the configurations the process may be started with
    MaxPaymentAttempts,  \* generator_max_payment_attempts
    MaxViews,            \* bound: product views of a journey
    MaxJourneys,         \* bound: journeys of a continuous run
    Lateness             \* how far late_event moves event_time back

Persona == {"normal", "indecisive", "discount_hunter", "suspicious", "bot",
            "account_takeover"}

(* The order in which the injector considers the anomalies; out_of_order   *)
(* comes last and swaps messages instead of adding one.                    *)
AnomalyOrder == <<"duplicate", "malformed_json", "missing_field",
                  "unknown_event_type", "late_event", "payload_mismatch">>
Anomaly == {AnomalyOrder[i] : i \in DOMAIN AnomalyOrder} \cup {"out_of_order"}

EventType == {"user_registered", "session_started", "product_viewed",
              "added_to_cart", "checkout_started", "order_created",
              "payment_failed", "payment_completed", "refund_requested"}

Continuous == 0     \* generator_journeys is unset
Running == -1       \* the process has no exit code yet
Killed == 137       \* it was killed

(* persona: the configured one, or "mix" for the weights; pool: the        *)
(* customer pool size; target: generator_journeys; clock: what the system  *)
(* clock may show; anomalies: the kinds with a positive probability;       *)
(* most: generator_max_anomalies_per_journey; faults: a bound, how many    *)
(* crashes, failed deliveries and full queues the run meets.               *)
ConfigType == [persona: Persona \cup {"mix"}, stateful: BOOLEAN, pool: Nat \ {0},
               target: Nat, clock: (SUBSET Nat) \ {{}}, anomalies: SUBSET Anomaly,
               most: Nat, faults: Nat]

ASSUME GeneratorAssumption ==
    /\ \A c \in Configs : c \in ConfigType /\ c.target <= MaxJourneys
    /\ MaxPaymentAttempts \in Nat \ {0}
    /\ MaxViews \in Nat \ {0}
    /\ MaxJourneys \in Nat \ {0}
    /\ Lateness \in Nat \ {0}

VARIABLES
    config,
    \* CustomerStateStore: persona, last activity, abandoned cart (0: none)
    \* and prior_normal_history of the customers in the pool
    store,
    \* run_generation: control point, exit code, shutdown.requested, journeys
    \* completed, messages of the journey being published, journeys built
    pc, code, shutdown, generated, batch, journeys,
    \* the Kafka client: messages accepted by produce(), how many of them are
    \* resolved, which were reported as failed, which never reached the topic
    sent, resolved, failed, lost,
    \* disturbances left
    budget

loopVars   == <<pc, code, shutdown, generated>>
clientVars == <<sent, resolved, failed, lost>>
vars == <<config, store, loopVars, batch, journeys, clientVars, budget>>

NoCart == 0

Customer == [persona: Persona, last: Nat, abandoned: Nat, history: BOOLEAN]

Event == [kind: EventType, id: Nat \X Nat, customer: Nat, session: Nat, cart: Nat,
          payment: Nat \X Nat, time: Nat]

(* PublishableMessage: the event its key and headers are made from, the    *)
(* bytes of its value as the parser sees them, and the anomaly header.     *)
Body == [parses: BOOLEAN, has_id: BOOLEAN,
         kind: EventType \cup {"synthetic_unknown_event"},
         payload: EventType, time: Int]
Message == [event: Event, body: Body, tag: Anomaly \cup {"none"}]

TypeOK ==
    /\ config \in Configs
    /\ DOMAIN store \subseteq 1 .. journeys
    /\ \A c \in DOMAIN store : store[c] \in Customer
    /\ pc \in {"loop", "publish", "poll", "flush", "ended"}
    /\ code \in {Running, Killed, 0, 1}
    /\ (code = Running) = (pc # "ended")
    /\ shutdown \in BOOLEAN
    /\ generated \in 0 .. journeys
    /\ journeys \in 0 .. MaxJourneys
    /\ batch \in Seq(Message)
    /\ sent \in Seq(Message)
    /\ resolved \in 0 .. Len(sent)
    /\ failed \subseteq 1 .. resolved
    /\ lost \subseteq failed
    /\ budget \in 0 .. config.faults

Init ==
    /\ config \in Configs
    /\ store = [c \in {} |-> 0]
    /\ pc = "loop"
    /\ code = Running
    /\ shutdown = FALSE
    /\ generated = 0
    /\ batch = <<>>
    /\ journeys = 0
    /\ sent = <<>>
    /\ resolved = 0
    /\ failed = {}
    /\ lost = {}
    /\ budget = config.faults

-----------------------------------------------------------------------------
(* personas/: the outcomes each branch probability leaves open, whether    *)
(* failed payments may be retried, whether an abandoned cart is reused.    *)
Usual == [add |-> BOOLEAN, checkout |-> BOOLEAN, paid |-> BOOLEAN,
          refund |-> BOOLEAN, retry |-> FALSE, reuse |-> FALSE]

Indecisive == [Usual EXCEPT !.reuse = TRUE]
DiscountHunter == [Usual EXCEPT !.reuse = TRUE]
Suspicious == [Usual EXCEPT !.retry = TRUE]
Bot == [Usual EXCEPT !.refund = {FALSE}]
AccountTakeover == [Usual EXCEPT !.add = {TRUE}, !.checkout = {TRUE}, !.retry = TRUE]

(* PERSONA_REGISTRY *)
Profile ==
    [normal |-> Usual, indecisive |-> Indecisive, discount_hunter |-> DiscountHunter,
     suspicious |-> Suspicious, bot |-> Bot, account_takeover |-> AccountTakeover]

(* _probability while an account takeover is being seeded *)
SeedingProfile == [Usual EXCEPT !.add = {TRUE}, !.checkout = {TRUE},
                                !.paid = {TRUE}, !.refund = {FALSE}]

(* _payments: attempts until one succeeds, or they end with a failure *)
Payments(profile) ==
    {[k \in 1 .. n |-> IF k = n /\ ok THEN "payment_completed" ELSE "payment_failed"]
        : n \in 1 .. (IF profile.retry THEN MaxPaymentAttempts ELSE 1),
          ok \in profile.paid}

(* The event types of a checkout, from checkout_started on *)
Checkouts(profile) ==
    {<<"checkout_started", "order_created">> \o pay : pay \in Payments(profile)}
    \cup
    {<<"checkout_started", "order_created">> \o pay \o <<"refund_requested">>
        : pay \in {p \in Payments(profile) : /\ p[Len(p)] = "payment_completed"
                                             /\ TRUE \in profile.refund}}

(* _view_products: one view at least *)
Views == {[v \in 1 .. n |-> "product_viewed"] : n \in 1 .. MaxViews}

(* A faulty variant: the order is announced before the cart it was made of. *)
WalksOrderFirst(profile) ==
    UNION {{views \o rest : rest \in
               (IF FALSE \in profile.add THEN {<<>>} ELSE {})
               \cup (IF FALSE \in profile.checkout THEN {<<"added_to_cart">>} ELSE {})
               \cup (IF TRUE \in profile.checkout
                     THEN {Tail(c) \o <<"added_to_cart">> : c \in Checkouts(profile)}
                     ELSE {})} : views \in Views}

(* build: the event types that may follow session_started *)
Walks(profile) ==
    UNION {{views \o rest : rest \in
               (IF FALSE \in profile.add THEN {<<>>} ELSE {})
               \cup (IF FALSE \in profile.checkout THEN {<<"added_to_cart">>} ELSE {})
               \cup (IF TRUE \in profile.checkout
                     THEN {<<"added_to_cart">> \o c : c \in Checkouts(profile)}
                     ELSE {})} : views \in Views}

(* The events of the next journey.  Every event but the registration       *)
(* advances the logical clock by the persona's action_delay, one unit; a   *)
(* refund names the payment that has just succeeded.                       *)
Events(c, new, cart, walk, base) ==
    LET kinds == (IF new THEN <<"user_registered">> ELSE <<>>)
                     \o <<"session_started">> \o walk
        n == journeys + 1
    IN [i \in 1 .. Len(kinds) |->
            [kind |-> kinds[i], id |-> <<n, i>>, customer |-> c, session |-> n,
             cart |-> cart,
             payment |-> <<n, IF kinds[i] = "refund_requested" THEN i - 1 ELSE i>>,
             time |-> base + i - (IF new THEN 1 ELSE 0)]]

-----------------------------------------------------------------------------
(* A faulty variant: any customer may be taken over. *)
AnyCustomer == DOMAIN store

(* takeover_candidate *)
TakeoverCandidates == {c \in DOMAIN store : store[c].history}

(* _choose_persona; a configuration that overrides the branch              *)
(* probabilities behaves like persona = "normal".                          *)
Seeding == config.persona = "account_takeover" /\ TakeoverCandidates = {}

ChosenPersonas ==
    IF Seeding THEN {"normal"}
    ELSE IF config.persona # "mix" THEN {config.persona}
    ELSE IF TakeoverCandidates = {} THEN Persona \ {"account_takeover"}
    ELSE Persona

(* _select_customer: who may return, and whether a new one is created      *)
Returning(p) ==
    IF p = "account_takeover" THEN TakeoverCandidates
    ELSE IF config.stateful THEN {c \in DOMAIN store : store[c].persona = p}
    ELSE {}

CreatesNew(p) ==
    \/ Returning(p) = {}
    \/ p # "account_takeover" /\ Cardinality(DOMAIN store) < config.pool

PoolFull == Cardinality(DOMAIN store) >= config.pool

(* A faulty variant: the journey starts at the wall clock's time. *)
BaseIsNow(c, now) == now

(* _start_logical_time of a returning customer: return_delay is one unit *)
Base(c, now) == IF store[c].last + 1 > now THEN store[c].last + 1 ELSE now

(* The cart of a journey: the abandoned one, or a new one *)
CartOf(profile, c) ==
    IF profile.reuse /\ c \in DOMAIN store /\ store[c].abandoned # NoCart
    THEN store[c].abandoned ELSE journeys + 1

(* _finish and commit: what the pool keeps of the customer *)
Finished(c, p, cart, events) ==
    LET kinds == {events[i].kind : i \in DOMAIN events}
        known == c \in DOMAIN store
    IN [persona |-> p,
        last |-> events[Len(events)].time,
        abandoned |-> IF "checkout_started" \in kinds THEN NoCart
                      ELSE IF "added_to_cart" \in kinds THEN cart
                      ELSE IF known THEN store[c].abandoned ELSE NoCart,
        history |-> \/ known /\ store[c].history
                    \/ p = "normal" /\ "payment_completed" \in kinds]

-----------------------------------------------------------------------------
(* valid_message *)
ValidMessage(e) ==
    [event |-> e, tag |-> "none",
     body |-> [parses |-> TRUE, has_id |-> TRUE, kind |-> e.kind,
               payload |-> e.kind, time |-> e.time]]

(* A faulty variant: the other payload may be of the same type. *)
MutateAnyPayload(kind, source, all) ==
    LET body == CASE kind = "duplicate" -> source.body
                  [] kind = "malformed_json" -> [source.body EXCEPT !.parses = FALSE]
                  [] kind = "missing_field" -> [source.body EXCEPT !.has_id = FALSE]
                  [] kind = "unknown_event_type" ->
                        [source.body EXCEPT !.kind = "synthetic_unknown_event"]
                  [] kind = "late_event" -> [source.body EXCEPT !.time = @ - Lateness]
                  [] kind = "payload_mismatch" ->
                        [source.body EXCEPT !.payload = all[Len(all)].body.payload]
    IN [source EXCEPT !.body = body, !.tag = kind]

(* _mutate; a journey has events of at least two types *)
Mutate(kind, source, all) ==
    LET other(i) == all[i].event.kind # source.event.kind
        first == CHOOSE i \in DOMAIN all : other(i) /\ \A k \in 1 .. i - 1 : ~other(k)
        body == CASE kind = "duplicate" -> source.body
                  [] kind = "malformed_json" -> [source.body EXCEPT !.parses = FALSE]
                  [] kind = "missing_field" -> [source.body EXCEPT !.has_id = FALSE]
                  [] kind = "unknown_event_type" ->
                        [source.body EXCEPT !.kind = "synthetic_unknown_event"]
                  [] kind = "late_event" -> [source.body EXCEPT !.time = @ - Lateness]
                  [] kind = "payload_mismatch" ->
                        [source.body EXCEPT !.payload = all[first].body.payload]
    IN [source EXCEPT !.body = body, !.tag = kind]

(* The anomalous messages for the chosen kinds, in the injector's order *)
Injected(kinds, valid) ==
    LET considered(i) ==
            IF AnomalyOrder[i] \in kinds
            THEN <<Mutate(AnomalyOrder[i], valid[((i - 1) % Len(valid)) + 1], valid)>>
            ELSE <<>>
    IN considered(1) \o considered(2) \o considered(3)
            \o considered(4) \o considered(5) \o considered(6)

Tagged(m) == [m EXCEPT !.tag = "out_of_order"]

Swapped(messages) ==
    [i \in DOMAIN messages |->
        IF i = 1 THEN Tagged(messages[2])
        ELSE IF i = 2 THEN Tagged(messages[1]) ELSE messages[i]]

(* prepare: the message sequences it may return for these events *)
Prepared(events) ==
    LET valid == [i \in DOMAIN events |-> ValidMessage(events[i])]
        picks == {k \in SUBSET (config.anomalies \ {"out_of_order"}) :
                    Cardinality(k) <= config.most}
        swap  == "out_of_order" \in config.anomalies
    IN {valid \o Injected(k, valid) : k \in picks}
       \cup {Swapped(valid \o Injected(k, valid))
                : k \in {q \in picks : swap /\ Cardinality(q) < config.most}}

-----------------------------------------------------------------------------
Fault == budget > 0 /\ budget' = budget - 1

Continues == ~shutdown /\ (config.target = Continuous \/ generated < config.target)

End(c) == pc' = "ended" /\ code' = c

(* builder.build and injector.prepare for customer c, new or returning *)
Journey(p, c, new, base) ==
    LET profile == IF Seeding THEN SeedingProfile ELSE Profile[p]
        cart == CartOf(profile, c)
    IN \E walk \in Walks(profile) :
        LET events == Events(c, new, cart, walk, base) IN
        /\ batch' \in Prepared(events)
        /\ store' = [d \in DOMAIN store \cup {c} |->
                        IF d = c THEN Finished(c, p, cart, events) ELSE store[d]]

Build ==
    /\ pc = "loop" /\ Continues
    /\ journeys < MaxJourneys
    /\ \E p \in ChosenPersonas, now \in config.clock :
        \/ \E c \in Returning(p) : Journey(p, c, FALSE, Base(c, now))
        \/ CreatesNew(p) /\ ~PoolFull /\ Journey(p, journeys + 1, TRUE, now)
    /\ pc' = "publish"
    /\ journeys' = journeys + 1
    /\ UNCHANGED <<config, code, shutdown, generated, clientVars, budget>>

(* A faulty variant: the exception is swallowed, the exit code never set. *)
BuildRaisesSilently ==
    /\ pc = "loop" /\ Continues
    /\ PoolFull
    /\ \E p \in ChosenPersonas : Returning(p) = {}
    /\ pc' = "ended"
    /\ UNCHANGED <<config, store, code, shutdown, generated, batch, journeys,
                   clientVars, budget>>

(* create raises "customer pool is full", and main returns 1: the mode is  *)
(* stateless, or no customer of the pool has the chosen persona.           *)
BuildRaises ==
    /\ pc = "loop" /\ Continues
    /\ PoolFull
    /\ \E p \in ChosenPersonas : Returning(p) = {}
    /\ End(1)
    /\ UNCHANGED <<config, store, shutdown, generated, batch, journeys, clientVars,
                   budget>>

(* publish_message for the whole journey: the callbacks its polls serve    *)
(* are only looked at by Poll.                                             *)
Publish ==
    /\ pc = "publish"
    /\ sent' = sent \o batch
    /\ batch' = <<>>
    /\ pc' = "poll"
    /\ UNCHANGED <<config, store, code, shutdown, generated, journeys, resolved,
                   failed, lost, budget>>

(* The local queue stays full through six attempts: the process ends,      *)
(* without a flush, with a part of the journey handed over.                *)
PublishRaises ==
    /\ pc = "publish"
    /\ Fault
    /\ \E k \in 0 .. Len(batch) - 1 :
        /\ resolved < Len(sent) + k
        /\ sent' = sent \o SubSeq(batch, 1, k)
    /\ End(1)
    /\ UNCHANGED <<config, store, shutdown, generated, batch, journeys, resolved,
                   failed, lost>>

(* producer.poll: serve the callbacks, give up after a failed delivery *)
Poll ==
    /\ pc = "poll"
    /\ \/ failed # {} /\ End(1) /\ UNCHANGED generated
       \/ /\ failed = {}
          /\ pc' = "loop" /\ UNCHANGED code
          /\ generated' = generated + 1
    /\ UNCHANGED <<config, store, shutdown, batch, journeys, clientVars, budget>>

StartFlush ==
    /\ pc = "loop" /\ ~Continues
    /\ pc' = "flush"
    /\ UNCHANGED <<config, store, code, shutdown, generated, batch, journeys,
                   clientVars, budget>>

(* A faulty variant: failed deliveries are forgotten by the flush. *)
FlushForgetsFailures ==
    /\ pc = "flush"
    /\ End(IF resolved = Len(sent) THEN 0 ELSE 1)
    /\ UNCHANGED <<config, store, shutdown, generated, batch, journeys, clientVars,
                   budget>>

(* A faulty variant: a flush without a timeout. *)
FlushUntilEmpty ==
    /\ pc = "flush"
    /\ resolved = Len(sent)
    /\ End(IF failed = {} THEN 0 ELSE 1)
    /\ UNCHANGED <<config, store, shutdown, generated, batch, journeys, clientVars,
                   budget>>

(* producer.flush returns when the queue is empty or its time is up. *)
Flush ==
    /\ pc = "flush"
    /\ End(IF resolved = Len(sent) /\ failed = {} THEN 0 ELSE 1)
    /\ UNCHANGED <<config, store, shutdown, generated, batch, journeys, clientVars,
                   budget>>

(* SIGINT, SIGTERM *)
Signal ==
    /\ pc # "ended" /\ ~shutdown
    /\ shutdown' = TRUE
    /\ UNCHANGED <<config, store, pc, code, generated, batch, journeys, clientVars,
                   budget>>

(* The process is killed; what the client still holds is gone. *)
Crash ==
    /\ pc # "ended"
    /\ Fault
    /\ End(Killed)
    /\ UNCHANGED <<config, store, shutdown, generated, batch, journeys, clientVars>>

-----------------------------------------------------------------------------
(* The client library, idempotent and in order: the head of the queue is   *)
(* written to the topic; or its delivery timeout passes and it is reported *)
(* as failed, whether the broker has written it or not.                    *)
Deliver ==
    /\ pc # "ended"
    /\ resolved < Len(sent)
    /\ resolved' = resolved + 1
    /\ UNCHANGED <<config, store, loopVars, batch, journeys, sent, failed, lost, budget>>

DeliveryFails ==
    /\ pc # "ended"
    /\ resolved < Len(sent)
    /\ Fault
    /\ resolved' = resolved + 1
    /\ failed' = failed \cup {resolved + 1}
    /\ lost' = lost \cup {resolved + 1} \/ UNCHANGED lost
    /\ UNCHANGED <<config, store, loopVars, batch, journeys, sent>>

MainStep == Build \/ BuildRaises \/ Publish \/ Poll \/ StartFlush \/ Flush

Next ==
    \/ MainStep \/ PublishRaises \/ Signal \/ Crash
    \/ Deliver \/ DeliveryFails

Spec == Init /\ [][Next]_vars

(* Only the generator's own thread has to run: every call it makes on the  *)
(* client returns within a configured time, Kafka answering or not.        *)
FairSpec == Spec /\ WF_vars(MainStep)
-----------------------------------------------------------------------------
(* validate_message, for messages with the metadata a producer sets: what  *)
(* the processor makes of the message.                                     *)
Verdict(m) ==
    IF ~m.body.parses THEN "malformed_json"
    ELSE IF m.body.kind \notin EventType THEN "unknown_event_type"
    ELSE IF ~m.body.has_id \/ m.body.payload # m.body.kind
         THEN "contract_validation_failed"
    ELSE IF m.body.kind # m.event.kind THEN "header_body_mismatch"
    ELSE "valid"

(* The rows a repository needs before it accepts the event, and the row    *)
(* the event inserts.                                                      *)
Requires(e) ==
    CASE e.kind = "user_registered" -> {}
      [] e.kind = "session_started" -> {<<"customer", e.customer>>}
      [] e.kind \in {"product_viewed", "added_to_cart"} ->
            {<<"customer", e.customer>>, <<"session", e.session>>}
      [] e.kind \in {"checkout_started", "order_created"} -> {<<"cart", e.cart>>}
      [] e.kind \in {"payment_failed", "payment_completed"} -> {<<"order", e.session>>}
      [] e.kind = "refund_requested" -> {<<"payment", e.payment>>}

Provides(e) ==
    CASE e.kind = "user_registered" -> {<<"customer", e.customer>>}
      [] e.kind = "session_started" -> {<<"session", e.session>>}
      [] e.kind = "added_to_cart" -> {<<"cart", e.cart>>}
      [] e.kind = "order_created" -> {<<"order", e.session>>}
      [] e.kind = "payment_completed" -> {<<"payment", e.payment>>}
      [] OTHER -> {}

(* s is a sequence of messages handed to the client. *)
ReferredBefore(s) ==
    \A i \in DOMAIN s :
        Verdict(s[i]) = "valid" /\ s[i].tag # "out_of_order" =>
            \A r \in Requires(s[i].event) :
                \E k \in 1 .. i - 1 : /\ r \in Provides(s[k].event)
                                      /\ Verdict(s[k]) = "valid"

CreatedOnce(s) ==
    \A i, k \in DOMAIN s :
        \A r \in Provides(s[i].event) \cap Provides(s[k].event) :
            r[1] = "cart" \/ s[i].event.id = s[k].event.id

Plain(m) == m.tag = "none"

ForwardIn(s) ==
    \A i, k \in DOMAIN s :
        /\ i < k /\ Plain(s[i]) /\ Plain(s[k])
        /\ s[i].event.customer = s[k].event.customer
        => s[i].body.time < s[k].body.time

VerdictsIn(s) ==
    \A i \in DOMAIN s :
        LET m == s[i] IN
        /\ m.tag = "malformed_json" => Verdict(m) = "malformed_json"
        /\ m.tag = "unknown_event_type" => Verdict(m) = "unknown_event_type"
        /\ m.tag \in {"missing_field", "payload_mismatch"}
            => Verdict(m) = "contract_validation_failed"
        /\ m.tag \in {"none", "duplicate", "out_of_order", "late_event"}
            => Verdict(m) = "valid"
        /\ m.tag = "duplicate" => \E k \in 1 .. i - 1 : /\ s[k].event = m.event
                                                        /\ s[k].body = m.body

(* docs/event-generator.md:170-173, "return non-zero for delivery failures *)
(* or remaining messages": exit code 0 means that every message of every   *)
(* journey is on the topic, whatever was signalled or failed meanwhile     *)
(* (main.py:204-212, producer.py:141-159).                                 *)
CleanExitDelivered ==
    code = 0 => batch = <<>> /\ resolved = Len(sent) /\ lost = {}

(* docs/deep-dives/scenario-generation.md:34-48: whatever an event refers  *)
(* to has been sent before it, by this journey or an earlier one, unless   *)
(* the injector swapped it; a process that ends in the middle of a journey *)
(* leaves no reference dangling (journey.py:108-296, anomalies.py:69-78).  *)
(* And no row but a cart is created by two events: "Registration is        *)
(* emitted exactly once", docs/personas-and-anomalies.md:21, also for a    *)
(* customer who returns or is taken over.                                  *)
CausallyValid == ReferredBefore(sent) /\ CreatedOnce(sent)

(* docs/personas-and-anomalies.md:21-23: the event times of a customer     *)
(* increase from journey to journey, although the system clock may have    *)
(* been set back or lag behind the logical time of the last journey        *)
(* (journey.py:357-367, state.py:127-142).                                 *)
TimesForward == ForwardIn(sent)

(* docs/personas-and-anomalies.md:55-57, "first establishes a successful   *)
(* normal purchase": the customer of a takeover has paid for an order in   *)
(* an earlier journey (state.py:114-125, journey.py:614-615).              *)
TakeoverAfterPurchase ==
    \A c \in DOMAIN store : store[c].persona = "account_takeover" =>
        \E i \in DOMAIN sent : /\ sent[i].event.kind = "payment_completed"
                               /\ sent[i].event.customer = c

(* docs/personas-and-anomalies.md:99-109: what the processor makes of each *)
(* kind of anomaly, and that a duplicate repeats a message sent before it. *)
InjectedVerdicts == VerdictsIn(sent)

(* docs/event-generator.md:170-173: a finite run, or one that has been     *)
(* asked to stop, ends even if Kafka never answers.                        *)
RunEnds == (shutdown \/ config.target # Continuous) ~> pc = "ended"

-----------------------------------------------------------------------------
(* The inductive invariant, for the proofs: the properties hold of what    *)
(* is handed over with the journey being published, and the pool knows     *)
(* only customers and carts that are announced in it.                      *)
Queue == IF pc = "publish" THEN sent \o batch ELSE sent

HandsOver ==
    /\ pc \in {"loop", "poll", "flush"} => batch = <<>>
    /\ pc \in {"publish", "poll"} => generated < journeys
    /\ code = 0 => failed = {}

Announced(r, s) == \E k \in DOMAIN s : r \in Provides(s[k].event) /\ Verdict(s[k]) = "valid"

PoolAnnounced(s) ==
    \A c \in DOMAIN store :
        /\ Announced(<<"customer", c>>, s)
        /\ store[c].abandoned # NoCart => Announced(<<"cart", store[c].abandoned>>, s)
        /\ store[c].history => \E k \in DOMAIN s : /\ s[k].event.kind = "payment_completed"
                                                   /\ s[k].event.customer = c

EventsOfPool(s) ==
    \A i \in DOMAIN s :
        LET e == s[i].event IN
        /\ e.customer \in DOMAIN store
        /\ e.session <= journeys
        /\ e.payment[1] <= journeys
        /\ Plain(s[i]) => s[i].body.time <= store[e.customer].last

GeneratorIInv ==
    /\ TypeOK
    /\ HandsOver
    /\ CleanExitDelivered
    /\ VerdictsIn(Queue)
    /\ pc # "ended" => PoolAnnounced(Queue) /\ EventsOfPool(Queue)
    /\ ForwardIn(Queue)
    /\ ReferredBefore(Queue)
    /\ CreatedOnce(Queue)
    /\ TakeoverAfterPurchase

=============================================================================
