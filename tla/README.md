# Verification of the real-time commerce platform

TLA+ models of the platform's stateful core, TLC configurations that check them
on small instances, and TLAPS proofs of the properties that matter most.
`PROJECT.json` lists components, runs, mutants, the map from definitions to
source lines, findings, hazards and theorems. Paths below are relative to the
repository.

## The system

A generator produces commerce events (registrations, sessions, views, carts,
orders, payments, refunds) to a Kafka topic. Event processors consume it: each
record is validated, reserved in Redis, applied to PostgreSQL in one transaction
together with its fraud evaluation, completed in Redis, and its offset handed to
a tracker that commits batches. Records that cannot be applied go to a dead-letter
topic (DLQ). Fraud alerts are written to an outbox table in the same transaction,
and a separate publisher sends them to Kafka. A demo control API starts, stops and
cleans up scenario runs that generate events.

| Component | State | Operations | Interacts with | Hard parts |
|---|---|---|---|---|
| Synchronous processor (`event_processor/main.py`, `processor.py`, `consumer.py`) | record at hand, fetch position, attempt | poll, process, commit, rebalance callbacks, stop | Kafka, Redis, PostgreSQL, DLQ | crash between any two calls, lost answers, two instances on one event, eviction |
| Offset tracker (`offset_tracker.py`) | safe offset, pending set, floor | observe, mark terminal, flush, drop | its consumer | gaps, bootstrap, reassignment |
| Idempotency store (`idempotency.py`) | one key per event | reserve, complete, release | processors | lease expiry, stale holders |
| Worker pool (`main_pooled.py`) | work queue, commit queue, workers | dispatch, drain, shutdown sequence | Kafka, processors | out-of-order completion, full queue, hang |
| Business tables (`persistence/repositories`) | customers … refunds, row locks | ten handlers | PostgreSQL | READ COMMITTED races, lock order |
| Fraud outbox publisher (`fraud_outbox_publisher`) | claims, attempts | claim, publish, mark | PostgreSQL, Kafka | claim TTL, late deliveries |
| Scenario runs (`demo_control_api`) | run table, manifest, tasks, updaters | create, stop, retry, clean up, reconcile | PostgreSQL, Kafka | cancellation, threads that outlive tasks, restart |
| Event generator (`event_generator`) | customer pool, logical time, the client's queue | build a journey, inject anomalies, publish, poll, flush | Kafka, and through it everything else | causality over many journeys, clock steps, failed and late deliveries |
| Fraud engine (`event_processor/fraud`) | evaluations, alerts, outbox rows; the business tables as context | read the context, evaluate the rules, score, persist | PostgreSQL, inside the processor's transaction | queries at different moments, late events, a rollback between writes |
| Migrations, validation, read endpoints | see *Not modelled* | | | |

What makes each correct:

- the processors never lose a record, apply effects once, keep dependent events
  in order and make progress;
- the pool keeps these promises when workers finish in any order, and stops when told to;
- the tables never over-refund, never change an identity, and keep derived totals
  and statuses true;
- the outbox delivers at least once and settles every row;
- runs follow their documented state machine, and end;
- the generator's topic is causally ordered, and exit code 0 means delivered;
- an event's verdict depends on the log and not on the schedule, and is written
  with the event or not at all.

## Modules

`OffsetTracker` — the per-partition state of `OffsetCommitTracker` as operators
(`Observe`, `MarkTerminal`, `MarkCommitted`). `Sound(st, T)` says what the state
promises about the set `T` of terminal offsets. Used by both consumers.

`EventPipeline` — several synchronous processors, one partition. Each call that
leaves the process is one action: `PollRecord` validates and starts `process()`;
`Reserve`, `TxBegin` (lookup), `TxCommit` (INSERT, handler, fraud evaluation,
COMMIT), `Complete`, `Release`, `DlqPublish`, `CommitTerminal` follow its control
flow, with `GiveUp` and `Retry` for its error paths. `…Fails` actions are the same
calls failing, with or without having taken effect. `OnAssign`, `OnRevoke`,
`SessionLost`, `LeaseExpires`, `LeaseOutlived`, `CompletedEvicted`, `LeaveLoop`,
`Stop`, `Crash` are the environment. The log is a constant: `EventOf`, `DigestOf`,
what each event `Needs`, which handlers always reject (`Poison`).

`AtLeastOnce` — the abstract promise of consuming a partition: outcomes are never
taken back, the committed offset moves forward over resolved records only.
`EventPipeline!Delivery` instantiates it with the terminal offsets and the group's
committed offset.

`PooledConsumer` — `main_pooled.py`: poll thread, workers and three queues. A
worker's `process()` is one step with three outcomes; `EventPipeline` is the model
of its inside.

`CommerceLedger` — nine handlers as READ COMMITTED transactions. A statement that
reads or waits is a step (`RegisterRead`, `SessionRead`, `ViewRead`, `ItemRead`,
`CartRead`, `OrderRead`, `PaymentRead`, `RefundSum`, `InsertRow`, `RefundOrder`);
row and key locks are explicit, writes take effect at `Commit`. That an event is
applied once is what `EventPipeline` establishes, and is assumed here.

`FraudOutbox` — the outbox table and its publishers; `Insert` is the processor's
transaction. Time is two flags per row, `due` and `old`, that the environment sets.

`ScenarioRuns` — the run table, `_execute` and `_generate` between awaits, the
progress updater and its thread, the handlers, `reconcile` at start-up. `SetStatus`
leaves out that `transition()` refuses what is not in the state machine
(demo_runs.py:154-157), so that `DocumentedTransitions` shows more than the refusal
would: no writer ever attempts such a transition.

A database call that fails is a disturbance of its own; `dbFailed` remembers that
one did since the last restart.

`EventGenerator` — the generator process. `Build` is `JourneyBuilder.build` with
`AnomalyInjector.prepare`: `ChosenPersonas`, `Returning` and `CreatesNew` select
persona and customer, `Profile` holds what each persona's probabilities leave open,
`Walks` the event types of every path through a journey, `Events` their identifiers
and logical times, `Finished` what the pool keeps, `Prepared` the anomalies.
`Publish`, `Poll`, `StartFlush`, `Flush` are the main loop and `PublishRaises`,
`BuildRaises` its exceptions; `Deliver` and `DeliveryFails` are the Kafka client.
`Verdict` is the processor's validation of a body. The injector replaces each message
by a short sequence, in the order of `AnomalyOrder`. What the topic promises is stated
of a sequence of messages (`ReferredBefore`, `CreatedOnce`, `ForwardIn`,
`VerdictsIn`), so that it can be said of what was sent and of what is about to be. The
payloads themselves (products, prices, devices, addresses) are left out.

`FraudEngine` — the fraud part of the persistence transaction. Since the tables
are functions of the events persisted, that set is the state; a query of
`context.py` is a set expression over the rows visible to it. A transaction is
`Apply` (identity, handler, locks), `ReadPayments` (the first queries), `Evaluate`
(the later queries, all ten rules of `rules/`, `Aggregate`), `Commit` (evaluation,
alert, outbox row and event) or `Rollback`. `Accepts` and `Waits` say what
`CommerceLedger` models in detail: which events the repositories accept (an order or
payment whose key is taken is not among them) and which transactions wait for a row
or key lock. `CausalLog` says what the generator guarantees of a log.

`MC…` modules hold the constants TLC needs and the symmetry sets. Definitions
marked "A faulty variant" are mutations used to check that each property can fail.
`…Proofs` modules hold the theorems; the inductive invariant of a component is at the
end of its own module, where TLC can evaluate it.

## Runs

All runs bound the number of disturbances (`MaxFaults`) and name which kinds
happen (`FaultKinds`).

| Run | Shows |
|---|---|
| `pipeline` | two instances, six records (malformed, a parent, its duplicate, its identity with other content, a child, an event its handler rejects), two disturbances of any kind: `CommittedIsTerminal`, `EffectsOnce`, `DependencyOrder`, `ExhaustedByFailures`, `OnlyHolderEndsLease`, the refinement of `AtLeastOnce` (`DeliverySpec`), `EventuallyCommitted` |
| `pooled` | two partitions, two workers, and three loads: eight records without disturbances, more than the work queue (4), both workers and the poll thread hold; two records with three disturbances; a record in each partition with two: `CommittedIsResolved`, `CommitsOnlyForward`, `PoolInv` (`TrackerSound`, `NothingKeptForRevoked`), `CommitBacklogBounded`, `EventuallyCommitted`, `ShutdownCompletes` |
| `outbox` | three rows, one with a corrupt payload, batches of two, two publishers, two disturbances: `OutboxInv` (`PublishedIsDelivered`, `FailedIsExhausted`), `SettledForGood`, `OnlyHolderEndsClaim`, `EventuallySettled` |
| `scenario` | two runs at a limit of one, two disturbances, the database failing among them: `RunInv` (`ManifestBeforeKafka`, `ActiveIsOwned`), `DocumentedTransitions`, `SettledRunsAreQuiet`, `CountsOnlyGrow`, `EventuallyEnded` |
| `ledger_carts` | two workers, two customers, competing registrations of one of them, a session sent twice, items replaced around a checkout and two orders, one disturbance: `LedgerInv` (`CartTotals`, `OneOwner`), `IdentitiesImmutable` |
| `ledger_payments` | three workers, two orders of one cart, five payment attempts on two keys, three refunds on two keys: `RefundsCovered`, `OrderStatusBacked`, `TransactionsEnd` |
| `generator` | six configurations (every pair of journeys of the mix; a returning customer under a clock that steps back, with a crash or failed delivery; takeovers with their seeding; a run until a signal; a full pool; every choice of anomalies): `CleanExitDelivered`, `CausallyValid`, `TimesForward`, `TakeoverAfterPurchase`, `InjectedVerdicts`, `RunEnds` |
| `fraud` | two workers on four logs (a burst of attempts on two orders and by two customers, a takeover, refunds in parts and whole, a bot whose order and payment keys come twice), eight pairs of log and configuration, in every order the ledger accepts, one rollback: `EvaluatedAtomically`, `VerdictOfTheLog`, `OrderUndisturbed`, `RulesWithinMaximum` |

A type invariant is checked in one run of each module, by itself or as a part of
the module's combined invariant (`PoolInv`, `OutboxInv`, `RunInv`, `LedgerInv`).
`SafePrefixIsTerminal` and `CompletedIsPersisted` of the pipeline and
`MismatchIsPartialRefund` of the fraud engine are proved (below) and in no run.
`CausallyValid` shows for the generator what `EventPipeline` assumes of its log
(`CausalLogAssumption`): what an event needs is earlier on the topic, as long as the
injector did not swap the two.

Why the bounds are enough to be interesting: every property has a mutant of the
code that breaks it within them. Two instances are what a lease race, an eviction
or a claim race takes; the log lets a gap, a duplicate and a dependant occur
together; batch size two leaves a partial batch; two disturbances allow a failure
during the recovery from another. Three journeys are a seeding, a takeover and a
return; two payment attempts are a retry. The fraud thresholds and windows are
scaled down so that every rule matches in some log and does not in another.
`ledger_payments` has no disturbance: a lock timeout would break a circle of waits,
which is what it looks for; its mutant lets an attempt wait for the key of a payment
that a refund has locked, in the reverse order of the refund's locks. Runs in which
all work may be done disable the deadlock check (outbox, scenarios, ledger, generator,
fraud); the pool's does because a hung process is one of the outcomes.

### Findings

Runs that end in a violation state what a doc or a comment says:

- `pipeline_race` — the loser of a race for one event dead-letters it, although
  docs/postgresql-persistence.md:87-88 calls the same id and hash "already persisted
  and safe". Nothing is lost: the effects are there once, with a spurious DLQ record.
- `pooled_reassign` — a partition that is revoked and comes back while a worker
  still holds one of its records can be committed past an unresolved record
  (docs/event-processor.md:112-113).
- `scenario_progress` — the final progress refresh is lost when the stop signal
  arrives during an earlier one (scenario_runner.py:278-279 says it is durable).
- `fraud_mismatch` — a partial refund is always blocked as an amount mismatch:
  context.py:128 compares the amount of the event, here the refund's, with the order's
  total, while docs/deep-dives/fraud-decision-strategy.md:61 describes the rule as
  "Persisted payment amount does not match the order amount". The payment and the
  order of the run agree. `MismatchIsPartialRefund` states what the code does.

More places where the docs and the code part, or where the code may surprise, were
met while modelling. The models behave as the code does; no run is kept for them:

- A completed duplicate does not skip the handler (docs/event-processor.md:138, "A
  completed duplicate skips the handler and commits"): `process()` runs the
  persistence again (processor.py:134), and its failure ends in the DLQ (`GiveUp`).
- After an exception in the poll loop the pool's workers are not told to stop, and a
  signal no longer ends the process (main_pooled.py:218-264; docs/observability.md:95
  has "Unhealthy --> Stopped: graceful SIGTERM").
- A publisher that crashes leaves its rows `PUBLISHING` until the claim TTL, not
  "simply still `PENDING`" (docs/architecture/design-decisions.md:120-121).
  `EventuallySettled` shows that they are recovered.
- A cart can be converted to two orders (orders.py:28-39 does not look at its status
  and `orders.cart_id` is not unique); docs/postgresql-persistence.md:58 draws
  `CARTS ||--o| ORDERS`.
- A session that is sent again, with the same attributes under a new event id, is
  always refused as an identity conflict and dead-lettered: `ip_address::text` of an
  INET column carries the netmask ("192.0.2.1/32"), and sessions.py:24-33 compares it
  with the address without one. `SessionRead` therefore refuses every session that is
  there; a customer sent again with the same attributes is accepted (`RegisterRead`).
- A refund of all that was left is never near-full: refund.py:29 compares it with
  what remains after it, 0 (docs/deep-dives/fraud-decision-strategy.md:59).
- A refunded payment no longer counts as a customer's history (context.py:196), also
  for an earlier event that is evaluated late. `VerdictOfTheLog` leaves this case
  out; docs/fraud-engine.md:41-43 concedes that late delivery changes the context.
- A journey that reuses an abandoned cart does so under a new session
  (journey.py:190), which `carts.add_item` refuses (carts.py:28-48);
  docs/deep-dives/scenario-generation.md:124-125 promises "domain-valid, stateful
  traffic".
- A `late_event` copy keeps its event id, so the ledger sees an identity with other
  content and not a late event (anomalies.py:113).
- With the pool full and nobody of the chosen persona in it, or in stateless mode,
  the generator ends with exit code 1 (state.py:90).
- A worker of the pool ignores an `UNRESOLVED` result (main_pooled.py:170): the
  record holds its partition's offset back until the next restart.
- A run refused at the concurrency limit leaves a `PENDING` row that nothing starts,
  stops or cleans up (scenario_runner.py:59).

## Fairness

- `EventPipeline`: an instance that can act does (compose.yaml restarts it after
  every exit), the coordinator assigns a free partition and reports a lost one at
  the next poll, Redis expires keys.
- `PooledConsumer`: threads are scheduled; assignment, delivery and the idle flush
  are strongly fair, since the poll loop meets them again and again and the broker
  and the clock do not withhold them forever.
- `FraudOutbox`: publishers act and are restarted; backoffs and orphaned claims
  run out.
- `ScenarioRuns`: the event loop and its threads run; the container is restarted.
- `CommerceLedger`: a transaction that can take its next statement does.
- `EventGenerator`: only the generator's own thread has to run; Kafka need not
  answer, since every call on the client returns within a configured time.
- `FraudEngine` has only safety properties and needs none.

No disturbance is fair: failures are never required to happen or to stop, except by
running out of `MaxFaults`.

## Proofs

Every safety invariant and action property of the passing runs is a theorem, for every
value of the constants that satisfies the named assumption of its module. The shape
of each argument is the same: an inductive invariant, checked by TLC first on the
instances of the runs, one lemma per action for its preservation, and the property as
a consequence.

`OffsetTrackerProofs` proves the operator lemmas both consumers rest on:
`MarkTerminalSound` and `SafeOnlyGrows`.

### EventPipeline

`EventPipelineProofs`, for every number of instances, events, records, tokens, batch
size and disturbances:

- `TypeCorrect`: `Spec => []TypeOK`;
- `NothingLost`: `CommittedIsTerminal` and `SafePrefixIsTerminal`;
- `EffectsExactlyOnce`: `EffectsOnce` and `CompletedIsPersisted`;
- `DependenciesPreserved`: `DependencyOrder`;
- `NoEarlyGiveUp`: `ExhaustedByFailures`;
- `StaleWorkersHarmless`: `OnlyHolderEndsLease`;
- `ImplementsAtLeastOnce`: the refinement of `AtLeastOnce`.

They rest on `PipelineAssumption` (types of the constants) and
`CausalLogAssumption` (what a record needs is earlier in its partition, because
events are keyed by customer and produced in causal order).

The invariants are not inductive by themselves. `CommittedIsTerminal` is threatened
by a commit of whatever the tracker holds, so the tracker must be sound; the tracker
is threatened by bootstrapping at the first record an instance marks, so everything
before that record must be terminal already; that holds because an instance resumes
at the committed offset and leaves the loop at the first unresolved record. `IInv`
says this in two layers. `ShapeInv`: an instance holds a record exactly while
`process()` runs, it is the one before its fetch position, the synchronous tracker
has no gaps and its safe offset is right below the next record, and the owner is not
behind what is committed. `OutcomeInv`: everything before the record at hand is
terminal (`PrefixResolved`), each stage rests on what the earlier ones achieved
(`StageOutcome`: the row is there before `complete`, the record is terminal before
`commit`, a missing dependency was dead-lettered), and the properties themselves.
`ExhaustedByFailures` takes a third layer, `RetryInv`: each attempt before the current
one was used up by a disturbance, unless the record has a dead parent
(`AttemptsPaid`); a retry for a missing parent is covered because the parent, being
earlier, is terminal and was therefore dead-lettered.
The preservation proof has one lemma per action; that terminal outcomes are never
taken back (the ledger and the DLQ only grow) carries the rest.

### PooledConsumer

`CommitBacklogBoundedHolds` needs no assumption beyond `PoolAssumption`. `QueueInv`
counts: the records in the commit queue, in the work queue and with the workers
together never exceed what one drain leaves and one dispatch adds (`WithinBacklog`),
where the work queue is records followed by sentinels (`RecordsFirst`). A bound on the
commit queue alone is not inductive, since a worker moves a record there at any time.

`PoolCorrect` (`PoolInv`), `CommittedIsResolvedHolds` and `CommitsOnlyForwardHolds`
assume `~Reassign`, that a revoked partition does not come back to the process:
`pooled_reassign` shows the second of them false otherwise, and the same late
completion then commits a lower offset than the group has, so that the third is false
too. A completion is marked long after its record was dispatched,
and marking bootstraps a tracker that has no state. `TrackInv` therefore says that a
record in flight belongs to a partition that was given up for good, or one that is
owned and has a floor (`InFlightObserved`), that the first floor is where the group
left off (`FetchedFromResolved`), that what waits for a commit is resolved
(`QueuedIsResolved`), and that the group's offset is not ahead of what the tracker has
reached (`GroupBehind`).

### FraudOutbox

`OutboxCorrect` (`OutboxInv`), `SettledForGoodHolds`, `OnlyHolderEndsClaimHolds`, for
any number of rows, publishers and tokens. `OutboxIInv` adds what a publisher may rely
on while others take over its rows: it is about to mark only what is on the topic
(`MarksDelivered`), it remembers no more attempts than were made (`TriesCounted`), and
a row has a token exactly while it is claimed (`TokenIffClaimed`), which keeps a late
`failed()` away from a settled row.

### ScenarioRuns

`RunCorrect` (`RunInv`), `DocumentedTransitionsHold`, `SettledRunsAreQuietHolds`,
`CountsOnlyGrowHolds`, for any number of runs and events, any limit and any failures.
Status, task and cancellation are written by different actors; `RunIInv` says which
combinations occur (`TaskFitsStatus`, `CancelledIsStopped`, `StopReachesTask`,
`DownIsIdle`), and that the count a thread is about to write lies between what is
stored and what was sent (`CountsBehind`).

### CommerceLedger

`LedgerCorrect` (`LedgerInv`), `RefundsCoveredHolds`, `OrderStatusBackedHolds`,
`IdentitiesImmutableHolds`, for any set of events, rows and workers. `LedgerIInv` adds
`TxInv`: a transaction holds the locks its statements took (`HoldsLocks`) and what it
has read still stands (`ReadsStand`): the cart matches, the order has the payment's
amount, the SUM of a refund is still the sum, the key of an INSERT is free. Each
action's proof is the same split: what the transaction itself achieves, and that no
other transaction's reads are disturbed, because it would need a lock the other one
holds.

### FraudEngine

`FraudTypeOKHolds`, `EvaluatedAtomicallyHolds`, `OrderUndisturbedHolds`,
`RulesWithinMaximumHolds`, `MismatchIsPartialRefundHolds`, for any set of logs and
configurations. `FraudIInv` says that two transactions of one order never overlap
(`TransactionsApart`), that orders and payments are unique and there before what
refers to them (`OrdersUnique`, `PaymentsUnique`, `OrdersExist`, `PaymentsExist`), and
that an evaluation sees its own order (`SeesItsOrder`).

`VerdictOfTheLogHolds` assumes `CausalLog` of every log, which `EventGenerator` shows
of what the generator writes and TLC evaluates on the logs of the run
(`CausalDeployments`). It compares the context a transaction read, query by query,
with the one the customer's past determines. Without causality it is false: an event
could be evaluated against a session or order that is later than it.

### EventGenerator

`GeneratorTypeOKHolds`, `CleanExitDeliveredHolds`, `TakeoverAfterPurchaseHolds`,
`CausallyValidHolds`, `TimesForwardHolds`, `InjectedVerdictsHolds`, for any pool size,
number of journeys, clock, choice of anomalies and disturbances. The properties are
proved of `Queue`, what was sent with the journey being published: a journey extends
it, publishing does not change it, and an exception cuts it to a prefix, under which
all of them are closed. `GeneratorIInv` ties the pool to the queue: whoever is in the
pool, and every cart kept for later, has been announced (`PoolAnnounced`), and no
event is of an unknown customer, a future journey or later than its customer's last
activity (`EventsOfPool`). The lemmas about a journey (`JourneyShape`) go through every
walk of every persona, and those about the injector (`BatchShape`) through every
combination of anomalies.

### What is used and what is left to TLC

Sums over finite sets (`Subtotal`, `Amounts`) and least positions are reasoned about
without an induction principle: a counterexample would have a least one, by the
well-foundedness of the naturals (`LeastNatural`), and the least one contradicts the
recursive definition.

Only model-checked: liveness (`EventuallyCommitted`, `ShutdownCompletes`,
`EventuallySettled`, `EventuallyEnded`, `TransactionsEnd`, `RunEnds`), since this
version of the prover has no support for fairness and ENABLED; and the violations of
*Findings*, which are statements about single behaviours. `EventuallyEnded` and
`ActiveIsOwned` excuse a run whose database call failed until the next restart, which must end it.

## Not modelled

- Serialization, schemas and the transport checks of validation: a record that fails
  them is the malformed record of `EventPipeline`; the verdict on a body is
  `EventGenerator!Verdict`.
- The migration runner: one transaction per file under a session advisory lock,
  before the processor starts. What could go wrong there is PostgreSQL's.
- The text of alerts (`fraud/publisher.py`), of payloads and of the run summary.
- A generator restarted with a seed, which repeats its identifiers.
- `fraud_alerts.insert`, the handler of a consumed alert: `ON CONFLICT DO NOTHING`
  into a table no other handler reads.
- Read endpoints, health, metrics, logging, configuration, the web front end,
  scripts and benchmarks: no state that feeds back.
- Durations: a timeout, TTL or interval may elapse at any moment where the code
  measures one.

## Plan

Done, in this order: `OffsetTracker`, `EventPipeline` and its proofs,
`PooledConsumer`, `FraudOutbox`, `ScenarioRuns`, `CommerceLedger`, `EventGenerator`,
`FraudEngine`, and the proofs of all safety properties.

Next, by importance:

1. A refinement of `AtLeastOnce` by the pool, per partition, for partitions that do not
   come back (`Elsewhere` resolves and commits in one step and has to be split for
   it); and what still holds of the pool when they do.
2. A composition of pool and pipeline: the order of dependent events under
   concurrent workers.
