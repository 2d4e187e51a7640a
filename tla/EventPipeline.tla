---------------------------- MODULE EventPipeline ----------------------------
(***************************************************************************)
(* The event processor in its default, synchronous mode: several processor *)
(* instances of one consumer group, one input partition, the Redis         *)
(* idempotency store, the PostgreSQL ledger and the dead-letter topic.     *)
(*                                                                         *)
(* Each instance runs the loop of main.run_processor: poll, process one    *)
(* record to a terminal outcome (MessageProcessor.process), hand its       *)
(* offset to the tracker, poll again.  Every call that leaves the process  *)
(* (Redis, PostgreSQL, Kafka) is a step of its own, so that the instances  *)
(* interleave, and each of them may fail, time out after having taken      *)
(* effect, or be overtaken by a lease expiry, a rebalance or a crash.      *)
(***************************************************************************)
EXTENDS OffsetTracker, FiniteSets

CONSTANTS
    Proc,           \* processor instances of the consumer group
    Event,          \* event identities
    Digest,         \* canonical contents an event identity may come with
    Token,          \* lease tokens (uuid4)
    EventOf,        \* EventOf[o]: the event of the record at offset o
    DigestOf,       \* DigestOf[o]: the content hash of that record
    Malformed,      \* EventOf[o] when validate_message rejects the record
    Needs,          \* Needs[e]: events whose effects e's handler requires
    Poison,         \* events whose handler always raises a permanent error
    BatchSize,      \* processor_offset_commit_batch_size
    MaxAttempts,    \* processor_max_processing_attempts
    FaultKinds,     \* the disturbances that may happen
    MaxFaults,      \* bound: how many disturbances happen in a behaviour
    NoProc, NoToken, NoDigest

ASSUME PipelineAssumption ==
    /\ EventOf \in [Offset -> Event \cup {Malformed}]
    /\ DigestOf \in [Offset -> Digest]
    /\ Needs \in [Event -> SUBSET Event]
    /\ Poison \subseteq Event
    /\ BatchSize \in Nat \ {0}
    /\ MaxAttempts \in Nat \ {0}
    /\ MaxFaults \in Nat
    /\ Malformed \notin Event
    /\ NoProc \notin Proc
    /\ NoToken \notin Token
    /\ NoDigest \notin Digest

(* Causally related events share a partition key and are produced in       *)
(* order, so what a record needs is recorded before it in the partition.   *)
ASSUME CausalLogAssumption ==
    \A o \in Offset : EventOf[o] \in Event =>
        \A e \in Needs[EventOf[o]] : \E q \in 0 .. o - 1 : EventOf[q] = e

VARIABLES
    \* Kafka: the group's committed offset, the owner the coordinator has
    \* assigned the partition to, and the dead-letter topic (a set, since
    \* deterministic_dlq_id makes redeliveries carry the same identity)
    groupOffset, owner, dlq,
    \* Redis: the idempotency key of every event
    lease,
    \* PostgreSQL: the processed_events row of every event, and how often
    \* its business effects have been committed
    ledger, effects,
    \* the instances: control point, offset being processed, next offset to
    \* fetch, own view of the assignment, lease token, whether the
    \* reservation came back completed, attempt number, error category
    pc, cur, pos, assigned, token, dup, attempt, category,
    \* the instances' OffsetCommitTracker
    track, sinceFlush,
    \* disturbances left
    budget

brokerVars == <<groupOffset, owner>>
storeVars  == <<lease, ledger, effects, dlq>>
loopVars   == <<pos, assigned>>
recordVars == <<cur, token, dup, attempt, category>>
trackVars  == <<track, sinceFlush>>
vars == <<brokerVars, storeVars, pc, loopVars, recordVars, trackVars, budget>>

PC == {"down", "idle", "reserve", "handle", "tx", "complete",
       "release", "dlq", "commit", "stopping"}

Category == {"none", "invalid", "integrity", "missing", "exhausted"}

LeaseState == [status : {"absent", "processing", "completed"},
               token : Token \cup {NoToken}]

NoLease == [status |-> "absent", token |-> NoToken]
Held(t) == [status |-> "processing", token |-> t]
Done    == [status |-> "completed", token |-> NoToken]

TypeOK ==
    /\ groupOffset \in 0 .. LogEnd
    /\ owner \in Proc \cup {NoProc}
    /\ dlq \subseteq Offset \X (Category \ {"none"})
    /\ lease \in [Event -> LeaseState]
    /\ ledger \in [Event -> Digest \cup {NoDigest}]
    /\ effects \in [Event -> Nat]
    /\ pc \in [Proc -> PC]
    /\ cur \in [Proc -> Offset \cup {None}]
    /\ pos \in [Proc -> 0 .. LogEnd]
    /\ assigned \in [Proc -> BOOLEAN]
    /\ token \in [Proc -> Token \cup {NoToken}]
    /\ dup \in [Proc -> BOOLEAN]
    /\ attempt \in [Proc -> 1 .. MaxAttempts]
    /\ category \in [Proc -> Category]
    /\ track \in [Proc -> PartitionState]
    /\ sinceFlush \in [Proc -> 0 .. BatchSize]
    /\ budget \in 0 .. MaxFaults

Init ==
    /\ groupOffset = 0
    /\ owner = NoProc
    /\ dlq = {}
    /\ lease = [e \in Event |-> NoLease]
    /\ ledger = [e \in Event |-> NoDigest]
    /\ effects = [e \in Event |-> 0]
    /\ pc = [p \in Proc |-> "down"]
    /\ cur = [p \in Proc |-> None]
    /\ pos = [p \in Proc |-> 0]
    /\ assigned = [p \in Proc |-> FALSE]
    /\ token = [p \in Proc |-> NoToken]
    /\ dup = [p \in Proc |-> FALSE]
    /\ attempt = [p \in Proc |-> 1]
    /\ category = [p \in Proc |-> "none"]
    /\ track = [p \in Proc |-> NewPartition]
    /\ sinceFlush = [p \in Proc |-> 0]
    /\ budget = MaxFaults

-----------------------------------------------------------------------------
(* The event of the record p is processing. *)
Ev(p) == EventOf[cur[p]]

Goto(p, l) == pc' = [pc EXCEPT ![p] = l]

(* One disturbance of the given kind happens in this step. *)
Fault(kind) ==
    /\ kind \in FaultKinds
    /\ budget > 0
    /\ budget' = budget - 1

(* process() returns or raises: its local state is gone. *)
Forget(p) ==
    /\ cur' = [cur EXCEPT ![p] = None]
    /\ token' = [token EXCEPT ![p] = NoToken]
    /\ dup' = [dup EXCEPT ![p] = FALSE]
    /\ attempt' = [attempt EXCEPT ![p] = 1]
    /\ category' = [category EXCEPT ![p] = "none"]

(* A faulty variant: the loop goes on after an unresolved record. *)
UnresolvedSkipped(p) ==
    /\ Goto(p, "idle")
    /\ Forget(p)
    /\ UNCHANGED <<brokerVars, loopVars, trackVars>>

(* ProcessingStatus.UNRESOLVED: the synchronous loop breaks, nothing is    *)
(* marked terminal.                                                        *)
Unresolved(p) ==
    /\ Goto(p, "stopping")
    /\ Forget(p)
    /\ UNCHANGED <<brokerVars, loopVars, trackVars>>

(* Counted up to the threshold only: nothing tells larger values apart. *)
Bump(n) == IF n < BatchSize THEN n + 1 ELSE n

(***************************************************************************)
(* One synchronous commit call for the tracker state st of p.  The broker  *)
(* rejects a commit from a member it no longer counts as the owner; a call *)
(* that fails may still have been applied.  Nothing is sent when the       *)
(* tracker has no uncommitted safe offset.                                 *)
(***************************************************************************)
CommitOffsets(p, st, ok) ==
    \/ /\ ~HasUncommitted(st)
       /\ ok
       /\ UNCHANGED <<groupOffset, budget>>
    \/ /\ HasUncommitted(st)
       /\ owner = p
       /\ ok
       /\ groupOffset' = st.safe + 1
       /\ UNCHANGED budget
    \/ /\ HasUncommitted(st)
       /\ owner # p
       /\ ~ok
       /\ UNCHANGED <<groupOffset, budget>>
    \/ /\ HasUncommitted(st)
       /\ owner = p
       /\ ~ok
       /\ groupOffset' \in {groupOffset, st.safe + 1}
       /\ Fault("kafka")

(* The tracker state a flush leaves: a failure discards nothing. *)
Flushed(st, ok) == IF ok THEN MarkCommitted(st) ELSE st

-----------------------------------------------------------------------------
(* Start-up: Redis ping, database open and schema check, subscribe. *)
Start(p) ==
    /\ pc[p] = "down"
    /\ Goto(p, "idle")
    /\ UNCHANGED <<brokerVars, storeVars, loopVars, recordVars, trackVars, budget>>

(* on_assign, delivered inside poll(): consumption resumes at the group's  *)
(* committed offset (auto.offset.reset earliest when there is none).       *)
OnAssign(p) ==
    /\ pc[p] = "idle"
    /\ ~assigned[p]
    /\ owner = NoProc
    /\ owner' = p
    /\ assigned' = [assigned EXCEPT ![p] = TRUE]
    /\ pos' = [pos EXCEPT ![p] = groupOffset]
    /\ UNCHANGED <<groupOffset, storeVars, pc, recordVars, trackVars, budget>>

(* A faulty variant: the tracker state survives the revocation. *)
OnRevokeKeepsTrack(p) ==
    /\ pc[p] = "idle"
    /\ assigned[p]
    /\ \/ owner # p /\ UNCHANGED <<groupOffset, budget>>
       \/ /\ owner = p
          /\ Fault("rebalance")
          /\ \/ UNCHANGED groupOffset
             \/ /\ HasUncommitted(track[p])
                /\ groupOffset' = track[p].safe + 1
    /\ owner' = IF owner = p THEN NoProc ELSE owner
    /\ assigned' = [assigned EXCEPT ![p] = FALSE]
    /\ UNCHANGED <<storeVars, pc, pos, recordVars, trackVars>>

(* on_revoke, delivered inside poll(): flush the partition, swallow a      *)
(* failure, drop the tracker state either way.  A partition the            *)
(* coordinator has already taken away (a lost session) is revoked for      *)
(* free; taking it away from a live owner is a disturbance.                *)
OnRevoke(p) ==
    /\ pc[p] = "idle"
    /\ assigned[p]
    /\ \/ owner # p /\ UNCHANGED <<groupOffset, budget>>
       \/ /\ owner = p
          /\ Fault("rebalance")
          /\ \/ UNCHANGED groupOffset
             \/ /\ HasUncommitted(track[p])
                /\ groupOffset' = track[p].safe + 1
    /\ owner' = IF owner = p THEN NoProc ELSE owner
    /\ assigned' = [assigned EXCEPT ![p] = FALSE]
    /\ track' = [track EXCEPT ![p] = NewPartition]
    /\ UNCHANGED <<storeVars, pc, pos, recordVars, sinceFlush>>

(* The coordinator evicts a member that stopped polling or heartbeating;   *)
(* the member finds out at its next poll.                                  *)
SessionLost(p) ==
    /\ pc[p] # "down"
    /\ owner = p
    /\ owner' = NoProc
    /\ Fault("stall")
    /\ UNCHANGED <<groupOffset, storeVars, pc, loopVars, recordVars, trackVars>>

(* poll() returns a record; process() validates it.  An evicted member may *)
(* still be handed records it fetched earlier.                             *)
PollRecord(p) ==
    /\ pc[p] = "idle"
    /\ assigned[p]
    /\ pos[p] < LogEnd
    /\ cur' = [cur EXCEPT ![p] = pos[p]]
    /\ pos' = [pos EXCEPT ![p] = pos[p] + 1]
    /\ IF EventOf[pos[p]] = Malformed
       THEN Goto(p, "dlq") /\ category' = [category EXCEPT ![p] = "invalid"]
       ELSE Goto(p, "reserve") /\ UNCHANGED category
    /\ UNCHANGED <<brokerVars, storeVars, assigned, token, dup, attempt,
                   trackVars, budget>>

(* A faulty variant: an idle poll flushes nothing. *)
PollIdleNeverFlushes(p) ==
    /\ pc[p] = "idle"
    /\ UNCHANGED vars

(* poll() returns nothing: maybe_flush_idle flushes if some record was     *)
(* marked since the last flush and the interval has elapsed; a commit      *)
(* error ends the loop.                                                    *)
PollIdle(p) ==
    /\ pc[p] = "idle"
    /\ \/ UNCHANGED vars
       \/ /\ sinceFlush[p] > 0
          /\ \E ok \in BOOLEAN :
                /\ CommitOffsets(p, track[p], ok)
                /\ track' = [track EXCEPT ![p] = Flushed(track[p], ok)]
                /\ sinceFlush' = [sinceFlush EXCEPT ![p] = IF ok THEN 0 ELSE @]
                /\ Goto(p, IF ok THEN "idle" ELSE "stopping")
          /\ UNCHANGED <<owner, storeVars, loopVars, recordVars>>

(* poll() raises FatalInfrastructureError, or a signal requests shutdown. *)
LeaveLoop(p) ==
    /\ pc[p] = "idle"
    /\ Fault("stop")
    /\ Goto(p, "stopping")
    /\ UNCHANGED <<brokerVars, storeVars, loopVars, recordVars, trackVars>>

(* The finally block: flush_pending (a failure is only logged), then       *)
(* close() leaves the group.                                               *)
Stop(p) ==
    /\ pc[p] = "stopping"
    /\ \E ok \in BOOLEAN : CommitOffsets(p, track[p], ok)
    /\ Goto(p, "down")
    /\ owner' = IF owner = p THEN NoProc ELSE owner
    /\ assigned' = [assigned EXCEPT ![p] = FALSE]
    /\ track' = [track EXCEPT ![p] = NewPartition]
    /\ sinceFlush' = [sinceFlush EXCEPT ![p] = 0]
    /\ UNCHANGED <<storeVars, pos, recordVars>>

(* The process dies: memory is gone, Redis and PostgreSQL keep theirs. *)
Crash(p) ==
    /\ pc[p] # "down"
    /\ Fault("crash")
    /\ Goto(p, "down")
    /\ Forget(p)
    /\ owner' = IF owner = p THEN NoProc ELSE owner
    /\ assigned' = [assigned EXCEPT ![p] = FALSE]
    /\ track' = [track EXCEPT ![p] = NewPartition]
    /\ sinceFlush' = [sinceFlush EXCEPT ![p] = 0]
    /\ UNCHANGED <<groupOffset, storeVars, pos>>

-----------------------------------------------------------------------------
(* Tokens some instance or some key still holds; uuid4 never repeats one. *)
LiveToken == {token[q] : q \in Proc} \cup {lease[e].token : e \in Event}

FreshToken == Token \ LiveToken

(* reserve(): the RESERVE script on an available Redis. *)
Reserve(p) ==
    /\ pc[p] = "reserve"
    /\ \/ /\ lease[Ev(p)].status = "absent"
          /\ \E t \in FreshToken :
                /\ lease' = [lease EXCEPT ![Ev(p)] = Held(t)]
                /\ token' = [token EXCEPT ![p] = t]
          /\ Goto(p, "handle")
          /\ UNCHANGED <<brokerVars, loopVars, trackVars,
                         cur, dup, attempt, category>>
       \/ /\ lease[Ev(p)].status = "completed"
          /\ dup' = [dup EXCEPT ![p] = TRUE]
          /\ Goto(p, "handle")
          /\ UNCHANGED <<brokerVars, loopVars, trackVars, lease,
                         cur, token, attempt, category>>
       \/ /\ lease[Ev(p)].status = "processing"
          /\ Unresolved(p)
          /\ UNCHANGED lease
    /\ UNCHANGED <<ledger, effects, dlq, budget>>

(* reserve() raises: the script was not run, or was run and its answer     *)
(* lost, which leaves a key nobody will complete.                          *)
ReserveFails(p) ==
    /\ pc[p] = "reserve"
    /\ Fault("redis")
    /\ \/ UNCHANGED lease
       \/ /\ lease[Ev(p)].status = "absent"
          /\ \E t \in FreshToken : lease' = [lease EXCEPT ![Ev(p)] = Held(t)]
    /\ Unresolved(p)
    /\ UNCHANGED <<ledger, effects, dlq>>

(* A lease outlives its worker (the holder crashed, gave up, or never      *)
(* learned that it had it) and reaches its TTL.                            *)
LeaseExpires(e) ==
    /\ lease[e].status = "processing"
    /\ \A p \in Proc : token[p] # lease[e].token
    /\ lease' = [lease EXCEPT ![e] = NoLease]
    /\ UNCHANGED <<brokerVars, ledger, effects, dlq, pc, loopVars, recordVars,
                   trackVars, budget>>

(* A worker outlives its lease: handling takes longer than the TTL. *)
LeaseOutlived(e) ==
    /\ lease[e].status = "processing"
    /\ \E p \in Proc : token[p] = lease[e].token
    /\ Fault("stall")
    /\ lease' = [lease EXCEPT ![e] = NoLease]
    /\ UNCHANGED <<brokerVars, ledger, effects, dlq, pc, loopVars, recordVars,
                   trackVars>>

(* A completed key reaches its TTL or is evicted. *)
CompletedEvicted(e) ==
    /\ lease[e].status = "completed"
    /\ Fault("redis")
    /\ lease' = [lease EXCEPT ![e] = NoLease]
    /\ UNCHANGED <<brokerVars, ledger, effects, dlq, pc, loopVars, recordVars,
                   trackVars>>

-----------------------------------------------------------------------------
(* persist() returned: a fresh event goes on to complete(), a completed    *)
(* duplicate straight to the offset commit.                                *)
Persisted(p) == Goto(p, IF dup[p] THEN "commit" ELSE "complete")

(* run_with_retry gave up: a fresh event releases its lease first, a       *)
(* completed duplicate has none.                                           *)
GiveUp(p, c) ==
    /\ Goto(p, IF dup[p] THEN "dlq" ELSE "release")
    /\ category' = [category EXCEPT ![p] = c]
    /\ UNCHANGED attempt

(* A faulty variant: one attempt too many. *)
RetryOnceMore(p, c) ==
    \/ /\ attempt[p] <= MaxAttempts
       /\ attempt' = [attempt EXCEPT ![p] = attempt[p] + 1]
       /\ Goto(p, "handle")
       /\ UNCHANGED category
    \/ /\ attempt[p] > MaxAttempts
       /\ GiveUp(p, c)

(* A faulty variant: the last attempt is never made. *)
RetryGivesUpEarly(p, c) ==
    \/ /\ attempt[p] + 1 < MaxAttempts
       /\ attempt' = [attempt EXCEPT ![p] = attempt[p] + 1]
       /\ Goto(p, "handle")
       /\ UNCHANGED category
    \/ /\ attempt[p] + 1 >= MaxAttempts
       /\ GiveUp(p, c)

(* A RetryableProcessingError with the given DLQ category. *)
Retry(p, c) ==
    \/ /\ attempt[p] < MaxAttempts
       /\ attempt' = [attempt EXCEPT ![p] = attempt[p] + 1]
       /\ Goto(p, "handle")
       /\ UNCHANGED category
    \/ /\ attempt[p] = MaxAttempts
       /\ GiveUp(p, c)

(* The transaction starts; insert_identity looks the event up by id.       *)
(* Identical content: AlreadyPersistedEvent.  Different content: permanent *)
(* conflict.  No row: the transaction goes on.                             *)
TxBegin(p) ==
    /\ pc[p] = "handle"
    /\ \/ /\ ledger[Ev(p)] = DigestOf[cur[p]]
          /\ Persisted(p)
          /\ UNCHANGED <<attempt, category>>
       \/ /\ ledger[Ev(p)] \notin {DigestOf[cur[p]], NoDigest}
          /\ GiveUp(p, "integrity")
       \/ /\ ledger[Ev(p)] = NoDigest
          /\ Goto(p, "tx")
          /\ UNCHANGED <<attempt, category>>
    /\ UNCHANGED <<brokerVars, storeVars, loopVars, cur, token, dup,
                   trackVars, budget>>

(* A faulty variant: processed_events has no primary key. *)
AdmissibleTwice(e) ==
    /\ e \notin Poison
    /\ \A d \in Needs[e] : ledger[d] # NoDigest

(* The INSERT and the business effects can be committed. *)
Admissible(e) ==
    /\ ledger[e] = NoDigest
    /\ e \notin Poison
    /\ \A d \in Needs[e] : ledger[d] # NoDigest

WriteEffects(p) ==
    /\ ledger' = [ledger EXCEPT ![Ev(p)] = DigestOf[cur[p]]]
    /\ effects' = [effects EXCEPT ![Ev(p)] = @ + 1]

(* INSERT, handler.apply, fraud evaluation and COMMIT.  Losing the race    *)
(* for the primary key raises 23505, which persist() classifies as         *)
(* permanent; a handler may reject the event; a missing parent is          *)
(* retryable.                                                              *)
TxCommit(p) ==
    /\ pc[p] = "tx"
    /\ \/ /\ Admissible(Ev(p))
          /\ WriteEffects(p)
          /\ Persisted(p)
          /\ UNCHANGED <<attempt, category>>
       \/ /\ ledger[Ev(p)] # NoDigest \/ Ev(p) \in Poison
          /\ GiveUp(p, "integrity")
          /\ UNCHANGED <<ledger, effects>>
       \/ /\ ledger[Ev(p)] = NoDigest
          /\ Ev(p) \notin Poison
          /\ \E d \in Needs[Ev(p)] : ledger[d] = NoDigest
          /\ Retry(p, "missing")
          /\ UNCHANGED <<ledger, effects>>
    /\ UNCHANGED <<brokerVars, lease, dlq, loopVars, cur, token, dup,
                   trackVars, budget>>

(* The database fails: SQLSTATE 08*, 40001, 40P01 and a pool timeout are   *)
(* retryable, every other psycopg error (statement timeout, a dropped      *)
(* connection without SQLSTATE) is permanent.  The transaction is rolled   *)
(* back, or was committed and only the acknowledgement was lost.           *)
TxFails(p) ==
    /\ pc[p] \in {"handle", "tx"}
    /\ Fault("db")
    /\ Retry(p, "exhausted") \/ GiveUp(p, "integrity")
    /\ \/ UNCHANGED <<ledger, effects>>
       \/ pc[p] = "tx" /\ Admissible(Ev(p)) /\ WriteEffects(p)
    /\ UNCHANGED <<brokerVars, lease, dlq, loopVars, cur, token, dup, trackVars>>

-----------------------------------------------------------------------------
(* complete(): token-checked compare-and-set; a mismatch is unresolved. *)
Complete(p) ==
    /\ pc[p] = "complete"
    /\ \/ /\ lease[Ev(p)] = Held(token[p])
          /\ lease' = [lease EXCEPT ![Ev(p)] = Done]
          /\ Goto(p, "commit")
          /\ UNCHANGED <<brokerVars, loopVars, recordVars, trackVars>>
       \/ /\ lease[Ev(p)] # Held(token[p])
          /\ Unresolved(p)
          /\ UNCHANGED lease
    /\ UNCHANGED <<ledger, effects, dlq, budget>>

(* complete() raises, before or after the script took effect. *)
CompleteFails(p) ==
    /\ pc[p] = "complete"
    /\ Fault("redis")
    /\ \/ UNCHANGED lease
       \/ /\ lease[Ev(p)] = Held(token[p])
          /\ lease' = [lease EXCEPT ![Ev(p)] = Done]
    /\ Unresolved(p)
    /\ UNCHANGED <<ledger, effects, dlq>>

(* A faulty variant: the key is deleted whoever holds it. *)
ReleasedUnchecked(p) == [lease EXCEPT ![Ev(p)] = NoLease]

(* What the RELEASE script makes of the key of the event p gave up. *)
Released(p) ==
    IF lease[Ev(p)] = Held(token[p])
    THEN [lease EXCEPT ![Ev(p)] = NoLease]
    ELSE lease

(* _safe_release: token-checked; a Redis error is swallowed. *)
Release(p) ==
    /\ pc[p] = "release"
    /\ \/ lease' = Released(p) /\ UNCHANGED budget
       \/ lease' \in {lease, Released(p)} /\ Fault("redis")
    /\ Goto(p, "dlq")
    /\ UNCHANGED <<brokerVars, ledger, effects, dlq, loopVars, recordVars,
                   trackVars>>

(* _dead_letter publishes and waits for the delivery report. *)
DlqPublish(p) ==
    /\ pc[p] = "dlq"
    /\ dlq' = dlq \cup {<<cur[p], category[p]>>}
    /\ Goto(p, "commit")
    /\ UNCHANGED <<brokerVars, lease, ledger, effects, loopVars, recordVars,
                   trackVars, budget>>

(* A faulty variant: an unconfirmed delivery is taken for a delivery. *)
DlqFailsIgnored(p) ==
    /\ pc[p] = "dlq"
    /\ Fault("kafka")
    /\ dlq' \in {dlq, dlq \cup {<<cur[p], category[p]>>}}
    /\ Goto(p, "commit")
    /\ UNCHANGED <<brokerVars, lease, ledger, effects, loopVars, recordVars,
                   trackVars>>

(* Delivery is not confirmed in time: unresolved, delivered or not. *)
DlqFails(p) ==
    /\ pc[p] = "dlq"
    /\ Fault("kafka")
    /\ dlq' \in {dlq, dlq \cup {<<cur[p], category[p]>>}}
    /\ Unresolved(p)
    /\ UNCHANGED <<lease, ledger, effects>>

(* commit_terminal: mark the offset, then flush if the batch is full or    *)
(* the interval has elapsed.  A commit error propagates out of process().  *)
CommitTerminal(p) ==
    LET st == MarkTerminal(track[p], cur[p])
        n  == Bump(sinceFlush[p])
    IN  /\ pc[p] = "commit"
        /\ \/ /\ n < BatchSize
              /\ track' = [track EXCEPT ![p] = st]
              /\ sinceFlush' = [sinceFlush EXCEPT ![p] = n]
              /\ Goto(p, "idle")
              /\ UNCHANGED <<groupOffset, budget>>
           \/ \E ok \in BOOLEAN :
                /\ CommitOffsets(p, st, ok)
                /\ track' = [track EXCEPT ![p] = Flushed(st, ok)]
                /\ sinceFlush' = [sinceFlush EXCEPT ![p] = IF ok THEN 0 ELSE n]
                /\ Goto(p, IF ok THEN "idle" ELSE "stopping")
        /\ Forget(p)
        /\ UNCHANGED <<owner, storeVars, loopVars>>

-----------------------------------------------------------------------------
(* The steps an instance takes by itself. *)
Step(p) ==
    \/ Start(p) \/ PollRecord(p) \/ PollIdle(p) \/ Stop(p)
    \/ Reserve(p) \/ TxBegin(p) \/ TxCommit(p) \/ Complete(p)
    \/ Release(p) \/ DlqPublish(p) \/ CommitTerminal(p)

Disturbance(p) ==
    \/ OnRevoke(p) \/ SessionLost(p) \/ LeaveLoop(p) \/ Crash(p)
    \/ ReserveFails(p) \/ TxFails(p) \/ CompleteFails(p) \/ DlqFails(p)

Next ==
    \/ \E p \in Proc : Step(p) \/ OnAssign(p) \/ Disturbance(p)
    \/ \E e \in Event : LeaseExpires(e) \/ LeaseOutlived(e) \/ CompletedEvicted(e)

Spec == Init /\ [][Next]_vars

(***************************************************************************)
(* Fairness.  An instance that can act does (the container is restarted    *)
(* after every exit: compose.yaml, restart: unless-stopped), the           *)
(* coordinator assigns a partition nobody owns and reports a lost          *)
(* assignment at the next poll, and Redis expires a key at its TTL.        *)
(* No disturbance is fair.                                                 *)
(***************************************************************************)
Fairness ==
    /\ \A p \in Proc : /\ WF_vars(Step(p))
                       /\ WF_vars(OnRevoke(p) /\ owner # p)
    /\ WF_vars(\E p \in Proc : OnAssign(p))
    /\ \A e \in Event : WF_vars(LeaseExpires(e))

FairSpec == Spec /\ Fairness
-----------------------------------------------------------------------------
DeadLettered(o) == \E c \in Category : <<o, c>> \in dlq

(* A record that the record at o depends on was dead-lettered before it. *)
DeadParent(o) ==
    \E q \in 0 .. o - 1 : EventOf[q] \in Needs[EventOf[o]] /\ DeadLettered(q)

(* The record at o has reached a terminal outcome that outlives every      *)
(* process: its exact content is in the ledger, or it is in the DLQ.       *)
Terminal(o) ==
    \/ EventOf[o] \in Event /\ ledger[EventOf[o]] = DigestOf[o]
    \/ DeadLettered(o)

TerminalOffsets == {o \in Offset : Terminal(o)}

(* README.md:85-86, "Kafka offsets are committed only after terminal       *)
(* handling": whatever crashes, stalls and errors happen, no record below  *)
(* the group's committed offset is lost - each is persisted with its own   *)
(* content or dead-lettered (processor.py:_commit, offset_tracker.py).     *)
CommittedIsTerminal ==
    \A o \in 0 .. groupOffset - 1 : Terminal(o)

(* The promise of the tracker (offset_tracker.py:6-9), for every instance  *)
(* at every moment, not only when it commits: each offset up to            *)
(* safe_offset is terminal.                                                *)
SafePrefixIsTerminal ==
    \A p \in Proc : Sound(track[p], TerminalOffsets)

(* A key is only ever "completed" after the event's transaction committed  *)
(* (processor.py:176-228), so a duplicate that Redis reports as completed  *)
(* never stands for lost work.                                             *)
CompletedIsPersisted ==
    \A e \in Event : lease[e].status = "completed" => ledger[e] # NoDigest

(* Business effects are applied at most once per event, and exactly when   *)
(* its ledger row exists, even when two workers handle the event at the    *)
(* same time because the first outlived its lease (unit_of_work.py:132).   *)
EffectsOnce ==
    \A e \in Event : effects[e] = IF ledger[e] = NoDigest THEN 0 ELSE 1

(* docs/architecture/design-decisions.md:154-158: one sequential consumer  *)
(* per partition preserves the dependency chain.  A record is dead-        *)
(* lettered for a missing dependency only if a record it depends on was    *)
(* dead-lettered before it.                                                *)
DependencyOrder ==
    \A o \in Offset : <<o, "missing">> \in dlq => DeadParent(o)

(* No record is given up too early: one that is dead-lettered as           *)
(* retry_exhausted was tried max_processing_attempts times, and each time  *)
(* the infrastructure failed - whatever instances, redeliveries and        *)
(* restarts the attempts were spread over, and unless a dead parent used   *)
(* some of them up (retry.py:36-46, processor.py:204-224).                 *)
ExhaustedByFailures ==
    \A o \in Offset : <<o, "exhausted">> \in dlq /\ ~DeadParent(o)
                        => MaxFaults - budget >= MaxAttempts

(* docs/event-processor.md:137: "Release is token-checked, so a stale      *)
(* worker cannot delete another lease".  A step of an instance that ends   *)
(* or changes a processing lease is a step of the lease's holder.          *)
OnlyHolderEndsLease ==
    [][\A p \in Proc, e \in Event :
        (/\ pc[p] # pc'[p]
         /\ lease[e].status = "processing"
         /\ lease'[e] # lease[e]) => token[p] = lease[e].token]_vars

(* Every record is eventually resolved and its offset committed, once      *)
(* disturbances stop: no lease, batch or partition is left waiting         *)
(* forever (idempotency TTL, maybe_flush_idle, restart after UNRESOLVED).  *)
EventuallyCommitted == <>[](groupOffset = LogEnd)

(* docs/postgresql-persistence.md: "The same event_id plus the same hash   *)
(* is already persisted and safe".  A record whose content is in the       *)
(* ledger is not dead-lettered as an integrity error.                      *)
PersistedNotDeadLettered ==
    \A o \in Offset : (EventOf[o] \in Event /\ ledger[EventOf[o]] = DigestOf[o])
                        => <<o, "integrity">> \notin dlq

(* The pipeline implements at-least-once consumption of the partition: no  *)
(* outcome is ever taken back, and the committed offset never moves back   *)
(* nor past an unresolved record, not even when an evicted instance goes   *)
(* on working (consumer.py:221-256, processor.py:91-266).                  *)
Delivery == INSTANCE AtLeastOnce WITH
    resolved <- TerminalOffsets, committed <- groupOffset

DeliverySpec == Delivery!Spec
-----------------------------------------------------------------------------
(***************************************************************************)
(* The inductive invariant behind the properties above, in two layers.     *)
(* Shape: the control state of an instance.  An instance holds a record    *)
(* exactly while process() runs; it is the record just before the fetch    *)
(* position; the synchronous tracker has no gaps and its safe offset, once *)
(* set, is right below the next record; neither that record nor the offset *)
(* after the safe one is below what the owner has committed.  An instance  *)
(* that stops may leave its last record unresolved.                        *)
(***************************************************************************)
Resting  == {"down", "idle", "stopping"}
Handling == {"reserve", "handle", "tx", "complete", "release"}

NextRecord(p) == IF cur[p] = None THEN pos[p] ELSE cur[p]

Shape(p) ==
    /\ cur[p] = None <=> pc[p] \in Resting
    /\ cur[p] # None => assigned[p] /\ pos[p] = cur[p] + 1
    /\ pc[p] \in Handling => EventOf[cur[p]] \in Event
    /\ pc[p] \in {"release", "dlq"} => category[p] # "none"
    /\ track[p].pending = {}
    /\ track[p].floor = None
    /\ pc[p] # "stopping" => track[p].safe \in {None, NextRecord(p) - 1}
    /\ ~assigned[p] => track[p].safe = None
    /\ owner = p => /\ assigned[p]
                    /\ pc[p] # "stopping" => groupOffset <= NextRecord(p)
                    /\ track[p].safe # None => groupOffset <= track[p].safe + 1

ShapeInv == TypeOK /\ \A p \in Proc : Shape(p)

(* Outcome: an instance at work has resolved every record before the one   *)
(* it is at, its tracker only calls terminal records safe, and each stage  *)
(* of process() rests on what the stages before it achieved.               *)
PrefixResolved(p) ==
    /\ (assigned[p] /\ pc[p] # "stopping")
            => \A o \in 0 .. NextRecord(p) - 1 : Terminal(o)
    /\ \A o \in 0 .. track[p].safe : Terminal(o)

StageOutcome(p) ==
    /\ pc[p] = "complete" => ledger[Ev(p)] = DigestOf[cur[p]]
    /\ pc[p] = "commit" => Terminal(cur[p])
    /\ (pc[p] \in {"release", "dlq"} /\ category[p] = "missing")
            => DeadParent(cur[p])

OutcomeInv ==
    /\ \A p \in Proc : PrefixResolved(p) /\ StageOutcome(p)
    /\ CommittedIsTerminal
    /\ CompletedIsPersisted
    /\ EffectsOnce
    /\ DependencyOrder

IInv == ShapeInv /\ OutcomeInv

(* Attempts: each attempt before the current one was used up by a          *)
(* disturbance, or there is a dead parent; so was the last one of a record *)
(* that is being given up as exhausted.                                    *)
AttemptsPaid(p) ==
    /\ \/ attempt[p] - 1 <= MaxFaults - budget
       \/ cur[p] # None /\ DeadParent(cur[p])
    /\ (pc[p] \in {"release", "dlq"} /\ category[p] = "exhausted")
            => MaxAttempts <= MaxFaults - budget \/ DeadParent(cur[p])

RetryInv == ExhaustedByFailures /\ \A p \in Proc : AttemptsPaid(p)
=============================================================================
