--------------------------- MODULE PooledConsumer ---------------------------
(***************************************************************************)
(* The event processor with a worker pool (main_pooled.py), reached when   *)
(* processor_worker_pool_size > 1.  One poll thread owns the Kafka client  *)
(* and the offset tracker; the workers run MessageProcessor.process() at   *)
(* the same time and hand terminal records back through a commit queue.    *)
(*                                                                         *)
(* process() is one step here (EventPipeline looks inside it): it ends     *)
(* with a terminal outcome, unresolved, or with an exception.  What other  *)
(* instances of the group do is folded into Elsewhere.                     *)
(***************************************************************************)
EXTENDS OffsetTracker, Sequences, FiniteSets

CONSTANTS
    Partition,      \* partitions of the input topic
    Worker,         \* worker threads
    BatchSize,      \* processor_offset_commit_batch_size
    Reassign,       \* may a revoked partition come back to this process?
    FaultKinds,     \* the disturbances that may happen
    Loads,          \* bounds of a behaviour: records of each partition (end)
                    \* and disturbances (faults)
    NoRecord, Idle, Exited, STOP

ASSUME PoolAssumption ==
    /\ IsFiniteSet(Worker) /\ Worker # {}
    /\ BatchSize \in Nat \ {0}
    /\ Loads \subseteq [end : [Partition -> 0 .. LogEnd], faults : Nat]
    /\ Reassign \in BOOLEAN
    /\ {NoRecord, Idle, Exited, STOP} \cap (Partition \X Offset) = {}

VARIABLES
    \* Kafka: the group's committed offsets, and whether the coordinator
    \* counts this process as a member
    groupOffset, member,
    \* PostgreSQL and the DLQ: the offsets with a durable terminal outcome
    resolved,
    \* the client: assignment, partitions revoked and not assigned again
    \* (KafkaEventConsumer._revoked), next offset to fetch
    assigned, revoked, pos,
    \* the poll thread: control point, record polled and not yet queued,
    \* sentinels still to queue
    pc, held, stops,
    \* the queues between the threads, and what each worker is doing
    workQueue, commitQueue, errors, doing,
    \* the OffsetCommitTracker
    track, sinceFlush,
    \* a signal has arrived; disturbances left
    shutdown, budget,
    \* the bounds of this behaviour
    load

groupVars  == <<groupOffset, member, resolved>>
clientVars == <<assigned, revoked, pos>>
loopVars   == <<held, stops>>
workVars   == <<workQueue, commitQueue, errors, doing>>
trackVars  == <<track, sinceFlush>>
vars == <<groupVars, clientVars, pc, loopVars, workVars, trackVars, shutdown, budget>>

Record == Partition \X Offset

PC == {"down", "check", "poll", "put", "drain", "stop", "join", "finalDrain",
       "closing", "closed"}

(* maxsize of the work queue *)
QueueBound == 2 * Cardinality(Worker)

TypeOK ==
    /\ groupOffset \in [Partition -> 0 .. LogEnd]
    /\ member \in BOOLEAN
    /\ resolved \in [Partition -> SUBSET Offset]
    /\ assigned \subseteq Partition
    /\ revoked \subseteq Partition
    /\ pos \in [Partition -> 0 .. LogEnd]
    /\ pc \in PC
    /\ held \in Record \cup {NoRecord}
    /\ stops \in 0 .. Cardinality(Worker)
    /\ workQueue \in Seq(Record \cup {STOP}) /\ Len(workQueue) <= QueueBound
    /\ commitQueue \in Seq(Record)
    /\ errors \in 0 .. load.faults
    /\ doing \in [Worker -> Record \cup {Idle, Exited}]
    /\ track \in [Partition -> PartitionState]
    /\ sinceFlush \in 0 .. BatchSize
    /\ shutdown \in BOOLEAN
    /\ budget \in 0 .. load.faults
    /\ load \in Loads

Init ==
    /\ groupOffset = [q \in Partition |-> 0]
    /\ member = FALSE
    /\ resolved = [q \in Partition |-> {}]
    /\ assigned = {}
    /\ revoked = {}
    /\ pos = [q \in Partition |-> 0]
    /\ pc = "down"
    /\ held = NoRecord
    /\ stops = 0
    /\ workQueue = <<>>
    /\ commitQueue = <<>>
    /\ errors = 0
    /\ doing = [w \in Worker |-> Exited]
    /\ track = [q \in Partition |-> NewPartition]
    /\ sinceFlush = 0
    /\ shutdown = FALSE
    /\ load \in Loads
    /\ budget = load.faults

-----------------------------------------------------------------------------
Fault(kind) ==
    /\ kind \in FaultKinds
    /\ budget > 0
    /\ budget' = budget - 1

(* Counted up to the threshold only: nothing tells larger values apart. *)
Bump(n) == IF n < BatchSize THEN n + 1 ELSE n

(* The group's offsets after a commit call for the partitions in Q. *)
Applied(tr, Q) ==
    [q \in Partition |-> IF q \in Q THEN tr[q].safe + 1 ELSE groupOffset[q]]

(***************************************************************************)
(* OffsetCommitTracker._flush for the partitions in only: one synchronous  *)
(* commit call for all of them.  An evicted member is rejected; a call     *)
(* that fails may have been applied to some of the partitions.             *)
(***************************************************************************)
Flush(tr, only, ok) ==
    LET due == {q \in only : HasUncommitted(tr[q])}
    IN  \/ /\ due = {}
           /\ ok
           /\ UNCHANGED <<groupOffset, budget>>
        \/ /\ due # {}
           /\ member
           /\ ok
           /\ groupOffset' = Applied(tr, due)
           /\ UNCHANGED budget
        \/ /\ due # {}
           /\ ~member
           /\ ~ok
           /\ UNCHANGED <<groupOffset, budget>>
        \/ /\ due # {}
           /\ member
           /\ ~ok
           /\ \E Q \in SUBSET due : groupOffset' = Applied(tr, Q)
           /\ Fault("kafka")

(* A flush of every partition, on the poll thread: an error leaves the     *)
(* tracker as it is and is raised, which ends the loop.                    *)
FlushAll(tr, n, next) ==
    \E ok \in BOOLEAN :
        /\ Flush(tr, Partition, ok)
        /\ track' = IF ok THEN [q \in Partition |-> MarkCommitted(tr[q])] ELSE tr
        /\ sinceFlush' = IF ok THEN 0 ELSE n
        /\ pc' = IF ok THEN next ELSE "closing"

-----------------------------------------------------------------------------
(* run_processor_pooled starts its threads, then pings Redis, opens the    *)
(* database and subscribes.                                                *)
Start ==
    /\ pc = "down"
    /\ pc' = "check"
    /\ doing' = [w \in Worker |-> Idle]
    /\ member' = TRUE
    /\ UNCHANGED <<groupOffset, resolved, clientVars, loopVars, workQueue,
                   commitQueue, errors, trackVars, shutdown, budget>>

(* One of these calls raises.  They come before the try block, so nothing  *)
(* is flushed or closed, and the threads are already running.              *)
StartFails ==
    /\ pc = "down"
    /\ Fault("startup")
    /\ pc' = "closed"
    /\ doing' = [w \in Worker |-> Idle]
    /\ UNCHANGED <<groupVars, clientVars, loopVars, workQueue, commitQueue, errors,
                   trackVars, shutdown>>

(* A faulty variant: one sentinel too few. *)
CheckOneTooFew ==
    /\ pc = "check"
    /\ \/ shutdown /\ pc' = "stop" /\ stops' = Cardinality(Worker) - 1
            /\ UNCHANGED errors
       \/ ~shutdown /\ errors > 0 /\ pc' = "closing" /\ errors' = errors - 1
            /\ UNCHANGED stops
       \/ ~shutdown /\ errors = 0 /\ pc' = "poll" /\ UNCHANGED <<stops, errors>>
    /\ UNCHANGED <<groupVars, clientVars, held, workQueue, commitQueue, doing,
                   trackVars, shutdown, budget>>

(* The loop's condition, then check_errors. *)
Check ==
    /\ pc = "check"
    /\ \/ shutdown /\ pc' = "stop" /\ stops' = Cardinality(Worker) /\ UNCHANGED errors
       \/ ~shutdown /\ errors > 0 /\ pc' = "closing" /\ errors' = errors - 1
            /\ UNCHANGED stops
       \/ ~shutdown /\ errors = 0 /\ pc' = "poll" /\ UNCHANGED <<stops, errors>>
    /\ UNCHANGED <<groupVars, clientVars, held, workQueue, commitQueue, doing,
                   trackVars, shutdown, budget>>

(* on_assign inside poll(): fetching starts at the committed offset. *)
OnAssign(q) ==
    /\ pc = "poll"
    /\ member
    /\ q \notin assigned
    /\ q \in revoked => Reassign
    /\ assigned' = assigned \cup {q}
    /\ revoked' = revoked \ {q}
    /\ pos' = [pos EXCEPT ![q] = groupOffset[q]]
    /\ UNCHANGED <<groupVars, pc, loopVars, workVars, trackVars, shutdown, budget>>

(* A faulty variant: the tracker state survives the revocation. *)
DropKeepsTrack(Q) ==
    /\ assigned' = assigned \ Q
    /\ revoked' = revoked \cup Q
    /\ UNCHANGED <<resolved, pos, pc, loopVars, workVars, trackVars, shutdown>>

(* on_revoke inside poll(): flush just these partitions, swallow an error, *)
(* drop their tracker state, and remember that they are gone.              *)
Drop(Q) ==
    /\ assigned' = assigned \ Q
    /\ revoked' = revoked \cup Q
    /\ track' = [q \in Partition |-> IF q \in Q THEN NewPartition ELSE track[q]]
    /\ UNCHANGED <<resolved, pos, pc, loopVars, workVars, sinceFlush, shutdown>>

OnRevoke(q) ==
    /\ pc = "poll"
    /\ member
    /\ q \in assigned
    /\ Fault("rebalance")
    /\ groupOffset' \in {groupOffset,
                         Applied(track, {q} \cap {r \in assigned : HasUncommitted(track[r])})}
    /\ Drop({q})
    /\ UNCHANGED member

(* The coordinator evicts the process: it stopped polling or heartbeating. *)
SessionLost ==
    /\ pc \notin {"down", "closed"}
    /\ member
    /\ member' = FALSE
    /\ Fault("stall")
    /\ UNCHANGED <<groupOffset, resolved, clientVars, pc, loopVars, workVars,
                   trackVars, shutdown>>

(* The next poll finds out, revokes everything and joins again. *)
OnLost ==
    /\ pc = "poll"
    /\ ~member
    /\ member' = TRUE
    /\ Drop(assigned)
    /\ UNCHANGED <<groupOffset, budget>>

(* A faulty variant: the dispatch order is not recorded. *)
PollRecordUnobserved(q) ==
    /\ pc = "poll"
    /\ q \in assigned
    /\ pos[q] < load.end[q]
    /\ held' = <<q, pos[q]>>
    /\ pos' = [pos EXCEPT ![q] = pos[q] + 1]
    /\ pc' = "put"
    /\ UNCHANGED <<groupVars, assigned, revoked, stops, workVars, trackVars,
                   shutdown, budget>>

(* poll() returns a record, and observe_dispatched notes its offset. *)
PollRecord(q) ==
    /\ pc = "poll"
    /\ q \in assigned
    /\ pos[q] < load.end[q]
    /\ held' = <<q, pos[q]>>
    /\ pos' = [pos EXCEPT ![q] = pos[q] + 1]
    /\ track' = [track EXCEPT ![q] = Observe(track[q], pos[q])]
    /\ pc' = "put"
    /\ UNCHANGED <<groupVars, assigned, revoked, stops, workVars, sinceFlush,
                   shutdown, budget>>

(* A faulty variant: an idle poll does not drain the commit queue. *)
PollNoneSkipsDrain ==
    /\ pc = "poll"
    /\ pc' = "check"
    /\ UNCHANGED <<groupVars, clientVars, loopVars, workVars, trackVars, shutdown,
                   budget>>

(* poll() returns nothing and no flush is due. *)
PollNone ==
    /\ pc = "poll"
    /\ pc' = "drain"
    /\ UNCHANGED <<groupVars, clientVars, loopVars, workVars, trackVars, shutdown,
                   budget>>

(* poll() returns nothing and maybe_flush_idle flushes: some record was    *)
(* marked since the last flush, and the interval has elapsed.              *)
IdleFlush ==
    /\ pc = "poll"
    /\ sinceFlush > 0
    /\ FlushAll(track, sinceFlush, "drain")
    /\ UNCHANGED <<member, resolved, clientVars, loopVars, workVars, shutdown>>

(* poll() raises. *)
PollFails ==
    /\ pc = "poll"
    /\ Fault("kafka")
    /\ pc' = "closing"
    /\ UNCHANGED <<groupVars, clientVars, loopVars, workVars, trackVars, shutdown>>

(* A faulty variant: the work queue has no maxsize. *)
PutUnbounded ==
    /\ pc = "put"
    /\ workQueue' = Append(workQueue, held)
    /\ held' = NoRecord
    /\ pc' = "drain"
    /\ UNCHANGED <<groupVars, clientVars, stops, commitQueue, errors, doing,
                   trackVars, shutdown, budget>>

(* work_queue.put blocks while the queue is full. *)
Put ==
    /\ pc = "put"
    /\ Len(workQueue) < QueueBound
    /\ workQueue' = Append(workQueue, held)
    /\ held' = NoRecord
    /\ pc' = "drain"
    /\ UNCHANGED <<groupVars, clientVars, stops, commitQueue, errors, doing,
                   trackVars, shutdown, budget>>

(* Where the poll thread goes when drain_commits returns. *)
AfterDrain == IF pc = "drain" THEN "check" ELSE "closing"

(* A faulty variant: completions of revoked partitions are marked too. *)
DrainOneRevoked ==
    LET q  == Head(commitQueue)[1]
        tr == [track EXCEPT ![q] = MarkTerminal(track[q], Head(commitQueue)[2])]
        n  == Bump(sinceFlush)
    IN  /\ pc \in {"drain", "finalDrain"}
        /\ commitQueue # <<>>
        /\ commitQueue' = Tail(commitQueue)
        /\ \/ /\ n < BatchSize
              /\ track' = tr
              /\ sinceFlush' = n
              /\ UNCHANGED <<groupOffset, pc, budget>>
           \/ FlushAll(tr, n, pc)
        /\ UNCHANGED <<member, resolved, clientVars, loopVars, workQueue, errors,
                       doing, shutdown>>

(* One round of drain_commits: commit_terminal refuses a revoked partition *)
(* and otherwise marks the offset, and flushes if the batch is full or the *)
(* interval has elapsed.                                                   *)
DrainOne ==
    LET q  == Head(commitQueue)[1]
        tr == [track EXCEPT ![q] = MarkTerminal(track[q], Head(commitQueue)[2])]
        n  == Bump(sinceFlush)
    IN  /\ pc \in {"drain", "finalDrain"}
        /\ commitQueue # <<>>
        /\ commitQueue' = Tail(commitQueue)
        /\ \/ /\ q \in revoked
              /\ pc' = "closing"
              /\ UNCHANGED <<groupOffset, trackVars, budget>>
           \/ /\ q \notin revoked
              /\ n < BatchSize
              /\ track' = tr
              /\ sinceFlush' = n
              /\ UNCHANGED <<groupOffset, pc, budget>>
           \/ /\ q \notin revoked
              /\ FlushAll(tr, n, pc)
        /\ UNCHANGED <<member, resolved, clientVars, loopVars, workQueue, errors,
                       doing, shutdown>>

(* drain_commits finds the queue empty.  After the last one check_errors   *)
(* may still raise, and the finally block follows either way.              *)
DrainEnd ==
    /\ pc \in {"drain", "finalDrain"}
    /\ commitQueue = <<>>
    /\ pc' = AfterDrain
    /\ UNCHANGED <<groupVars, clientVars, loopVars, workVars, trackVars, shutdown,
                   budget>>

(* Shutdown: one sentinel per worker, then join(). *)
PutStop ==
    /\ pc = "stop"
    /\ \/ /\ stops > 0
          /\ Len(workQueue) < QueueBound
          /\ workQueue' = Append(workQueue, STOP)
          /\ stops' = stops - 1
          /\ UNCHANGED pc
       \/ stops = 0 /\ pc' = "join" /\ UNCHANGED <<workQueue, stops>>
    /\ UNCHANGED <<groupVars, clientVars, held, commitQueue, errors, doing,
                   trackVars, shutdown, budget>>

(* work_queue.join() returns when every item has been taken and finished. *)
Join ==
    /\ pc = "join"
    /\ workQueue = <<>>
    /\ \A w \in Worker : doing[w] \in {Idle, Exited}
    /\ pc' = "finalDrain"
    /\ UNCHANGED <<groupVars, clientVars, loopVars, workVars, trackVars, shutdown,
                   budget>>

(* The finally block: flush_pending (an error is only logged), close.      *)
(* Nobody tells the workers.                                               *)
Close ==
    /\ pc = "closing"
    /\ \E ok \in BOOLEAN : Flush(track, Partition, ok)
    /\ pc' = "closed"
    /\ member' = FALSE
    /\ assigned' = {}
    /\ UNCHANGED <<resolved, revoked, pos, loopVars, workVars, trackVars, shutdown>>

-----------------------------------------------------------------------------
Take(w) ==
    /\ doing[w] = Idle
    /\ workQueue # <<>>
    /\ workQueue' = Tail(workQueue)
    /\ doing' = [doing EXCEPT ![w] = IF Head(workQueue) = STOP THEN Exited
                                     ELSE Head(workQueue)]
    /\ UNCHANGED <<groupVars, clientVars, pc, loopVars, commitQueue, errors,
                   trackVars, shutdown, budget>>

(* process() reaches a terminal outcome and calls the queued committer. *)
Finish(w) ==
    /\ doing[w] \in Record
    /\ resolved' = [resolved EXCEPT ![doing[w][1]] = @ \cup {doing[w][2]}]
    /\ commitQueue' = Append(commitQueue, doing[w])
    /\ doing' = [doing EXCEPT ![w] = Idle]
    /\ UNCHANGED <<groupOffset, member, clientVars, pc, loopVars, workQueue, errors,
                   trackVars, shutdown, budget>>

(* process() returns UNRESOLVED, which the worker ignores, or raises. *)
FinishBadly(w) ==
    /\ doing[w] \in Record
    /\ \/ Fault("unresolved") /\ UNCHANGED errors
       \/ Fault("raise") /\ errors' = errors + 1
    /\ doing' = [doing EXCEPT ![w] = Idle]
    /\ UNCHANGED <<groupVars, clientVars, pc, loopVars, workQueue, commitQueue,
                   trackVars, shutdown>>

-----------------------------------------------------------------------------
(* Other instances work on the partitions this process does not hold. *)
Elsewhere(q) ==
    /\ ~(member /\ q \in assigned)
    /\ groupOffset[q] < load.end[q]
    /\ resolved' = [resolved EXCEPT ![q] = @ \cup {groupOffset[q]}]
    /\ groupOffset' = [groupOffset EXCEPT ![q] = @ + 1]
    /\ UNCHANGED <<member, clientVars, pc, loopVars, workVars, trackVars, shutdown,
                   budget>>

Signal ==
    /\ pc # "down"
    /\ ~shutdown
    /\ Fault("signal")
    /\ shutdown' = TRUE
    /\ UNCHANGED <<groupVars, clientVars, pc, loopVars, workVars, trackVars>>

(* The interpreter exits once no thread is left. *)
ProcessExited == pc = "closed" /\ \A w \in Worker : doing[w] = Exited

(* The memory of the process is gone. *)
Gone ==
    /\ assigned' = {}
    /\ revoked' = {}
    /\ pos' = [q \in Partition |-> 0]
    /\ pc' = "down"
    /\ held' = NoRecord
    /\ stops' = 0
    /\ workQueue' = <<>>
    /\ commitQueue' = <<>>
    /\ errors' = 0
    /\ doing' = [w \in Worker |-> Exited]
    /\ track' = [q \in Partition |-> NewPartition]
    /\ sinceFlush' = 0
    /\ shutdown' = FALSE

(* The container is restarted after an exit or a crash. *)
Restart ==
    /\ ProcessExited
    /\ Gone
    /\ UNCHANGED <<groupVars, budget>>

Crash ==
    /\ pc # "down"
    /\ Fault("crash")
    /\ Gone
    /\ member' = FALSE
    /\ UNCHANGED <<groupOffset, resolved>>

-----------------------------------------------------------------------------
PollThread ==
    \/ Start \/ Check \/ OnLost \/ PollNone \/ IdleFlush \/ Put \/ DrainOne
    \/ DrainEnd \/ PutStop \/ Join \/ Close \/ Restart
    \/ \E q \in Partition : OnAssign(q) \/ PollRecord(q)

Next ==
    \/ PollThread
    \/ \E w \in Worker : Take(w) \/ Finish(w) \/ FinishBadly(w)
    \/ \E q \in Partition : OnRevoke(q) \/ Elsewhere(q)
    \/ StartFails \/ SessionLost \/ PollFails \/ Signal \/ Crash

Spec == Init /\ [][Next /\ UNCHANGED load]_<<vars, load>>

(***************************************************************************)
(* Fairness.  The threads are scheduled, the broker assigns a partition    *)
(* and delivers its records to a member that keeps polling, an idle flush  *)
(* happens once its interval has elapsed, and an exited container is       *)
(* restarted.  No disturbance is fair.                                     *)
(***************************************************************************)
Fairness ==
    /\ WF_vars(PollThread)
    /\ \A q \in Partition : SF_vars(OnAssign(q)) /\ SF_vars(PollRecord(q))
    /\ SF_vars(IdleFlush)
    /\ \A w \in Worker : WF_vars(Take(w)) /\ WF_vars(Finish(w))

FairSpec == Spec /\ Fairness
-----------------------------------------------------------------------------
(* docs/event-processor.md:112-113, "an offset is still never committed    *)
(* while an earlier offset in the same partition is unresolved", whatever  *)
(* the order in which the workers finish (main_pooled.py:26-29).           *)
CommittedIsResolved ==
    \A q \in Partition : 0 .. groupOffset[q] - 1 \subseteq resolved[q]

(* The tracker's own promise (offset_tracker.py:6-9) between commits: what *)
(* it calls safe, what it holds pending and everything below the dispatch  *)
(* floor has a terminal outcome.                                           *)
TrackerSound ==
    \A q \in Partition : Sound(track[q], resolved[q])

(* consumer.py:161-166 and offset_tracker.py:172-175: tracker state is     *)
(* only kept for partitions the process believes it owns, so a late        *)
(* completion of a revoked partition never revives it.                     *)
NothingKeptForRevoked ==
    pc # "closed" => \A q \in Partition \ assigned : track[q] = NewPartition

(* What the poll thread keeps between two commits is well formed, covered  *)
(* by terminal outcomes, and about partitions it owns: the invariant that  *)
(* a late completion, a failed flush or a revocation would break long      *)
(* before an offset is committed (consumer.py:154-256, main_pooled.py).    *)
PoolInv == TypeOK /\ TrackerSound /\ NothingKeptForRevoked

(* The commit queue has no bound of its own, but one drain per dispatch    *)
(* and the bounded work queue keep it finite: at most the work queue, the  *)
(* workers' records and the one just dispatched (main_pooled.py:244-247).  *)
CommitBacklogBounded ==
    Len(commitQueue) <= QueueBound + Cardinality(Worker) + 1

(* No commit of this process moves the group's offset back: neither one of *)
(* a batch left from before a revocation or a lost session, after which    *)
(* other instances commit, nor a flush that failed half-way                *)
(* (consumer.py:154-175, 221-256).  This is for a process that does not    *)
(* get back what it lost (~Reassign); a completion from before the         *)
(* revocation may break it otherwise, as it breaks CommittedIsResolved.    *)
CommitsOnlyForward ==
    [][\A q \in Partition : groupOffset'[q] >= groupOffset[q]]_vars

(* The shutdown sequence ends: sentinels, join and final drain do not wait *)
(* for each other, even with a full queue or a failing commit, and every   *)
(* worker exits (main_pooled.py:248-264).                                  *)
ShutdownCompletes ==
    pc = "stop" ~> (ProcessExited \/ pc = "down")

(* Without disturbances every record is committed in the end: the idle     *)
(* flush and the drain on an idle poll leave no partial batch behind       *)
(* (main_pooled.py:228-247, consumer.py:258-266).                          *)
EventuallyCommitted ==
    [](budget = load.faults) => <>[](\A q \in Partition : groupOffset[q] = load.end[q])
(***************************************************************************)
(* Why these hold, first for the queues: with any revocations and          *)
(* reassignments, the records between the poll thread and the commit queue *)
(* never exceed what one drain leaves and one dispatch adds.               *)
(***************************************************************************)
Items(s) == {s[i] : i \in 1 .. Len(s)}

Busy == {w \in Worker : doing[w] \in Record}

(* The work queue holds n records and then only sentinels, none of them    *)
(* while the loop runs.                                                    *)
RecordsFirst(n) ==
    /\ \A i \in 1 .. Len(workQueue) : workQueue[i] = STOP <=> i > n
    /\ pc \in {"check", "poll", "put", "drain"} => n = Len(workQueue)

(* With n records in the work queue, all records of the pool: one may be   *)
(* added to what the queue and the workers hold before the next drain.     *)
WithinBacklog(n) ==
    Len(commitQueue) + n + Cardinality(Busy) + (IF pc = "put" THEN 1 ELSE 0)
        <= QueueBound + Cardinality(Worker) + (IF pc \in {"check", "poll"} THEN 0 ELSE 1)

QueueInv ==
    /\ TypeOK
    /\ pc = "put" => held \in Record
    /\ pc = "down" => workQueue = <<>> /\ commitQueue = <<>> /\ Busy = {}
    /\ errors + budget <= load.faults
    /\ \E n \in 0 .. Len(workQueue) : RecordsFirst(n) /\ WithinBacklog(n)

(***************************************************************************)
(* Then for the tracker, when partitions that were revoked do not come     *)
(* back.  A completion may only be marked when its partition was observed  *)
(* after the last reset and everything below the floor is resolved; the    *)
(* group's offset never passes what the tracker has reached as long as the *)
(* process is a member.                                                    *)
(***************************************************************************)
InFlight ==
    {held} \cup Items(workQueue) \cup Items(commitQueue) \cup {doing[w] : w \in Worker}

(* A record in the process belongs to a partition it gave up, or owns and  *)
(* has observed.                                                           *)
InFlightObserved ==
    \A q \in Partition, o \in Offset :
        <<q, o>> \in InFlight =>
            \/ q \in revoked
            \/ track[q].floor # None /\ (pc # "closed" => q \in assigned)

(* What waits for its commit has a terminal outcome. *)
QueuedIsResolved ==
    \A q \in Partition, o \in Offset : <<q, o>> \in Items(commitQueue) => o \in resolved[q]

(* A partition is first observed where the group had left off. *)
FetchedFromResolved ==
    \A q \in assigned : track[q].floor = None => 0 .. pos[q] - 1 \subseteq resolved[q]

(* Where the next commit of a partition fetched up to p would start. *)
Reached(st, p) ==
    IF st.safe # None THEN st.safe + 1
    ELSE IF st.floor # None THEN st.floor + 1
    ELSE p

GroupBehind ==
    member => \A q \in assigned : groupOffset[q] <= Reached(track[q], pos[q])

TrackInv ==
    /\ TrackerSound
    /\ NothingKeptForRevoked
    /\ CommittedIsResolved
    /\ InFlightObserved
    /\ QueuedIsResolved
    /\ FetchedFromResolved
    /\ GroupBehind
    /\ assigned \cap revoked = {}
    /\ pc = "down" => assigned = {}

PoolIInv == QueueInv /\ TrackInv
=============================================================================
