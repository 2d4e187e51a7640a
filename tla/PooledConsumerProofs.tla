------------------------- MODULE PooledConsumerProofs -------------------------
(***************************************************************************)
(* The pooled consumer for any number of partitions, workers and records.  *)
(* QueueInv is inductive as it stands and bounds the commit queue.         *)
(* TrackInv is inductive with it when revoked partitions do not come back  *)
(* (Reassign = FALSE), and gives what may be committed.                    *)
(***************************************************************************)
EXTENDS PooledConsumer, OffsetTrackerProofs, FiniteSetTheorems

USE DEF groupVars, clientVars, loopVars, workVars, trackVars

-----------------------------------------------------------------------------
(* Sizes of the pool are natural numbers. *)
LEMMA PoolSizes ==
    /\ Cardinality(Worker) \in Nat
    /\ QueueBound \in Nat
    /\ QueueBound = 2 * Cardinality(Worker)
BY FS_CardinalityType, PoolAssumption DEF QueueBound

(* The busy workers are counted. *)
LEMMA BusySize ==
    /\ IsFiniteSet(Busy)
    /\ Cardinality(Busy) \in Nat
    /\ Cardinality(Busy) <= Cardinality(Worker)
<1>1. Busy \in SUBSET Worker
  BY DEF Busy
<1> QED BY <1>1, FS_Subset, FS_CardinalityType, PoolAssumption

(* What leaves a queue was in it, and what joins it is the only new item. *)
LEMMA QueueItems ==
    ASSUME NEW S, NEW s \in Seq(S)
    PROVE  /\ Items(<<>>) = {}
           /\ \A e \in S : Append(s, e) \in Seq(S) /\ Items(Append(s, e)) = Items(s) \cup {e}
           /\ s # <<>> => /\ Head(s) \in Items(s) /\ Head(s) \in S
                         /\ Tail(s) \in Seq(S)
                         /\ Items(Tail(s)) \subseteq Items(s)
<1>1. Items(<<>>) = {}
  BY DEF Items
<1>2. ASSUME NEW e \in S
      PROVE  Append(s, e) \in Seq(S) /\ Items(Append(s, e)) = Items(s) \cup {e}
  <2>1. /\ Append(s, e) \in Seq(S) /\ Len(Append(s, e)) = Len(s) + 1 /\ Len(s) \in Nat
        /\ \A i \in 1 .. Len(s) : Append(s, e)[i] = s[i]
        /\ Append(s, e)[Len(s) + 1] = e
    OBVIOUS
  <2>2. 1 .. Len(s) + 1 = (1 .. Len(s)) \cup {Len(s) + 1}
    BY <2>1
  <2> QED BY <2>1, <2>2 DEF Items
<1>3. ASSUME s # <<>>
      PROVE  /\ Head(s) \in Items(s) /\ Head(s) \in S
             /\ Tail(s) \in Seq(S)
             /\ Items(Tail(s)) \subseteq Items(s)
  <2>1. /\ Head(s) = s[1] /\ Len(s) \in Nat \ {0}
        /\ Tail(s) \in Seq(S) /\ Len(Tail(s)) = Len(s) - 1
        /\ \A i \in 1 .. Len(s) - 1 : Tail(s)[i] = s[i + 1]
    BY <1>3
  <2>2. \A i \in 1 .. Len(s) - 1 : i + 1 \in 1 .. Len(s)
    BY <2>1
  <2>3. 1 \in 1 .. Len(s) /\ s[1] \in S
    BY <2>1
  <2> QED BY <2>1, <2>2, <2>3 DEF Items
<1> QED BY <1>1, <1>2, <1>3

-----------------------------------------------------------------------------
(* A disturbance is counted once. *)
LEMMA FaultType ==
    ASSUME TypeOK, NEW k, Fault(k)
    PROVE  budget' \in 0 .. load.faults /\ budget' = budget - 1 /\ budget \in Nat
BY PoolAssumption DEF TypeOK, Fault

(* A commit call writes safe offsets of its own partitions, or nothing. *)
LEMMA FlushWrites ==
    ASSUME TypeOK, NEW tr, \A q \in Partition : tr[q] \in PartitionState,
           NEW only \in SUBSET Partition, NEW ok, Flush(tr, only, ok)
    PROVE  /\ groupOffset' \in [Partition -> 0 .. LogEnd]
           /\ budget' \in 0 .. load.faults /\ budget' <= budget
           /\ \A q \in Partition :
                \/ groupOffset'[q] = groupOffset[q]
                \/ /\ member /\ q \in only /\ HasUncommitted(tr[q])
                   /\ groupOffset'[q] = tr[q].safe + 1
<1> DEFINE due == {q \in only : HasUncommitted(tr[q])}
<1>1. \/ UNCHANGED groupOffset
      \/ member /\ \E Q \in SUBSET due : groupOffset' = Applied(tr, Q)
  BY DEF Flush
<1>2. budget' \in 0 .. load.faults /\ budget' <= budget
  BY PoolAssumption DEF Flush, Fault, TypeOK
<1>3. CASE UNCHANGED groupOffset
  BY <1>2, <1>3 DEF TypeOK
<1>4. ASSUME member, NEW Q \in SUBSET due, groupOffset' = Applied(tr, Q)
      PROVE  /\ groupOffset' \in [Partition -> 0 .. LogEnd]
             /\ \A q \in Partition :
                  \/ groupOffset'[q] = groupOffset[q]
                  \/ /\ member /\ q \in only /\ HasUncommitted(tr[q])
                     /\ groupOffset'[q] = tr[q].safe + 1
  <2>1. \A q \in due : tr[q].safe + 1 \in 0 .. LogEnd
    BY LogEndAssumption DEF HasUncommitted, PartitionState, MaybeOffset, None
  <2>2. \A q \in Partition : groupOffset[q] \in 0 .. LogEnd
    BY DEF TypeOK
  <2> QED BY <1>4, <2>1, <2>2 DEF Applied
<1> QED BY <1>1, <1>2, <1>3, <1>4

(* flush_pending on the poll thread. *)
LEMMA FlushAllType ==
    ASSUME TypeOK, NEW tr, \A q \in Partition : tr[q] \in PartitionState,
           tr \in [Partition -> PartitionState],
           NEW n \in 0 .. BatchSize, NEW next \in PC, FlushAll(tr, n, next)
    PROVE  /\ groupOffset' \in [Partition -> 0 .. LogEnd]
           /\ track' \in [Partition -> PartitionState]
           /\ sinceFlush' \in 0 .. BatchSize
           /\ pc' \in {next, "closing"}
           /\ budget' \in 0 .. load.faults /\ budget' <= budget
<1>1. PICK ok \in BOOLEAN :
        /\ Flush(tr, Partition, ok)
        /\ track' = IF ok THEN [q \in Partition |-> MarkCommitted(tr[q])] ELSE tr
        /\ sinceFlush' = IF ok THEN 0 ELSE n
        /\ pc' = IF ok THEN next ELSE "closing"
  BY DEF FlushAll
<1>2. \A q \in Partition : MarkCommitted(tr[q]) \in PartitionState
  BY DEF MarkCommitted, PartitionState
<1>3. track' \in [Partition -> PartitionState]
  BY <1>1, <1>2
<1>4. sinceFlush' \in 0 .. BatchSize
  BY <1>1, PoolAssumption
<1> QED BY <1>1, <1>3, <1>4, FlushWrites
-----------------------------------------------------------------------------
(* The queues: as long as they and the workers are left alone, the control *)
(* points may only change in the direction that allows more.               *)
LEMMA BacklogKept ==
    ASSUME QueueInv, UNCHANGED <<workQueue, commitQueue, doing>>,
           pc' \in {"check", "poll", "put", "drain"} => pc \in {"check", "poll", "put", "drain"},
           pc' \in {"check", "poll"} => pc \in {"check", "poll"},
           pc' = "put" => pc \in {"poll", "put"}
    PROVE  \E n \in 0 .. Len(workQueue') : (RecordsFirst(n) /\ WithinBacklog(n))'
<1>1. PICK n \in 0 .. Len(workQueue) : RecordsFirst(n) /\ WithinBacklog(n)
  BY DEF QueueInv
<1>2. Busy' = Busy
  BY DEF Busy
<1>3. Len(commitQueue) \in Nat /\ Len(workQueue) \in Nat /\ n \in Nat
  BY <1>1 DEF QueueInv, TypeOK
<1>4. WithinBacklog(n)'
  BY <1>1, <1>2, <1>3, PoolSizes, BusySize DEF WithinBacklog, QueueBound
<1>5. RecordsFirst(n)'
  BY <1>1 DEF RecordsFirst
<1> QED BY <1>1, <1>4, <1>5

(* No records, no sentinels: the state of a process that starts. *)
LEMMA BacklogReset ==
    ASSUME workQueue' = <<>>, commitQueue' = <<>>, pc' # "put",
           \A w \in Worker : doing'[w] \in {Idle, Exited}
    PROVE  \E n \in 0 .. Len(workQueue') : (RecordsFirst(n) /\ WithinBacklog(n))'
<1>1. Busy' = {}
  BY PoolAssumption DEF Busy, Record
<1>2. Cardinality(Busy') = 0
  BY <1>1, FS_EmptySet
<1>3. WithinBacklog(0)'
  BY <1>2, PoolSizes DEF WithinBacklog
<1>4. RecordsFirst(0)'
  BY DEF RecordsFirst
<1> QED BY <1>3, <1>4

(* The first process starts from nothing. *)
LEMMA QueueInit == Init => QueueInv
<1> SUFFICES ASSUME Init PROVE QueueInv
  OBVIOUS
<1> USE DEF Init
<1>1. load.faults \in Nat /\ load \in Loads
  BY PoolAssumption
<1>2. TypeOK
  <2>1. NewPartition \in PartitionState
    BY LogEndAssumption DEF NewPartition, PartitionState, MaybeOffset, None
  <2> HIDE DEF NewPartition
  <2>2. /\ workQueue \in Seq(Record \cup {STOP}) /\ Len(workQueue) <= QueueBound
        /\ commitQueue \in Seq(Record)
    BY PoolSizes
  <2>3. /\ groupOffset \in [Partition -> 0 .. LogEnd] /\ pos \in [Partition -> 0 .. LogEnd]
        /\ stops \in 0 .. Cardinality(Worker) /\ errors \in 0 .. load.faults
        /\ sinceFlush \in 0 .. BatchSize /\ budget \in 0 .. load.faults
    BY <1>1, LogEndAssumption, PoolAssumption, PoolSizes
  <2> QED BY <1>1, <2>1, <2>2, <2>3 DEF TypeOK, PC
<1>3. RecordsFirst(0)
  BY DEF RecordsFirst
<1>4. Busy = {}
  BY PoolAssumption DEF Busy, Record
<1>5. WithinBacklog(0)
  <2>1. Cardinality(Busy) = 0
    BY <1>4, FS_EmptySet
  <2> QED BY <2>1, PoolSizes DEF WithinBacklog
<1> QED BY <1>1, <1>2, <1>3, <1>4, <1>5 DEF QueueInv

(* The process starts, its memory empty. *)
LEMMA QueueStart ==
    ASSUME QueueInv, Start \/ StartFails, UNCHANGED load
    PROVE  QueueInv'
<1> USE DEF QueueInv, Start, StartFails
<1>1. TypeOK'
  <2>1. budget' \in 0 .. load.faults
    BY FaultType DEF TypeOK
  <2> QED BY <2>1 DEF TypeOK, PC
<1>2. errors' + budget' <= load.faults'
  BY FaultType, PoolAssumption DEF TypeOK
<1>3. \E n \in 0 .. Len(workQueue') : (RecordsFirst(n) /\ WithinBacklog(n))'
  BY BacklogReset
<1> QED BY <1>1, <1>2, <1>3
(* The loop's control points, a signal and an eviction. *)
LEMMA QueueControl ==
    ASSUME QueueInv, UNCHANGED load,
           Check \/ PollNone \/ PollFails \/ Join \/ SessionLost \/ Signal
    PROVE  QueueInv'
<1> USE DEF QueueInv, Check, PollNone, PollFails, Join, SessionLost, Signal
<1>1. TypeOK'
  <2>1. budget' \in 0 .. load.faults
    BY FaultType DEF TypeOK
  <2>2. errors' \in 0 .. load.faults /\ stops' \in 0 .. Cardinality(Worker)
    BY PoolSizes, PoolAssumption DEF TypeOK
  <2>3. pc' \in PC
    BY DEF TypeOK, PC
  <2>4. member' \in BOOLEAN /\ shutdown' \in BOOLEAN
    BY DEF TypeOK
  <2> QED BY <2>1, <2>2, <2>3, <2>4 DEF TypeOK
<1>2. errors' + budget' <= load.faults'
  BY FaultType, PoolAssumption DEF TypeOK
<1>3. \E n \in 0 .. Len(workQueue') : (RecordsFirst(n) /\ WithinBacklog(n))'
  BY BacklogKept
<1> QED BY <1>1, <1>2, <1>3

(* Rebalances: the queues are not touched inside poll(). *)
LEMMA QueueRebalance ==
    ASSUME QueueInv, UNCHANGED load,
           OnLost \/ \E q \in Partition : OnAssign(q) \/ OnRevoke(q)
    PROVE  QueueInv'
<1> USE DEF QueueInv, OnLost, OnAssign, OnRevoke, Drop
<1>0. NewPartition \in PartitionState
  BY LogEndAssumption DEF NewPartition, PartitionState, MaybeOffset, None
<1>1. TypeOK'
  <2>1. budget' \in 0 .. load.faults
    BY FaultType DEF TypeOK
  <2>2. groupOffset' \in [Partition -> 0 .. LogEnd]
    <3>1. ASSUME NEW q \in Partition, OnRevoke(q)
          PROVE  groupOffset' \in [Partition -> 0 .. LogEnd]
      <4> DEFINE due == {q} \cap {r \in assigned : HasUncommitted(track[r])}
      <4>1. groupOffset' = groupOffset \/ groupOffset' = Applied(track, due)
        BY <3>1
      <4>2. \A r \in due : track[r].safe + 1 \in 0 .. LogEnd
        BY LogEndAssumption DEF TypeOK, HasUncommitted, PartitionState, MaybeOffset, None
      <4> HIDE DEF due
      <4> QED BY <4>1, <4>2 DEF Applied, TypeOK
    <3> QED BY <3>1 DEF TypeOK
  <2>3. track' \in [Partition -> PartitionState]
    BY <1>0 DEF TypeOK
  <2>4. pos' \in [Partition -> 0 .. LogEnd]
    BY DEF TypeOK
  <2>5. /\ pc' \in PC /\ member' \in BOOLEAN /\ assigned' \subseteq Partition
        /\ revoked' \subseteq Partition
    BY DEF TypeOK, PC
  <2> QED BY <2>1, <2>2, <2>3, <2>4, <2>5 DEF TypeOK
<1>2. errors' + budget' <= load.faults'
  <2>1. errors' = errors /\ load' = load
    OBVIOUS
  <2>2. UNCHANGED budget \/ Fault("rebalance")
    OBVIOUS
  <2>3. budget' = budget \/ budget' = budget - 1
    BY <2>2 DEF Fault
  <2>4. errors \in Nat /\ budget \in Nat /\ load.faults \in Nat
    BY PoolAssumption DEF TypeOK
  <2> QED BY <2>1, <2>3, <2>4
<1>3. \E n \in 0 .. Len(workQueue') : (RecordsFirst(n) /\ WithinBacklog(n))'
  BY BacklogKept
<1> QED BY <1>1, <1>2, <1>3

(* A record polled is one of the partition's, and is queued next. *)
LEMMA QueueFetch ==
    ASSUME QueueInv, UNCHANGED load, NEW q \in Partition, PollRecord(q)
    PROVE  QueueInv'
<1> USE DEF QueueInv, PollRecord
<1>1. pos[q] \in Offset /\ pos[q] + 1 \in 0 .. LogEnd
  <2>1. load.end[q] \in 0 .. LogEnd
    BY PoolAssumption DEF TypeOK
  <2> QED BY <2>1, LogEndAssumption DEF TypeOK, Offset
<1>2. held' \in Record
  BY <1>1 DEF Record
<1>3. TypeOK'
  <2>1. Observe(track[q], pos[q]) \in PartitionState
    BY <1>1, TrackerType DEF TypeOK
  <2>2. track' \in [Partition -> PartitionState]
    BY <2>1 DEF TypeOK
  <2>3. pos' \in [Partition -> 0 .. LogEnd]
    BY <1>1 DEF TypeOK
  <2> QED BY <1>2, <2>2, <2>3 DEF TypeOK, PC
<1>4. \E n \in 0 .. Len(workQueue') : (RecordsFirst(n) /\ WithinBacklog(n))'
  BY BacklogKept
<1> QED BY <1>2, <1>3, <1>4

(* The flushes outside drain_commits, and what other instances do. *)
LEMMA QueueFlush ==
    ASSUME QueueInv, UNCHANGED load,
           IdleFlush \/ Close \/ \E q \in Partition : Elsewhere(q)
    PROVE  QueueInv'
<1> USE DEF QueueInv
<1>0. \A q \in Partition : track[q] \in PartitionState
  BY DEF TypeOK
<1>1. CASE IdleFlush
  <2>1. FlushAll(track, sinceFlush, "drain")
    BY <1>1 DEF IdleFlush
  <2>2. /\ groupOffset' \in [Partition -> 0 .. LogEnd]
        /\ track' \in [Partition -> PartitionState]
        /\ sinceFlush' \in 0 .. BatchSize
        /\ pc' \in {"drain", "closing"}
        /\ budget' \in 0 .. load.faults /\ budget' <= budget
    BY <1>0, <2>1, FlushAllType DEF TypeOK, PC
  <2>3. TypeOK'
    BY <1>1, <2>2 DEF TypeOK, IdleFlush, PC
  <2>4. errors' + budget' <= load.faults'
    BY <1>1, <2>2, PoolAssumption DEF TypeOK, IdleFlush
  <2>5. \E n \in 0 .. Len(workQueue') : (RecordsFirst(n) /\ WithinBacklog(n))'
    BY <1>1, <2>2, BacklogKept DEF IdleFlush
  <2> QED BY <2>2, <2>3, <2>4, <2>5
<1>2. CASE Close
  <2>1. /\ groupOffset' \in [Partition -> 0 .. LogEnd]
        /\ budget' \in 0 .. load.faults /\ budget' <= budget
    BY <1>0, <1>2, FlushWrites DEF Close
  <2>2. TypeOK'
    BY <1>2, <2>1 DEF TypeOK, Close, PC
  <2>3. errors' + budget' <= load.faults'
    BY <1>2, <2>1, PoolAssumption DEF TypeOK, Close
  <2>4. \E n \in 0 .. Len(workQueue') : (RecordsFirst(n) /\ WithinBacklog(n))'
    BY <1>2, BacklogKept DEF Close
  <2> QED BY <1>2, <2>2, <2>3, <2>4 DEF Close
<1>3. ASSUME NEW q \in Partition, Elsewhere(q) PROVE QueueInv'
  <2>1. load.end[q] \in 0 .. LogEnd
    BY PoolAssumption DEF TypeOK
  <2>2. groupOffset[q] \in Offset /\ groupOffset[q] + 1 \in 0 .. LogEnd
    BY <1>3, <2>1, LogEndAssumption DEF Elsewhere, TypeOK, Offset
  <2>3. TypeOK'
    BY <1>3, <2>2 DEF TypeOK, Elsewhere
  <2>4. \E n \in 0 .. Len(workQueue') : (RecordsFirst(n) /\ WithinBacklog(n))'
    BY <1>3, BacklogKept DEF Elsewhere
  <2> QED BY <1>3, <2>3, <2>4 DEF Elsewhere, Busy
<1> QED BY <1>1, <1>2, <1>3

(* The process ends and its memory is gone. *)
LEMMA QueueGone ==
    ASSUME QueueInv, UNCHANGED load, Restart \/ Crash
    PROVE  QueueInv'
<1> USE DEF QueueInv, Restart, Crash, Gone
<1>1. TypeOK'
  <2>1. NewPartition \in PartitionState
    BY LogEndAssumption DEF NewPartition, PartitionState, MaybeOffset, None
  <2> HIDE DEF NewPartition
  <2>0. workQueue' = <<>> /\ commitQueue' = <<>>
    OBVIOUS
  <2>2. /\ workQueue' \in Seq(Record \cup {STOP}) /\ Len(workQueue') <= QueueBound
        /\ commitQueue' \in Seq(Record)
    <3> HIDE DEF QueueInv, Restart, Crash, Gone
    <3> QED BY <2>0, PoolSizes
  <2>3. /\ pos' \in [Partition -> 0 .. LogEnd]
        /\ stops' \in 0 .. Cardinality(Worker) /\ errors' \in 0 .. load.faults
        /\ sinceFlush' \in 0 .. BatchSize
    BY LogEndAssumption, PoolAssumption, PoolSizes DEF TypeOK
  <2>4. budget' \in 0 .. load.faults
    BY FaultType DEF TypeOK
  <2>5. /\ groupOffset' = groupOffset /\ resolved' = resolved /\ member' \in BOOLEAN
        /\ shutdown' = FALSE /\ pc' = "down" /\ assigned' = {} /\ revoked' = {}
        /\ held' = NoRecord /\ doing' = [w \in Worker |-> Exited]
        /\ track' = [q \in Partition |-> NewPartition]
    BY DEF TypeOK
  <2> QED BY <2>1, <2>2, <2>3, <2>4, <2>5 DEF TypeOK, PC
<1>2. errors' + budget' <= load.faults'
  BY FaultType, PoolAssumption DEF TypeOK
<1>3. \E n \in 0 .. Len(workQueue') : (RecordsFirst(n) /\ WithinBacklog(n))'
  BY BacklogReset
<1>4. Busy' = {}
  BY PoolAssumption DEF Busy, Record
<1> QED BY <1>1, <1>2, <1>3, <1>4
-----------------------------------------------------------------------------
(* work_queue.put of a record: it moves from the thread to the queue. *)
LEMMA QueuePut ==
    ASSUME QueueInv, UNCHANGED load, Put
    PROVE  QueueInv'
<1> USE DEF QueueInv, Put
<1>1. held \in Record /\ held # STOP
  BY PoolAssumption DEF Record
<1>2. /\ workQueue \in Seq(Record \cup {STOP}) /\ workQueue' = Append(workQueue, held)
      /\ Len(workQueue) < QueueBound /\ Len(commitQueue) \in Nat
      /\ workQueue' \in Seq(Record \cup {STOP}) /\ Len(workQueue') = Len(workQueue) + 1
      /\ Len(workQueue) \in Nat
  BY <1>1 DEF TypeOK
<1>3. TypeOK'
  BY <1>2, PoolSizes DEF TypeOK, PC
<1>4. PICK k \in Nat : k = Len(workQueue) /\ RecordsFirst(k) /\ WithinBacklog(k)
  BY <1>2 DEF RecordsFirst
<1>5. pc = "put" /\ pc' = "drain" /\ commitQueue' = commitQueue /\ Busy' = Busy
  BY DEF Busy
<1>6. errors' + budget' <= load.faults'
  OBVIOUS
<1> HIDE DEF QueueInv, Put
<1>7. RecordsFirst(k + 1)'
  <2>1. ASSUME NEW i \in 1 .. k + 1 PROVE workQueue'[i] # STOP
    <3>1. CASE i <= k
      BY <1>2, <1>4, <3>1 DEF RecordsFirst
    <3>2. CASE i = k + 1
      BY <1>1, <1>2, <1>4, <3>2
    <3> QED BY <1>4, <3>1, <3>2
  <2>2. \A i \in 1 .. k + 1 : ~(i > k + 1)
    BY <1>4
  <2> QED BY <1>2, <1>4, <2>1, <2>2 DEF RecordsFirst
<1>8. WithinBacklog(k + 1)'
  BY <1>2, <1>4, <1>5, PoolSizes, BusySize DEF WithinBacklog, QueueBound
<1>9. k + 1 \in 0 .. Len(workQueue')
  BY <1>2, <1>4
<1> QED BY <1>3, <1>5, <1>6, <1>7, <1>8, <1>9 DEF QueueInv

(* One sentinel per worker, behind the records. *)
LEMMA QueuePutStop ==
    ASSUME QueueInv, UNCHANGED load, PutStop
    PROVE  QueueInv'
<1> USE DEF QueueInv
<1>1. CASE stops = 0 /\ pc' = "join" /\ UNCHANGED <<workQueue, stops>>
  <2>1. TypeOK'
    BY <1>1 DEF TypeOK, PC, PutStop
  <2>2. \E n \in 0 .. Len(workQueue') : (RecordsFirst(n) /\ WithinBacklog(n))'
    BY <1>1, BacklogKept DEF PutStop
  <2> QED BY <1>1, <2>1, <2>2 DEF PutStop
<1>2. CASE /\ stops > 0 /\ Len(workQueue) < QueueBound
           /\ workQueue' = Append(workQueue, STOP) /\ stops' = stops - 1 /\ UNCHANGED pc
  <2>1. /\ workQueue \in Seq(Record \cup {STOP}) /\ Len(workQueue) \in Nat
        /\ workQueue' \in Seq(Record \cup {STOP}) /\ Len(workQueue') = Len(workQueue) + 1
        /\ pc = "stop"
    BY <1>2 DEF TypeOK, PutStop
  <2>2. TypeOK'
    BY <1>2, <2>1, PoolSizes DEF TypeOK, PutStop
  <2>3. PICK n \in 0 .. Len(workQueue) : RecordsFirst(n) /\ WithinBacklog(n)
    OBVIOUS
  <2>4. RecordsFirst(n)'
    <3> SUFFICES ASSUME NEW i \in 1 .. Len(workQueue) + 1
                 PROVE  workQueue'[i] = STOP <=> i > n
      BY <1>2, <2>1 DEF RecordsFirst
    <3>1. CASE i <= Len(workQueue)
      BY <1>2, <2>1, <2>3, <3>1 DEF RecordsFirst
    <3>2. CASE i = Len(workQueue) + 1
      BY <1>2, <2>1, <2>3, <3>2
    <3> QED BY <2>1, <3>1, <3>2
  <2>5. WithinBacklog(n)'
    <3>1. Busy' = Busy /\ commitQueue' = commitQueue /\ pc' = pc
      BY <1>2 DEF Busy, PutStop
    <3> QED BY <2>3, <3>1 DEF WithinBacklog
  <2> QED BY <1>2, <2>1, <2>2, <2>3, <2>4, <2>5 DEF PutStop
<1> QED BY <1>1, <1>2 DEF PutStop

(* drain_commits finds the queue empty: what is left is in the work queue  *)
(* and with the workers.                                                   *)
LEMMA QueueDrainEnd ==
    ASSUME QueueInv, UNCHANGED load, DrainEnd
    PROVE  QueueInv'
<1> USE DEF QueueInv, DrainEnd
<1>1. TypeOK'
  BY DEF TypeOK, PC, AfterDrain
<1>2. PICK n \in 0 .. Len(workQueue) : RecordsFirst(n) /\ WithinBacklog(n)
  OBVIOUS
<1>3. RecordsFirst(n)'
  BY <1>2 DEF RecordsFirst, AfterDrain
<1>4. WithinBacklog(n)'
  <2>1. Busy' = Busy
    BY DEF Busy
  <2>2. Len(commitQueue') = 0 /\ Len(workQueue) <= QueueBound /\ Len(workQueue) \in Nat
    BY DEF TypeOK
  <2>3. pc' \in {"check", "closing"}
    BY DEF AfterDrain
  <2> QED BY <1>2, <2>1, <2>2, <2>3, PoolSizes, BusySize DEF WithinBacklog, QueueBound
<1> QED BY <1>1, <1>2, <1>3, <1>4 DEF AfterDrain

(* The tracker after one completion. *)
LEMMA DrainedTrackType ==
    ASSUME TypeOK, commitQueue # <<>>
    PROVE  LET q == Head(commitQueue)[1]
               o == Head(commitQueue)[2]
           IN  /\ Head(commitQueue) = <<q, o>> /\ q \in Partition /\ o \in Offset
               /\ Head(commitQueue) \in Items(commitQueue)
               /\ [track EXCEPT ![q] = MarkTerminal(track[q], o)] \in [Partition -> PartitionState]
               /\ Tail(commitQueue) \in Seq(Record) /\ Len(Tail(commitQueue)) = Len(commitQueue) - 1
               /\ Items(Tail(commitQueue)) \subseteq Items(commitQueue)
<1>1. commitQueue \in Seq(Record)
  BY DEF TypeOK
<1>2. /\ Head(commitQueue) \in Record /\ Head(commitQueue) \in Items(commitQueue)
      /\ Tail(commitQueue) \in Seq(Record) /\ Items(Tail(commitQueue)) \subseteq Items(commitQueue)
  BY <1>1, QueueItems
<1>3. Len(Tail(commitQueue)) = Len(commitQueue) - 1
  BY <1>1
<1> DEFINE q == Head(commitQueue)[1]
           o == Head(commitQueue)[2]
<1>4. Head(commitQueue) = <<q, o>> /\ q \in Partition /\ o \in Offset
  BY <1>2 DEF Record
<1> HIDE DEF q, o
<1>5. MarkTerminal(track[q], o) \in PartitionState
  BY <1>4, TrackerType DEF TypeOK
<1>6. [track EXCEPT ![q] = MarkTerminal(track[q], o)] \in [Partition -> PartitionState]
  BY <1>4, <1>5 DEF TypeOK
<1> QED BY <1>2, <1>3, <1>4, <1>6 DEF q, o

(* One round of drain_commits takes one record out of the process. *)
LEMMA QueueDrainOne ==
    ASSUME QueueInv, UNCHANGED load, DrainOne
    PROVE  QueueInv'
<1> USE DEF QueueInv
<1> DEFINE q  == Head(commitQueue)[1]
           tr == [track EXCEPT ![q] = MarkTerminal(track[q], Head(commitQueue)[2])]
           m  == Bump(sinceFlush)
<1>1. /\ pc \in {"drain", "finalDrain"} /\ commitQueue # <<>>
      /\ commitQueue' = Tail(commitQueue)
      /\ UNCHANGED <<member, resolved, clientVars, loopVars, workQueue, errors, doing, shutdown>>
  BY DEF DrainOne
<1>2. /\ tr \in [Partition -> PartitionState] /\ commitQueue' \in Seq(Record)
      /\ Len(commitQueue') = Len(commitQueue) - 1
  BY <1>1, DrainedTrackType
<1>3. m \in 0 .. BatchSize
  BY PoolAssumption DEF Bump, TypeOK
<1>4. \/ pc' = "closing" /\ UNCHANGED <<groupOffset, trackVars, budget>>
      \/ track' = tr /\ sinceFlush' = m /\ UNCHANGED <<groupOffset, pc, budget>>
      \/ FlushAll(tr, m, pc)
  BY DEF DrainOne
<1> HIDE DEF tr, m, q
<1>5. /\ groupOffset' \in [Partition -> 0 .. LogEnd]
      /\ track' \in [Partition -> PartitionState]
      /\ sinceFlush' \in 0 .. BatchSize
      /\ pc' \in {pc, "closing"}
      /\ budget' \in 0 .. load.faults /\ budget' <= budget
  <2>1. CASE pc' = "closing" /\ UNCHANGED <<groupOffset, trackVars, budget>>
    BY <2>1, PoolAssumption DEF TypeOK
  <2>2. CASE track' = tr /\ sinceFlush' = m /\ UNCHANGED <<groupOffset, pc, budget>>
    BY <1>2, <1>3, <2>2, PoolAssumption DEF TypeOK
  <2>3. CASE FlushAll(tr, m, pc)
    <3>1. pc \in PC /\ \A r \in Partition : tr[r] \in PartitionState
      BY <1>2 DEF TypeOK
    <3> QED BY <1>2, <1>3, <2>3, <3>1, FlushAllType
  <2> QED BY <1>4, <2>1, <2>2, <2>3
<1>6. TypeOK'
  BY <1>1, <1>2, <1>5 DEF TypeOK, PC
<1>7. errors' + budget' <= load.faults'
  BY <1>1, <1>5, PoolAssumption DEF TypeOK
<1>8. PICK n \in 0 .. Len(workQueue) : RecordsFirst(n) /\ WithinBacklog(n)
  OBVIOUS
<1>9. RecordsFirst(n)'
  BY <1>1, <1>5, <1>8 DEF RecordsFirst
<1>10. WithinBacklog(n)'
  <2>1. Busy' = Busy
    BY <1>1 DEF Busy
  <2>2. Len(commitQueue) \in Nat /\ n \in Nat
    BY <1>8 DEF TypeOK
  <2>3. pc \in {"drain", "finalDrain"} /\ pc' \in {"drain", "finalDrain", "closing"}
    BY <1>1, <1>5
  <2> HIDE DEF QueueInv
  <2> QED BY <1>2, <1>8, <2>1, <2>2, <2>3, PoolSizes, BusySize DEF WithinBacklog, QueueBound
<1> QED BY <1>1, <1>5, <1>6, <1>7, <1>8, <1>9, <1>10

(* A worker takes an item: a record makes it busy, a sentinel ends it. *)
LEMMA QueueTake ==
    ASSUME QueueInv, UNCHANGED load, NEW w \in Worker, Take(w)
    PROVE  QueueInv'
<1> USE DEF QueueInv, Take
<1> DEFINE h == Head(workQueue)
<1>1. /\ workQueue \in Seq(Record \cup {STOP}) /\ Len(workQueue) \in Nat \ {0}
      /\ h = workQueue[1] /\ h \in Record \cup {STOP}
      /\ workQueue' \in Seq(Record \cup {STOP}) /\ Len(workQueue') = Len(workQueue) - 1
      /\ \A i \in 1 .. Len(workQueue') : workQueue'[i] = workQueue[i + 1]
  BY DEF TypeOK
<1>2. doing' = [doing EXCEPT ![w] = IF h = STOP THEN Exited ELSE h]
  OBVIOUS
<1> HIDE DEF h
<1>3. TypeOK'
  <2>1. doing' \in [Worker -> Record \cup {Idle, Exited}]
    BY <1>1, <1>2 DEF TypeOK
  <2>2. Len(workQueue') <= QueueBound
    BY <1>1, PoolSizes DEF TypeOK
  <2> QED BY <1>1, <2>1, <2>2 DEF TypeOK
<1>4. PICK n \in 0 .. Len(workQueue) : RecordsFirst(n) /\ WithinBacklog(n)
  OBVIOUS
<1>5. w \notin Busy /\ STOP \notin Record /\ Exited \notin Record
  BY PoolAssumption DEF Busy, Record
<1>6. /\ Len(commitQueue) \in Nat /\ pc # "down" /\ UNCHANGED <<pc, commitQueue>>
      /\ pc' = "put" => held' \in Record
      /\ errors' + budget' <= load.faults'
  BY DEF TypeOK
<1>7. /\ \A i \in 1 .. Len(workQueue) : workQueue[i] = STOP <=> i > n
      /\ pc \in {"check", "poll", "put", "drain"} => n = Len(workQueue)
  BY <1>4 DEF RecordsFirst
<1>8. doing \in [Worker -> Record \cup {Idle, Exited}]
  BY DEF TypeOK
<1> HIDE DEF QueueInv, Take
<1>9. CASE h = STOP
  <2>1. 1 \in 1 .. Len(workQueue) /\ workQueue[1] = STOP /\ n \in Nat
    BY <1>1, <1>4, <1>9
  <2>2. 1 > n
    BY <1>7, <2>1
  <2>3. n = 0
    BY <2>1, <2>2
  <2>4. \A i \in 1 .. Len(workQueue') : workQueue'[i] = STOP /\ i > 0
    BY <1>1, <1>7, <2>3
  <2>5. RecordsFirst(0)'
    BY <1>1, <1>6, <1>7, <2>3, <2>4 DEF RecordsFirst
  <2>6. Busy' = Busy
    BY <1>2, <1>5, <1>8, <1>9 DEF Busy
  <2>7. WithinBacklog(0)'
    BY <1>4, <1>6, <2>3, <2>6 DEF WithinBacklog
  <2> QED BY <1>1, <1>3, <1>6, <2>5, <2>7 DEF QueueInv
<1>10. CASE h # STOP
  <2>1. n >= 1 /\ h \in Record
    BY <1>1, <1>4, <1>7, <1>10
  <2>2. \A i \in 1 .. Len(workQueue') : workQueue'[i] = STOP <=> i > n - 1
    <3> TAKE i \in 1 .. Len(workQueue')
    <3>1. i + 1 \in 1 .. Len(workQueue) /\ workQueue'[i] = workQueue[i + 1]
      BY <1>1
    <3> QED BY <1>1, <1>7, <3>1
  <2>3. RecordsFirst(n - 1)'
    BY <1>1, <1>6, <1>7, <2>2 DEF RecordsFirst
  <2>4. Busy' = Busy \cup {w}
    BY <1>2, <1>8, <1>10, <2>1 DEF Busy
  <2>5. Cardinality(Busy') = Cardinality(Busy) + 1
    BY <1>5, <2>4, BusySize, FS_AddElement
  <2>6. WithinBacklog(n - 1)'
    BY <1>4, <1>6, <2>1, <2>5, BusySize, PoolSizes DEF WithinBacklog, QueueBound
  <2>7. n - 1 \in 0 .. Len(workQueue')
    BY <1>1, <1>4, <2>1
  <2> QED BY <1>3, <1>6, <2>3, <2>6, <2>7 DEF QueueInv
<1> QED BY <1>9, <1>10

(* A worker is done with its record, which is queued for commit or not. *)
LEMMA QueueFinish ==
    ASSUME QueueInv, UNCHANGED load, NEW w \in Worker, Finish(w) \/ FinishBadly(w)
    PROVE  QueueInv'
<1> USE DEF QueueInv, Finish, FinishBadly
<1> DEFINE r == doing[w]
<1>1. r \in Record /\ w \in Busy /\ r[1] \in Partition /\ r[2] \in Offset
  BY DEF Busy, Record
<1>2. /\ doing' = [doing EXCEPT ![w] = Idle]
      /\ UNCHANGED <<groupOffset, member, clientVars, pc, loopVars, workQueue, trackVars, shutdown>>
      /\ \/ /\ commitQueue' = Append(commitQueue, r)
            /\ resolved' = [resolved EXCEPT ![r[1]] = @ \cup {r[2]}]
            /\ UNCHANGED <<errors, budget>>
         \/ /\ UNCHANGED <<commitQueue, resolved>>
            /\ budget > 0 /\ budget' = budget - 1
            /\ errors' \in {errors, errors + 1}
  BY DEF Fault
<1> HIDE DEF r, Finish, FinishBadly
<1>3. commitQueue \in Seq(Record) /\ Len(commitQueue) \in Nat
  BY DEF TypeOK
<1>4. commitQueue' \in Seq(Record) /\ Len(commitQueue') <= Len(commitQueue) + 1
      /\ Len(commitQueue') \in Nat
  BY <1>1, <1>2, <1>3
<1>5. /\ errors' \in 0 .. load.faults /\ budget' \in 0 .. load.faults
      /\ errors' + budget' <= load.faults
  BY <1>2, PoolAssumption DEF TypeOK
<1>6. TypeOK'
  <2>1. resolved' \in [Partition -> SUBSET Offset]
    <3>1. resolved \in [Partition -> SUBSET Offset]
      BY DEF TypeOK
    <3> HIDE DEF QueueInv
    <3> QED BY <1>1, <1>2, <3>1
  <2>2. doing' \in [Worker -> Record \cup {Idle, Exited}]
    BY <1>2 DEF TypeOK
  <2> QED BY <1>2, <1>4, <1>5, <2>1, <2>2 DEF TypeOK
<1>7. PICK n \in 0 .. Len(workQueue) : RecordsFirst(n) /\ WithinBacklog(n)
  OBVIOUS
<1>8. RecordsFirst(n)'
  BY <1>2, <1>7 DEF RecordsFirst
<1>9. WithinBacklog(n)'
  <2>1. Idle \notin Record
    BY PoolAssumption DEF Record
  <2>2. Busy' = Busy \ {w}
    BY <1>2, <2>1 DEF Busy, TypeOK
  <2>3. Cardinality(Busy') = Cardinality(Busy) - 1
    BY <1>1, <2>2, BusySize, FS_RemoveElement
  <2>4. n \in Nat /\ pc' = pc
    BY <1>2, <1>7 DEF TypeOK
  <2> HIDE DEF QueueInv
  <2> QED BY <1>3, <1>4, <1>7, <2>3, <2>4, BusySize, PoolSizes DEF WithinBacklog, QueueBound
<1>10. pc' # "down"
  BY <1>1, <1>2
<1> QED BY <1>2, <1>5, <1>6, <1>7, <1>8, <1>9, <1>10
-----------------------------------------------------------------------------
(* Every step keeps the queues within their bounds. *)
LEMMA QueueStep == QueueInv /\ [Next /\ UNCHANGED load]_<<vars, load>> => QueueInv'
<1> SUFFICES ASSUME QueueInv, [Next /\ UNCHANGED load]_<<vars, load>> PROVE QueueInv'
  OBVIOUS
<1>1. CASE PollThread /\ UNCHANGED load
  BY <1>1, QueueStart, QueueControl, QueueRebalance, QueueFetch, QueueFlush, QueuePut,
     QueueDrainOne, QueueDrainEnd, QueuePutStop, QueueGone DEF PollThread
<1>2. ASSUME NEW w \in Worker, Take(w) \/ Finish(w) \/ FinishBadly(w), UNCHANGED load
      PROVE  QueueInv'
  BY <1>2, QueueTake, QueueFinish
<1>3. ASSUME NEW q \in Partition, OnRevoke(q) \/ Elsewhere(q), UNCHANGED load
      PROVE  QueueInv'
  BY <1>3, QueueRebalance, QueueFlush
<1>4. CASE (StartFails \/ SessionLost \/ PollFails \/ Signal \/ Crash) /\ UNCHANGED load
  BY <1>4, QueueStart, QueueControl, QueueGone
<1>5. CASE UNCHANGED <<vars, load>>
  <2> USE <1>5 DEF vars
  <2>1. TypeOK'
    BY DEF QueueInv, TypeOK
  <2>2. Busy' = Busy
    BY DEF Busy
  <2>3. \E n \in 0 .. Len(workQueue') : (RecordsFirst(n) /\ WithinBacklog(n))'
    BY BacklogKept
  <2> QED BY <2>1, <2>2, <2>3 DEF QueueInv
<1> QED BY <1>1, <1>2, <1>3, <1>4, <1>5 DEF Next

(* The queue invariant holds in every reachable state. *)
THEOREM QueueInvHolds == Spec => []QueueInv
BY QueueInit, QueueStep, PTL DEF Spec

(* The unbounded commit queue never holds more than the work queue, the    *)
(* workers and one dispatch can have put there (main_pooled.py:244-247).   *)
THEOREM CommitBacklogBoundedHolds == Spec => []CommitBacklogBounded
<1>1. QueueInv => CommitBacklogBounded
  <2> SUFFICES ASSUME QueueInv PROVE CommitBacklogBounded
    OBVIOUS
  <2>1. PICK n \in 0 .. Len(workQueue) : WithinBacklog(n)
    BY DEF QueueInv
  <2>2. Len(commitQueue) \in Nat /\ n \in Nat
    BY <2>1 DEF QueueInv, TypeOK
  <2> QED BY <2>1, <2>2, PoolSizes, BusySize DEF WithinBacklog, CommitBacklogBounded
<1> QED BY <1>1, QueueInvHolds, PTL
-----------------------------------------------------------------------------
(* The tracker, when revoked partitions do not come back.  What a step     *)
(* must show of each partition if it leaves the assignment and the         *)
(* outcomes alone and brings no record into the process.                   *)
LEMMA TrackFrame ==
    ASSUME PoolIInv, UNCHANGED <<resolved, assigned, revoked, pos>>,
           member' => member, pc' = "down" => pc = "down", pc = "closed" => pc' = "closed",
           InFlight' \cap Record \subseteq InFlight,
           Items(commitQueue)' \subseteq Items(commitQueue),
           \A q \in Partition :
             /\ Sound(track'[q], resolved[q])
             /\ track'[q].floor = track[q].floor
             /\ pc' # "closed" /\ q \notin assigned => track'[q] = NewPartition
             /\ 0 .. groupOffset'[q] - 1 \subseteq resolved[q]
             /\ member' /\ q \in assigned => groupOffset'[q] <= Reached(track'[q], pos[q])
    PROVE  TrackInv'
<1> USE DEF PoolIInv, TrackInv
<1>1. TrackerSound' /\ CommittedIsResolved' /\ NothingKeptForRevoked'
  BY DEF TrackerSound, CommittedIsResolved, NothingKeptForRevoked
<1>2. InFlightObserved'
  <2> SUFFICES ASSUME NEW q \in Partition, NEW o \in Offset, <<q, o>> \in InFlight',
                      q \notin revoked'
               PROVE  track'[q].floor # None /\ (pc' # "closed" => q \in assigned')
    BY DEF InFlightObserved
  <2>1. <<q, o>> \in InFlight
    BY DEF Record
  <2> QED BY <2>1 DEF InFlightObserved
<1>3. QueuedIsResolved'
  BY DEF QueuedIsResolved
<1>4. assigned \subseteq Partition
  BY DEF QueueInv, TypeOK
<1>5. FetchedFromResolved' /\ GroupBehind'
  BY <1>4 DEF FetchedFromResolved, GroupBehind
<1> QED BY <1>1, <1>2, <1>3, <1>5

(* The state the tracker is in satisfies that already. *)
LEMMA TrackNow ==
    ASSUME PoolIInv, NEW q \in Partition
    PROVE  /\ track[q] \in PartitionState
           /\ Sound(track[q], resolved[q])
           /\ pc # "closed" /\ q \notin assigned => track[q] = NewPartition
           /\ 0 .. groupOffset[q] - 1 \subseteq resolved[q]
           /\ member /\ q \in assigned => groupOffset[q] <= Reached(track[q], pos[q])
BY DEF PoolIInv, TrackInv, QueueInv, TypeOK, TrackerSound, NothingKeptForRevoked,
       CommittedIsResolved, GroupBehind

(* The steps that leave tracker, group and assignment alone. *)
LEMMA TrackUntouched ==
    ASSUME PoolIInv,
           UNCHANGED <<groupOffset, resolved, assigned, revoked, pos, track>>,
           member' => member, pc' = "down" => pc = "down", pc = "closed" => pc' = "closed",
           InFlight' \cap Record \subseteq InFlight,
           Items(commitQueue)' \subseteq Items(commitQueue)
    PROVE  TrackInv'
<1>1. ASSUME NEW q \in Partition
      PROVE  /\ Sound(track'[q], resolved[q])
             /\ track'[q].floor = track[q].floor
             /\ pc' # "closed" /\ q \notin assigned => track'[q] = NewPartition
             /\ 0 .. groupOffset'[q] - 1 \subseteq resolved[q]
             /\ member' /\ q \in assigned => groupOffset'[q] <= Reached(track'[q], pos[q])
  BY TrackNow
<1> QED BY <1>1, TrackFrame

(* The loop's control points, a signal, an eviction, a failed start. *)
LEMMA TrackControl ==
    ASSUME PoolIInv,
           \/ Check \/ PollNone \/ PollFails \/ Join \/ SessionLost \/ Signal
           \/ DrainEnd \/ StartFails
    PROVE  TrackInv'
<1> USE DEF Check, PollNone, PollFails, Join, SessionLost, Signal, DrainEnd, StartFails,
            AfterDrain
<1>1. /\ UNCHANGED <<groupOffset, resolved, assigned, revoked, pos, track>>
      /\ member' => member
      /\ pc' = "down" => pc = "down"
      /\ pc = "closed" => pc' = "closed"
      /\ UNCHANGED <<held, workQueue, commitQueue>>
      /\ UNCHANGED doing \/ doing' = [w \in Worker |-> Idle]
  OBVIOUS
<1> HIDE DEF Check, PollNone, PollFails, Join, SessionLost, Signal, DrainEnd, StartFails
<1>2. Items(commitQueue)' \subseteq Items(commitQueue) /\ Items(workQueue)' = Items(workQueue)
  BY <1>1 DEF Items
<1>3. Idle \notin Record
  BY PoolAssumption DEF Record
<1>4. InFlight' \cap Record \subseteq InFlight
  BY <1>1, <1>2, <1>3 DEF InFlight
<1> QED BY <1>1, <1>2, <1>4, TrackUntouched

(* Records and sentinels move between the queues and the workers. *)
LEMMA TrackQueues ==
    ASSUME PoolIInv,
           Put \/ PutStop \/ \E w \in Worker : Take(w) \/ FinishBadly(w)
    PROVE  TrackInv'
<1>1. /\ UNCHANGED <<groupOffset, resolved, assigned, revoked, pos, track, member, commitQueue>>
      /\ pc' = "down" => pc = "down"
      /\ pc = "closed" => pc' = "closed"
  BY DEF Put, PutStop, Take, FinishBadly
<1>2. Items(commitQueue)' = Items(commitQueue)
  BY <1>1 DEF Items
<1>3. {NoRecord, Idle, Exited, STOP} \cap Record = {} /\ workQueue \in Seq(Record \cup {STOP})
  BY PoolAssumption DEF Record, PoolIInv, QueueInv, TypeOK
<1>4. InFlight' \cap Record \subseteq InFlight
  <2>1. CASE Put
    <3>1. held \in Record /\ held' = NoRecord /\ doing' = doing
      BY <2>1 DEF Put, PoolIInv, QueueInv
    <3>2. Items(workQueue)' = Items(workQueue) \cup {held}
      BY <1>3, <2>1, <3>1, QueueItems DEF Put
    <3> QED BY <1>2, <1>3, <3>1, <3>2 DEF InFlight
  <2>2. CASE PutStop
    <3>1. held' = held /\ doing' = doing
      BY <2>2 DEF PutStop
    <3>2. workQueue' = workQueue \/ workQueue' = Append(workQueue, STOP)
      BY <2>2 DEF PutStop
    <3>3. Items(workQueue)' \subseteq Items(workQueue) \cup {STOP}
      <4>1. CASE workQueue' = workQueue
        BY <4>1 DEF Items
      <4>2. CASE workQueue' = Append(workQueue, STOP)
        BY <1>3, <4>2, QueueItems
      <4> QED BY <3>2, <4>1, <4>2
    <3> QED BY <1>2, <1>3, <3>1, <3>3 DEF InFlight
  <2>3. ASSUME NEW w \in Worker, Take(w) PROVE InFlight' \cap Record \subseteq InFlight
    <3>1. /\ held' = held /\ workQueue # <<>> /\ workQueue' = Tail(workQueue)
          /\ \A v \in Worker : doing'[v] \in {doing[v], Exited, Head(workQueue)}
      BY <2>3 DEF Take, PoolIInv, QueueInv, TypeOK
    <3>2. Items(workQueue)' \subseteq Items(workQueue) /\ Head(workQueue) \in Items(workQueue)
      BY <1>3, <3>1, QueueItems
    <3> QED BY <1>2, <1>3, <3>1, <3>2 DEF InFlight
  <2>4. ASSUME NEW w \in Worker, FinishBadly(w) PROVE InFlight' \cap Record \subseteq InFlight
    <3>1. /\ held' = held /\ workQueue' = workQueue
          /\ \A v \in Worker : doing'[v] \in {doing[v], Idle}
      BY <2>4 DEF FinishBadly, PoolIInv, QueueInv, TypeOK
    <3>2. Items(workQueue)' = Items(workQueue)
      BY <3>1 DEF Items
    <3> QED BY <1>2, <1>3, <3>1, <3>2 DEF InFlight
  <2> QED BY <2>1, <2>2, <2>3, <2>4
<1> QED BY <1>1, <1>2, <1>4, TrackUntouched
-----------------------------------------------------------------------------
(* A commit call made from a tracker that fits: the group's offsets stay   *)
(* covered, within reach, and never go back.                               *)
LEMMA FlushSound ==
    ASSUME PoolIInv, NEW tr, NEW only \in SUBSET Partition, NEW ok, Flush(tr, only, ok),
           \A q \in Partition :
             /\ tr[q] \in PartitionState
             /\ Sound(tr[q], resolved[q])
             /\ q \notin assigned => tr[q] = NewPartition
             /\ member /\ q \in assigned => groupOffset[q] <= Reached(tr[q], pos[q]),
           NEW q \in Partition
    PROVE  /\ 0 .. groupOffset'[q] - 1 \subseteq resolved[q]
           /\ member /\ q \in assigned => groupOffset'[q] <= Reached(tr[q], pos[q])
           /\ groupOffset'[q] >= groupOffset[q]
<1>1. TypeOK /\ groupOffset[q] \in Nat
  BY LogEndAssumption DEF PoolIInv, QueueInv, TypeOK
<1>2. \/ groupOffset'[q] = groupOffset[q]
      \/ /\ member /\ q \in only /\ HasUncommitted(tr[q])
         /\ groupOffset'[q] = tr[q].safe + 1
  BY <1>1, FlushWrites
<1>3. CASE groupOffset'[q] = groupOffset[q]
  BY <1>1, <1>3, TrackNow
<1>4. CASE member /\ HasUncommitted(tr[q]) /\ groupOffset'[q] = tr[q].safe + 1
  <2>1. tr[q].safe # None /\ tr[q] # NewPartition /\ tr[q].safe \in Int
    BY <1>4, LogEndAssumption DEF HasUncommitted, NewPartition, PartitionState, MaybeOffset, None
  <2>2. q \in assigned
    BY <2>1
  <2>3. Reached(tr[q], pos[q]) = tr[q].safe + 1
    BY <2>1 DEF Reached
  <2>4. 0 .. groupOffset'[q] - 1 = 0 .. tr[q].safe
    BY <1>4, <2>1
  <2>5. groupOffset[q] <= tr[q].safe + 1
    BY <1>4, <2>2, <2>3
  <2> QED BY <1>1, <1>4, <2>1, <2>3, <2>4, <2>5 DEF Sound
<1> QED BY <1>2, <1>3, <1>4

(* A flush of all partitions on the poll thread. *)
LEMMA TrackFlushAll ==
    ASSUME PoolIInv, NEW tr \in [Partition -> PartitionState],
           NEW n, NEW next \in {"drain", "finalDrain"}, FlushAll(tr, n, next),
           pc \notin {"down", "closed"},
           UNCHANGED <<member, resolved, assigned, revoked, pos>>,
           InFlight' \cap Record \subseteq InFlight,
           Items(commitQueue)' \subseteq Items(commitQueue),
           \A q \in Partition :
             /\ Sound(tr[q], resolved[q])
             /\ tr[q].floor = track[q].floor
             /\ q \notin assigned => tr[q] = NewPartition
             /\ member /\ q \in assigned => groupOffset[q] <= Reached(tr[q], pos[q])
    PROVE  /\ TrackInv'
           /\ \A q \in Partition : groupOffset'[q] >= groupOffset[q]
<1>1. PICK ok \in BOOLEAN :
        /\ Flush(tr, Partition, ok)
        /\ track' = IF ok THEN [q \in Partition |-> MarkCommitted(tr[q])] ELSE tr
        /\ pc' = IF ok THEN next ELSE "closing"
  BY DEF FlushAll
<1>2. \A q \in Partition : tr[q] \in PartitionState
  OBVIOUS
<1>3. ASSUME NEW q \in Partition
      PROVE  /\ 0 .. groupOffset'[q] - 1 \subseteq resolved[q]
             /\ member /\ q \in assigned => groupOffset'[q] <= Reached(tr[q], pos[q])
             /\ groupOffset'[q] >= groupOffset[q]
  <2>1. Partition \in SUBSET Partition
    OBVIOUS
  <2> QED BY <1>1, <1>2, <2>1, FlushSound
<1>4. ASSUME NEW q \in Partition
      PROVE  /\ Sound(track'[q], resolved[q])
             /\ track'[q].floor = track[q].floor
             /\ pc' # "closed" /\ q \notin assigned => track'[q] = NewPartition
             /\ 0 .. groupOffset'[q] - 1 \subseteq resolved[q]
             /\ member' /\ q \in assigned => groupOffset'[q] <= Reached(track'[q], pos[q])
  <2>1. track'[q] = tr[q] \/ track'[q] = MarkCommitted(tr[q])
    BY <1>1
  <2>2. CASE track'[q] = tr[q]
    BY <1>3, <2>2
  <2>3. CASE track'[q] = MarkCommitted(tr[q])
    <3>1. Sound(track'[q], resolved[q])
      BY <1>2, <2>3, SoundStable
    <3>2. track'[q].safe = tr[q].safe /\ track'[q].floor = tr[q].floor
      BY <1>2, <2>3 DEF MarkCommitted, PartitionState
    <3>3. Reached(track'[q], pos[q]) = Reached(tr[q], pos[q])
      BY <3>2 DEF Reached
    <3>4. tr[q] = NewPartition => track'[q] = NewPartition
      BY <2>3 DEF MarkCommitted, HasUncommitted, NewPartition
    <3> QED BY <1>3, <3>1, <3>2, <3>3, <3>4
  <2> QED BY <2>1, <2>2, <2>3
<1>5. pc' # "down" /\ member' = member
  BY <1>1
<1>6. TrackInv'
  BY <1>4, <1>5, TrackFrame
<1> QED BY <1>3, <1>6

(* maybe_flush_idle. *)
LEMMA TrackIdleFlush ==
    ASSUME PoolIInv, IdleFlush
    PROVE  TrackInv' /\ \A q \in Partition : groupOffset'[q] >= groupOffset[q]
<1>1. /\ pc = "poll" /\ FlushAll(track, sinceFlush, "drain")
      /\ UNCHANGED <<member, resolved, assigned, revoked, pos, held, workQueue, commitQueue, doing>>
  BY DEF IdleFlush
<1>2. InFlight' = InFlight /\ Items(commitQueue)' = Items(commitQueue)
  BY <1>1 DEF InFlight, Items
<1>3. track \in [Partition -> PartitionState]
  BY DEF PoolIInv, QueueInv, TypeOK
<1>4. \A q \in Partition :
        /\ Sound(track[q], resolved[q])
        /\ q \notin assigned => track[q] = NewPartition
        /\ member /\ q \in assigned => groupOffset[q] <= Reached(track[q], pos[q])
  BY <1>1, TrackNow
<1> QED BY <1>1, <1>2, <1>3, <1>4, TrackFlushAll

(* commit_terminal for the next completion: its partition was observed, so *)
(* marking it keeps the tracker sound.                                     *)
LEMMA TrackDrainOne ==
    ASSUME PoolIInv, DrainOne
    PROVE  TrackInv' /\ \A q \in Partition : groupOffset'[q] >= groupOffset[q]
<1> DEFINE p  == Head(commitQueue)[1]
           o  == Head(commitQueue)[2]
           tr == [track EXCEPT ![p] = MarkTerminal(track[p], o)]
           m  == Bump(sinceFlush)
<1>1. /\ pc \in {"drain", "finalDrain"} /\ commitQueue # <<>>
      /\ commitQueue' = Tail(commitQueue)
      /\ UNCHANGED <<member, resolved, assigned, revoked, pos, held, workQueue, doing>>
  BY DEF DrainOne
<1>2. TypeOK
  BY DEF PoolIInv, QueueInv
<1>3. /\ Head(commitQueue) = <<p, o>> /\ p \in Partition /\ o \in Offset
      /\ <<p, o>> \in Items(commitQueue)
      /\ tr \in [Partition -> PartitionState]
      /\ Items(Tail(commitQueue)) \subseteq Items(commitQueue)
  BY <1>1, <1>2, DrainedTrackType
<1>4. \/ p \in revoked /\ pc' = "closing" /\ UNCHANGED <<groupOffset, track>>
      \/ p \notin revoked /\ track' = tr /\ UNCHANGED <<groupOffset, pc>>
      \/ p \notin revoked /\ FlushAll(tr, m, pc)
  BY DEF DrainOne
<1>5. \A q \in Partition : tr[q] = IF q = p THEN MarkTerminal(track[p], o) ELSE track[q]
  BY <1>3 DEF TypeOK
<1>6. Items(commitQueue)' \subseteq Items(commitQueue)
  BY <1>1, <1>3 DEF Items
<1>7. InFlight' \cap Record \subseteq InFlight
  <2>1. Items(workQueue)' = Items(workQueue)
    BY <1>1 DEF Items
  <2> HIDE DEF p, o, tr, m
  <2> QED BY <1>1, <1>6, <2>1 DEF InFlight
<1> HIDE DEF p, o, tr, m
<1>8. groupOffset \in [Partition -> 0 .. LogEnd]
  BY <1>2 DEF TypeOK
<1>9. CASE p \in revoked /\ pc' = "closing" /\ UNCHANGED <<groupOffset, track>>
  <2>1. TrackInv'
    BY <1>1, <1>6, <1>7, <1>9, TrackUntouched
  <2> QED BY <1>8, <1>9, <2>1, LogEndAssumption
<1>10. ASSUME p \notin revoked, NEW q \in Partition
       PROVE  /\ Sound(tr[q], resolved[q])
              /\ tr[q].floor = track[q].floor
              /\ q \notin assigned => tr[q] = NewPartition
              /\ member /\ q \in assigned => groupOffset[q] <= Reached(tr[q], pos[q])
  <2>1. /\ track[q] \in PartitionState
        /\ Sound(track[q], resolved[q])
        /\ q \notin assigned => track[q] = NewPartition
        /\ member /\ q \in assigned => groupOffset[q] <= Reached(track[q], pos[q])
    BY <1>1, TrackNow
  <2>2. CASE q # p
    BY <1>5, <2>1, <2>2
  <2>3. CASE q = p
    <3>1. track[p].floor # None /\ p \in assigned
      BY <1>1, <1>3, <1>10 DEF PoolIInv, TrackInv, InFlightObserved, InFlight
    <3>2. o \in resolved[p]
      BY <1>3 DEF PoolIInv, TrackInv, QueuedIsResolved
    <3>3. Sound(MarkTerminal(track[p], o), resolved[p])
      BY <1>3, <2>1, <2>3, <3>1, <3>2, MarkTerminalSound
    <3>4. /\ MarkTerminal(track[p], o).safe >= Bootstrap(track[p], o)
          /\ MarkTerminal(track[p], o).floor = track[p].floor
          /\ MarkTerminal(track[p], o).safe \in -1 .. LogEnd - 1
      BY <1>3, <2>1, <2>3, SafeOnlyGrows, TrackerType
    <3>5. Reached(track[p], pos[p]) = Bootstrap(track[p], o) + 1
      BY <3>1 DEF Reached, Bootstrap
    <3>6. Reached(MarkTerminal(track[p], o), pos[p]) = MarkTerminal(track[p], o).safe + 1
      BY <3>4, LogEndAssumption DEF Reached, None
    <3>7. Bootstrap(track[p], o) \in Int /\ groupOffset[p] \in Int
      BY <1>3, <1>8, <2>1, <2>3, BootstrapType, LogEndAssumption
    <3>8. member => groupOffset[p] <= Reached(MarkTerminal(track[p], o), pos[p])
      <4> DEFINE t == MarkTerminal(track[p], o).safe
                 u == Bootstrap(track[p], o)
      <4>1. t \in Int /\ t >= u /\ u \in Int
        BY <3>4, <3>7, LogEndAssumption
      <4>2. member => groupOffset[p] <= u + 1
        BY <2>1, <2>3, <3>1, <3>5
      <4> HIDE DEF t, u
      <4>3. member => groupOffset[p] <= t + 1
        BY <3>7, <4>1, <4>2
      <4> QED BY <3>6, <4>3 DEF t
    <3> QED BY <1>5, <2>3, <3>1, <3>3, <3>4, <3>8
  <2> QED BY <2>2, <2>3
<1>11. CASE p \notin revoked /\ track' = tr /\ UNCHANGED <<groupOffset, pc>>
  <2>1. ASSUME NEW q \in Partition
        PROVE  /\ Sound(track'[q], resolved[q])
               /\ track'[q].floor = track[q].floor
               /\ pc' # "closed" /\ q \notin assigned => track'[q] = NewPartition
               /\ 0 .. groupOffset'[q] - 1 \subseteq resolved[q]
               /\ member' /\ q \in assigned => groupOffset'[q] <= Reached(track'[q], pos[q])
    BY <1>1, <1>10, <1>11, TrackNow
  <2>2. TrackInv'
    BY <1>1, <1>6, <1>7, <1>11, <2>1, TrackFrame
  <2> QED BY <1>8, <1>11, <2>2, LogEndAssumption
<1>12. CASE p \notin revoked /\ FlushAll(tr, m, pc)
  BY <1>1, <1>3, <1>6, <1>7, <1>10, <1>12, TrackFlushAll
<1> QED BY <1>4, <1>9, <1>11, <1>12
-----------------------------------------------------------------------------
(* The finally block: the last flush, then nothing is owned any more. *)
LEMMA TrackClose ==
    ASSUME PoolIInv, Close
    PROVE  TrackInv' /\ \A q \in Partition : groupOffset'[q] >= groupOffset[q]
<1>1. /\ pc = "closing" /\ pc' = "closed" /\ assigned' = {}
      /\ UNCHANGED <<resolved, revoked, pos, held, workQueue, commitQueue, doing, track>>
      /\ \E ok \in BOOLEAN : Flush(track, Partition, ok)
  BY DEF Close
<1>2. \A q \in Partition :
        /\ track[q] \in PartitionState
        /\ Sound(track[q], resolved[q])
        /\ q \notin assigned => track[q] = NewPartition
        /\ member /\ q \in assigned => groupOffset[q] <= Reached(track[q], pos[q])
  BY <1>1, TrackNow
<1>3. ASSUME NEW q \in Partition
      PROVE  0 .. groupOffset'[q] - 1 \subseteq resolved[q] /\ groupOffset'[q] >= groupOffset[q]
  <2>1. Partition \in SUBSET Partition
    OBVIOUS
  <2> QED BY <1>1, <1>2, <2>1, FlushSound
<1>4. InFlight' = InFlight /\ Items(commitQueue)' = Items(commitQueue)
  BY <1>1 DEF InFlight, Items
<1>5. InFlightObserved' /\ QueuedIsResolved'
  BY <1>1, <1>4 DEF PoolIInv, TrackInv, InFlightObserved, QueuedIsResolved
<1>6. TrackerSound' /\ CommittedIsResolved' /\ NothingKeptForRevoked'
  BY <1>1, <1>2, <1>3 DEF TrackerSound, CommittedIsResolved, NothingKeptForRevoked
<1>7. FetchedFromResolved' /\ GroupBehind'
  BY <1>1 DEF FetchedFromResolved, GroupBehind
<1> QED BY <1>1, <1>3, <1>5, <1>6, <1>7 DEF TrackInv

(* A process that starts owns nothing. *)
LEMMA TrackStart ==
    ASSUME PoolIInv, Start
    PROVE  TrackInv'
<1>1. /\ pc = "down" /\ pc' = "check" /\ assigned = {} /\ doing' = [w \in Worker |-> Idle]
      /\ UNCHANGED <<groupOffset, resolved, assigned, revoked, pos, held, workQueue, commitQueue,
                     track>>
  BY DEF Start, PoolIInv, TrackInv
<1>2. Items(commitQueue)' = Items(commitQueue) /\ Items(workQueue)' = Items(workQueue)
  BY <1>1 DEF Items
<1>3. Idle \notin Record
  BY PoolAssumption DEF Record
<1>4. InFlight' \cap Record \subseteq InFlight
  BY <1>1, <1>2, <1>3 DEF InFlight
<1>5. InFlightObserved'
  <2> SUFFICES ASSUME NEW q \in Partition, NEW o \in Offset, <<q, o>> \in InFlight',
                      q \notin revoked'
               PROVE  track'[q].floor # None /\ (pc' # "closed" => q \in assigned')
    BY DEF InFlightObserved
  <2>1. <<q, o>> \in InFlight
    BY <1>4 DEF Record
  <2> QED BY <1>1, <2>1 DEF PoolIInv, TrackInv, InFlightObserved
<1>6. /\ TrackerSound' /\ CommittedIsResolved' /\ NothingKeptForRevoked'
      /\ QueuedIsResolved' /\ FetchedFromResolved' /\ GroupBehind'
  BY <1>1, <1>2 DEF PoolIInv, TrackInv, TrackerSound, CommittedIsResolved,
       NothingKeptForRevoked, QueuedIsResolved, FetchedFromResolved, GroupBehind
<1> QED BY <1>1, <1>5, <1>6 DEF TrackInv, PoolIInv

(* The memory of the process is gone; what was committed is covered. *)
LEMMA TrackGone ==
    ASSUME PoolIInv, Restart \/ Crash
    PROVE  TrackInv'
<1>1. /\ assigned' = {} /\ revoked' = {} /\ held' = NoRecord
      /\ workQueue' = <<>> /\ commitQueue' = <<>> /\ doing' = [w \in Worker |-> Exited]
      /\ track' = [q \in Partition |-> NewPartition]
      /\ UNCHANGED <<groupOffset, resolved>>
  BY DEF Restart, Crash, Gone
<1>2. Items(commitQueue)' = {} /\ Items(workQueue)' = {}
  BY <1>1 DEF Items
<1>3. {NoRecord, Exited} \cap Record = {}
  BY PoolAssumption DEF Record
<1>4. InFlight' \cap Record = {}
  BY <1>1, <1>2, <1>3 DEF InFlight
<1>5. InFlightObserved' /\ QueuedIsResolved'
  BY <1>2, <1>4 DEF InFlightObserved, QueuedIsResolved, Record
<1>6. TrackerSound'
  BY <1>1, SoundStable DEF TrackerSound
<1>7. CommittedIsResolved' /\ NothingKeptForRevoked' /\ FetchedFromResolved' /\ GroupBehind'
  BY <1>1 DEF PoolIInv, TrackInv, CommittedIsResolved, NothingKeptForRevoked,
       FetchedFromResolved, GroupBehind
<1> QED BY <1>1, <1>5, <1>6, <1>7 DEF TrackInv

(* on_assign of a partition the process has not had before: fetching       *)
(* starts where everything below is resolved.                              *)
LEMMA TrackOnAssign ==
    ASSUME PoolIInv, ~Reassign, NEW p \in Partition, OnAssign(p)
    PROVE  TrackInv'
<1>1. /\ pc = "poll" /\ p \notin assigned /\ p \notin revoked
      /\ assigned' = assigned \cup {p} /\ revoked' = revoked
      /\ pos' = [pos EXCEPT ![p] = groupOffset[p]]
      /\ UNCHANGED <<groupOffset, member, resolved, pc, held, workQueue, commitQueue, doing, track>>
  BY DEF OnAssign
<1>2. InFlight' = InFlight /\ Items(commitQueue)' = Items(commitQueue)
  BY <1>1 DEF InFlight, Items
<1>3. track[p] = NewPartition
  BY <1>1, TrackNow
<1>4. track[p].safe = None /\ track[p].floor = None
  BY <1>3 DEF NewPartition
<1>5. pos \in [Partition -> 0 .. LogEnd] /\ groupOffset[p] \in Int /\ assigned \subseteq Partition
  BY LogEndAssumption DEF PoolIInv, QueueInv, TypeOK
<1>6. InFlightObserved' /\ QueuedIsResolved'
  BY <1>1, <1>2 DEF PoolIInv, TrackInv, InFlightObserved, QueuedIsResolved
<1>7. TrackerSound' /\ CommittedIsResolved' /\ NothingKeptForRevoked'
  BY <1>1 DEF PoolIInv, TrackInv, TrackerSound, CommittedIsResolved, NothingKeptForRevoked
<1>8. FetchedFromResolved'
  <2> SUFFICES ASSUME NEW q \in assigned', track'[q].floor = None
               PROVE  0 .. pos'[q] - 1 \subseteq resolved'[q]
    BY DEF FetchedFromResolved
  <2>1. CASE q = p
    BY <1>1, <1>5, <2>1, TrackNow
  <2>2. CASE q # p
    BY <1>1, <1>5, <2>2 DEF PoolIInv, TrackInv, FetchedFromResolved
  <2> QED BY <2>1, <2>2
<1>9. GroupBehind'
  <2> SUFFICES ASSUME member', NEW q \in assigned'
               PROVE  groupOffset'[q] <= Reached(track'[q], pos'[q])
    BY DEF GroupBehind
  <2>1. CASE q = p
    BY <1>1, <1>4, <1>5, <2>1 DEF Reached
  <2>2. CASE q # p
    BY <1>1, <1>5, <2>2, TrackNow
  <2> QED BY <2>1, <2>2
<1> QED BY <1>1, <1>6, <1>7, <1>8, <1>9 DEF PoolIInv, TrackInv

(* Revoked partitions are forgotten; a commit made for them before that is *)
(* covered.                                                                *)
LEMMA TrackDrop ==
    ASSUME PoolIInv, NEW Q \in SUBSET assigned, Drop(Q), pc = "poll",
           member' => member \/ Q = assigned,
           \A q \in Partition : 0 .. groupOffset'[q] - 1 \subseteq resolved[q],
           \A q \in Partition \ Q : groupOffset'[q] = groupOffset[q]
    PROVE  TrackInv'
<1>1. /\ assigned' = assigned \ Q /\ revoked' = revoked \cup Q
      /\ track' = [q \in Partition |-> IF q \in Q THEN NewPartition ELSE track[q]]
      /\ UNCHANGED <<resolved, pos, pc, held, workQueue, commitQueue, doing>>
  BY DEF Drop
<1>2. InFlight' = InFlight /\ Items(commitQueue)' = Items(commitQueue)
  BY <1>1 DEF InFlight, Items
<1>3. assigned \subseteq Partition
  BY DEF PoolIInv, QueueInv, TypeOK
<1>4. InFlightObserved' /\ QueuedIsResolved'
  BY <1>1, <1>2 DEF PoolIInv, TrackInv, InFlightObserved, QueuedIsResolved
<1>5. TrackerSound'
  BY <1>1, SoundStable DEF PoolIInv, TrackInv, TrackerSound
<1>6. CommittedIsResolved' /\ NothingKeptForRevoked'
  BY <1>1 DEF PoolIInv, TrackInv, CommittedIsResolved, NothingKeptForRevoked
<1>7. FetchedFromResolved'
  BY <1>1, <1>3 DEF PoolIInv, TrackInv, FetchedFromResolved
<1>8. GroupBehind'
  BY <1>1, <1>3 DEF PoolIInv, TrackInv, GroupBehind
<1> QED BY <1>1, <1>4, <1>5, <1>6, <1>7, <1>8 DEF PoolIInv, TrackInv

(* on_revoke of one partition, with or without its last commit. *)
LEMMA TrackOnRevoke ==
    ASSUME PoolIInv, NEW p \in Partition, OnRevoke(p)
    PROVE  TrackInv' /\ \A q \in Partition : groupOffset'[q] >= groupOffset[q]
<1> DEFINE due == {p} \cap {r \in assigned : HasUncommitted(track[r])}
<1>1. /\ pc = "poll" /\ member /\ p \in assigned /\ Drop({p})
      /\ groupOffset' = groupOffset \/ groupOffset' = Applied(track, due)
  BY DEF OnRevoke
<1>2. groupOffset \in [Partition -> Nat] /\ assigned \subseteq Partition
  BY LogEndAssumption DEF PoolIInv, QueueInv, TypeOK
<1>3. \A q \in Partition : \/ groupOffset'[q] = groupOffset[q]
                            \/ /\ q = p /\ HasUncommitted(track[q])
                               /\ groupOffset'[q] = track[q].safe + 1
  BY <1>1 DEF Applied
<1>4. ASSUME NEW q \in Partition
      PROVE  0 .. groupOffset'[q] - 1 \subseteq resolved[q] /\ groupOffset'[q] >= groupOffset[q]
  <2>1. CASE groupOffset'[q] = groupOffset[q]
    BY <1>2, <2>1, TrackNow
  <2>2. CASE q = p /\ HasUncommitted(track[q]) /\ groupOffset'[q] = track[q].safe + 1
    <3>1. track[q].safe # None /\ track[q].safe \in Int
      BY <2>2, TrackNow, LogEndAssumption DEF HasUncommitted, PartitionState, MaybeOffset, None
    <3>2. groupOffset[q] <= track[q].safe + 1
      BY <1>1, <2>2, <3>1, TrackNow DEF Reached
    <3>3. 0 .. groupOffset'[q] - 1 = 0 .. track[q].safe
      BY <2>2, <3>1
    <3> QED BY <1>2, <2>2, <3>1, <3>2, <3>3, TrackNow DEF Sound
  <2> QED BY <1>3, <2>1, <2>2
<1>5. \A q \in Partition \ {p} : groupOffset'[q] = groupOffset[q]
  BY <1>3
<1> HIDE DEF due
<1>6. TrackInv'
  BY <1>1, <1>4, <1>5, TrackDrop
<1> QED BY <1>4, <1>6

(* A poll that finds the member evicted gives up everything. *)
LEMMA TrackOnLost ==
    ASSUME PoolIInv, OnLost
    PROVE  TrackInv'
<1>1. pc = "poll" /\ Drop(assigned) /\ UNCHANGED groupOffset
  BY DEF OnLost
<1>2. \A q \in Partition : 0 .. groupOffset'[q] - 1 \subseteq resolved[q]
  BY <1>1, TrackNow
<1> QED BY <1>1, <1>2, TrackDrop

(* poll() returns a record: its partition is observed from here on, and    *)
(* what was reached stays reached.                                         *)
LEMMA TrackPollRecord ==
    ASSUME PoolIInv, NEW p \in Partition, PollRecord(p)
    PROVE  TrackInv'
<1> DEFINE st == Observe(track[p], pos[p])
<1>1. /\ pc = "poll" /\ pc' = "put" /\ p \in assigned /\ pos[p] < load.end[p]
      /\ held' = <<p, pos[p]>>
      /\ pos' = [pos EXCEPT ![p] = pos[p] + 1]
      /\ track' = [track EXCEPT ![p] = st]
      /\ UNCHANGED <<groupOffset, member, resolved, assigned, revoked, workQueue, commitQueue,
                     doing>>
  BY DEF PollRecord
<1>2. /\ track \in [Partition -> PartitionState] /\ pos \in [Partition -> 0 .. LogEnd]
      /\ assigned \subseteq Partition /\ load.end[p] \in 0 .. LogEnd
  BY PoolAssumption DEF PoolIInv, QueueInv, TypeOK
<1>3. pos[p] \in Offset /\ track[p] \in PartitionState /\ pos[p] \in Int
  BY <1>1, <1>2, LogEndAssumption DEF Offset
<1>4. track[p].floor = None => 0 .. pos[p] - 1 \subseteq resolved[p]
  BY <1>1 DEF PoolIInv, TrackInv, FetchedFromResolved
<1>5. Sound(st, resolved[p])
  BY <1>3, <1>4, ObserveSound, TrackNow
<1>6. st.floor # None /\ st.safe = track[p].safe
  BY <1>3, LogEndAssumption DEF Observe, PartitionState, MaybeOffset, None, Offset
<1>7. Reached(st, pos[p] + 1) = Reached(track[p], pos[p])
  BY <1>3, LogEndAssumption DEF Observe, Reached, PartitionState, MaybeOffset, None, Offset
<1> HIDE DEF st
<1>8. /\ track'[p] = st /\ pos'[p] = pos[p] + 1
      /\ \A q \in Partition \ {p} : track'[q] = track[q] /\ pos'[q] = pos[q]
  BY <1>1, <1>2
<1>9. Items(commitQueue)' = Items(commitQueue) /\ Items(workQueue)' = Items(workQueue)
  BY <1>1 DEF Items
<1>10. InFlight' \subseteq InFlight \cup {<<p, pos[p]>>}
  BY <1>1, <1>9 DEF InFlight
<1>11. InFlightObserved'
  <2> SUFFICES ASSUME NEW q \in Partition, NEW o \in Offset, <<q, o>> \in InFlight',
                      q \notin revoked'
               PROVE  track'[q].floor # None /\ q \in assigned'
    BY DEF InFlightObserved
  <2>1. CASE q = p
    BY <1>1, <1>6, <1>8, <2>1
  <2>2. CASE q # p
    <3>1. <<q, o>> \in InFlight
      BY <1>10, <2>2
    <3> QED BY <1>1, <1>8, <2>2, <3>1 DEF PoolIInv, TrackInv, InFlightObserved
  <2> QED BY <2>1, <2>2
<1>12. TrackerSound'
  BY <1>1, <1>5, <1>8 DEF PoolIInv, TrackInv, TrackerSound
<1>13. CommittedIsResolved' /\ NothingKeptForRevoked' /\ QueuedIsResolved'
  BY <1>1, <1>8, <1>9 DEF PoolIInv, TrackInv, CommittedIsResolved, NothingKeptForRevoked,
       QueuedIsResolved
<1>14. FetchedFromResolved'
  BY <1>1, <1>2, <1>6, <1>8 DEF PoolIInv, TrackInv, FetchedFromResolved
<1>15. GroupBehind'
  <2> SUFFICES ASSUME member', NEW q \in assigned'
               PROVE  groupOffset'[q] <= Reached(track'[q], pos'[q])
    BY DEF GroupBehind
  <2>1. q \in assigned /\ q \in Partition /\ groupOffset[q] <= Reached(track[q], pos[q])
    BY <1>1, <1>2, TrackNow
  <2>2. Reached(track'[q], pos'[q]) = Reached(track[q], pos[q])
    BY <1>7, <1>8, <2>1
  <2> QED BY <1>1, <2>1, <2>2
<1> QED BY <1>1, <1>11, <1>12, <1>13, <1>14, <1>15 DEF PoolIInv, TrackInv

(* A worker finishes a record: it is resolved before it is queued for its  *)
(* commit, and a larger set of resolved offsets keeps everything covered.  *)
LEMMA TrackFinish ==
    ASSUME PoolIInv, NEW w \in Worker, Finish(w)
    PROVE  TrackInv'
<1> DEFINE p == doing[w][1]
           d == doing[w][2]
<1>1. /\ doing[w] \in Record
      /\ resolved' = [resolved EXCEPT ![p] = @ \cup {d}]
      /\ commitQueue' = Append(commitQueue, doing[w])
      /\ doing' = [doing EXCEPT ![w] = Idle]
      /\ UNCHANGED <<groupOffset, member, assigned, revoked, pos, pc, held, workQueue, track>>
  BY DEF Finish
<1>2. /\ doing[w] = <<p, d>> /\ p \in Partition /\ d \in Offset
  BY <1>1 DEF Record
<1>3. /\ resolved \in [Partition -> SUBSET Offset] /\ commitQueue \in Seq(Record)
      /\ doing \in [Worker -> Record \cup {Idle, Exited}] /\ assigned \subseteq Partition
  BY DEF PoolIInv, QueueInv, TypeOK
<1> HIDE DEF p, d
<1>4. d \in resolved'[p] /\ \A q \in Partition : resolved[q] \subseteq resolved'[q]
  BY <1>1, <1>2, <1>3
<1>5. Items(commitQueue)' = Items(commitQueue) \cup {<<p, d>>} /\ Items(workQueue)' = Items(workQueue)
  BY <1>1, <1>2, <1>3, QueueItems DEF Items
<1>6. Idle \notin Record /\ <<p, d>> \in InFlight
  BY <1>2, PoolAssumption DEF Record, InFlight
<1>7. InFlight' \cap Record \subseteq InFlight
  <2>1. \A v \in Worker : doing'[v] \in {doing[v], Idle}
    BY <1>1, <1>3
  <2> QED BY <1>1, <1>5, <1>6, <2>1 DEF InFlight
<1>8. InFlightObserved'
  <2> SUFFICES ASSUME NEW q \in Partition, NEW o \in Offset, <<q, o>> \in InFlight',
                      q \notin revoked'
               PROVE  track'[q].floor # None /\ (pc' # "closed" => q \in assigned')
    BY DEF InFlightObserved
  <2>1. <<q, o>> \in InFlight
    BY <1>7 DEF Record
  <2> QED BY <1>1, <2>1 DEF PoolIInv, TrackInv, InFlightObserved
<1>9. QueuedIsResolved'
  <2> SUFFICES ASSUME NEW q \in Partition, NEW o \in Offset, <<q, o>> \in Items(commitQueue)'
               PROVE  o \in resolved'[q]
    BY DEF QueuedIsResolved
  <2>1. CASE <<q, o>> \in Items(commitQueue)
    BY <1>4, <2>1 DEF PoolIInv, TrackInv, QueuedIsResolved
  <2>2. CASE <<q, o>> = <<p, d>>
    BY <1>4, <2>2
  <2> QED BY <1>5, <2>1, <2>2
<1>10. TrackerSound'
  BY <1>1, <1>4, SoundStable DEF PoolIInv, TrackInv, TrackerSound
<1>11. CommittedIsResolved' /\ FetchedFromResolved'
  BY <1>1, <1>3, <1>4 DEF PoolIInv, TrackInv, CommittedIsResolved, FetchedFromResolved
<1>12. NothingKeptForRevoked' /\ GroupBehind'
  BY <1>1 DEF PoolIInv, TrackInv, NothingKeptForRevoked, GroupBehind
<1> QED BY <1>1, <1>8, <1>9, <1>10, <1>11, <1>12 DEF PoolIInv, TrackInv

(* Another instance resolves and commits the next offset of a partition    *)
(* this process does not hold.                                             *)
LEMMA TrackElsewhere ==
    ASSUME PoolIInv, NEW p \in Partition, Elsewhere(p)
    PROVE  TrackInv' /\ \A q \in Partition : groupOffset'[q] >= groupOffset[q]
<1>1. /\ ~(member /\ p \in assigned)
      /\ resolved' = [resolved EXCEPT ![p] = @ \cup {groupOffset[p]}]
      /\ groupOffset' = [groupOffset EXCEPT ![p] = @ + 1]
      /\ UNCHANGED <<member, assigned, revoked, pos, pc, held, workQueue, commitQueue, doing,
                     track>>
  BY DEF Elsewhere
<1>2. /\ resolved \in [Partition -> SUBSET Offset] /\ groupOffset \in [Partition -> Nat]
      /\ assigned \subseteq Partition
  BY LogEndAssumption DEF PoolIInv, QueueInv, TypeOK
<1>3. /\ groupOffset'[p] = groupOffset[p] + 1 /\ groupOffset[p] \in Nat
      /\ resolved'[p] = resolved[p] \cup {groupOffset[p]}
      /\ \A q \in Partition \ {p} : groupOffset'[q] = groupOffset[q] /\ resolved'[q] = resolved[q]
      /\ \A q \in Partition : resolved[q] \subseteq resolved'[q]
  BY <1>1, <1>2
<1>4. InFlight' = InFlight /\ Items(commitQueue)' = Items(commitQueue)
  BY <1>1 DEF InFlight, Items
<1>5. InFlightObserved' /\ QueuedIsResolved'
  BY <1>1, <1>3, <1>4 DEF PoolIInv, TrackInv, InFlightObserved, QueuedIsResolved
<1>6. TrackerSound'
  BY <1>1, <1>3, SoundStable DEF PoolIInv, TrackInv, TrackerSound
<1>7. CommittedIsResolved'
  <2> SUFFICES ASSUME NEW q \in Partition
               PROVE  0 .. groupOffset'[q] - 1 \subseteq resolved'[q]
    BY DEF CommittedIsResolved
  <2>1. 0 .. groupOffset[q] - 1 \subseteq resolved[q]
    BY TrackNow
  <2>2. CASE q = p
    <3>1. 0 .. groupOffset'[p] - 1 = (0 .. groupOffset[p] - 1) \cup {groupOffset[p]}
      BY <1>3
    <3> QED BY <1>3, <2>1, <2>2, <3>1
  <2>3. CASE q # p
    BY <1>3, <2>1, <2>3
  <2> QED BY <2>2, <2>3
<1>8. NothingKeptForRevoked' /\ GroupBehind'
  BY <1>1, <1>2, <1>3 DEF PoolIInv, TrackInv, NothingKeptForRevoked, GroupBehind
<1>9. FetchedFromResolved'
  <2> SUFFICES ASSUME NEW q \in assigned, track[q].floor = None
               PROVE  0 .. pos[q] - 1 \subseteq resolved'[q]
    BY <1>1 DEF FetchedFromResolved
  <2> QED BY <1>2, <1>3 DEF PoolIInv, TrackInv, FetchedFromResolved
<1>10. TrackInv'
  BY <1>1, <1>5, <1>6, <1>7, <1>8, <1>9 DEF PoolIInv, TrackInv
<1>11. ASSUME NEW q \in Partition PROVE groupOffset'[q] >= groupOffset[q]
  <2>1. CASE q = p
    BY <1>3, <2>1
  <2>2. CASE q # p
    BY <1>2, <1>3, <2>2
  <2> QED BY <2>1, <2>2
<1> QED BY <1>10, <1>11

(* Nothing is owned, queued or committed at the start. *)
LEMMA TrackInit == Init => TrackInv
<1> SUFFICES ASSUME Init PROVE TrackInv
  OBVIOUS
<1>1. /\ groupOffset = [q \in Partition |-> 0] /\ resolved = [q \in Partition |-> {}]
      /\ assigned = {} /\ revoked = {} /\ held = NoRecord
      /\ workQueue = <<>> /\ commitQueue = <<>> /\ doing = [w \in Worker |-> Exited]
      /\ track = [q \in Partition |-> NewPartition]
  BY DEF Init
<1>2. Items(commitQueue) = {} /\ Items(workQueue) = {}
  BY <1>1 DEF Items
<1>3. {NoRecord, Exited} \cap Record = {}
  BY PoolAssumption DEF Record
<1>4. InFlight \cap Record = {}
  BY <1>1, <1>2, <1>3 DEF InFlight
<1>5. InFlightObserved /\ QueuedIsResolved
  BY <1>2, <1>4 DEF InFlightObserved, QueuedIsResolved, Record
<1>6. TrackerSound
  BY <1>1, SoundStable DEF TrackerSound
<1>7. CommittedIsResolved /\ NothingKeptForRevoked /\ FetchedFromResolved /\ GroupBehind
  BY <1>1 DEF CommittedIsResolved, NothingKeptForRevoked, FetchedFromResolved, GroupBehind
<1> QED BY <1>1, <1>5, <1>6, <1>7 DEF TrackInv
-----------------------------------------------------------------------------
(* Every step of the pool keeps the invariant and moves no committed       *)
(* offset back, when revoked partitions do not return to the process.      *)
LEMMA PoolStep ==
    ASSUME ~Reassign, PoolIInv, Next, UNCHANGED load
    PROVE  PoolIInv' /\ \A q \in Partition : groupOffset'[q] >= groupOffset[q]
<1>1. QueueInv'
  BY QueueStep DEF PoolIInv
<1>2. groupOffset \in [Partition -> Nat]
  BY LogEndAssumption DEF PoolIInv, QueueInv, TypeOK
<1>3. ASSUME UNCHANGED groupOffset PROVE \A q \in Partition : groupOffset'[q] >= groupOffset[q]
  BY <1>2, <1>3
<1>4. CASE \/ Check \/ PollNone \/ PollFails \/ Join \/ SessionLost \/ Signal
           \/ DrainEnd \/ StartFails
  <2>1. UNCHANGED groupOffset
    BY <1>4 DEF Check, PollNone, PollFails, Join, SessionLost, Signal, DrainEnd, StartFails,
         groupVars
  <2> QED BY <1>1, <1>3, <1>4, <2>1, TrackControl DEF PoolIInv
<1>5. CASE Put \/ PutStop \/ \E w \in Worker : Take(w) \/ FinishBadly(w)
  <2>1. UNCHANGED groupOffset
    BY <1>5 DEF Put, PutStop, Take, FinishBadly, groupVars
  <2> QED BY <1>1, <1>3, <1>5, <2>1, TrackQueues DEF PoolIInv
<1>6. CASE IdleFlush
  BY <1>1, <1>6, TrackIdleFlush DEF PoolIInv
<1>7. CASE DrainOne
  BY <1>1, <1>7, TrackDrainOne DEF PoolIInv
<1>8. CASE Close
  BY <1>1, <1>8, TrackClose DEF PoolIInv
<1>9. CASE Start \/ OnLost
  <2>1. UNCHANGED groupOffset
    BY <1>9 DEF Start, OnLost
  <2> QED BY <1>1, <1>3, <1>9, <2>1, TrackStart, TrackOnLost DEF PoolIInv
<1>10. CASE Restart \/ Crash
  <2>1. UNCHANGED groupOffset
    BY <1>10 DEF Restart, Crash, groupVars
  <2> QED BY <1>1, <1>3, <1>10, <2>1, TrackGone DEF PoolIInv
<1>11. ASSUME NEW q \in Partition, OnAssign(q) \/ PollRecord(q)
       PROVE  PoolIInv' /\ \A r \in Partition : groupOffset'[r] >= groupOffset[r]
  <2>1. UNCHANGED groupOffset
    BY <1>11 DEF OnAssign, PollRecord, groupVars
  <2> QED BY <1>1, <1>3, <1>11, <2>1, TrackOnAssign, TrackPollRecord DEF PoolIInv
<1>12. ASSUME NEW w \in Worker, Finish(w)
       PROVE  PoolIInv' /\ \A r \in Partition : groupOffset'[r] >= groupOffset[r]
  <2>1. UNCHANGED groupOffset
    BY <1>12 DEF Finish
  <2> QED BY <1>1, <1>3, <1>12, <2>1, TrackFinish DEF PoolIInv
<1>13. ASSUME NEW q \in Partition, OnRevoke(q) \/ Elsewhere(q)
       PROVE  PoolIInv' /\ \A r \in Partition : groupOffset'[r] >= groupOffset[r]
  BY <1>1, <1>13, TrackOnRevoke, TrackElsewhere DEF PoolIInv
<1> QED BY <1>4, <1>5, <1>6, <1>7, <1>8, <1>9, <1>10, <1>11, <1>12, <1>13 DEF Next, PollThread

(* A stuttering step keeps it too. *)
LEMMA PoolStutter ==
    ASSUME PoolIInv, UNCHANGED <<vars, load>>
    PROVE  PoolIInv' /\ \A q \in Partition : groupOffset'[q] >= groupOffset[q]
<1>1. QueueInv'
  BY QueueStep DEF PoolIInv
<1>2. UNCHANGED <<groupOffset, resolved, assigned, revoked, pos, track, member, pc, held,
                  workQueue, commitQueue, doing>>
  BY DEF vars, groupVars, clientVars, loopVars, workVars, trackVars
<1>3. InFlight' = InFlight /\ Items(commitQueue)' = Items(commitQueue)
  BY <1>2 DEF InFlight, Items
<1>4. TrackInv'
  BY <1>2, <1>3, TrackUntouched
<1>5. groupOffset \in [Partition -> Nat]
  BY LogEndAssumption DEF PoolIInv, QueueInv, TypeOK
<1> QED BY <1>1, <1>2, <1>4, <1>5 DEF PoolIInv

(* The inductive invariant of the pool, when a partition that was revoked  *)
(* does not come back to the process that lost it.                         *)
THEOREM PoolIInvHolds == ASSUME ~Reassign PROVE Spec => []PoolIInv
<1>1. Init => PoolIInv
  BY QueueInit, TrackInit DEF PoolIInv
<1>2. PoolIInv /\ [Next /\ UNCHANGED load]_<<vars, load>> => PoolIInv'
  BY PoolStep, PoolStutter
<1> QED BY <1>1, <1>2, PTL DEF Spec

(* PoolInv: types, a tracker that only calls terminal prefixes safe, and   *)
(* nothing kept for partitions given up (consumer.py:154-256), for any     *)
(* number of partitions, workers and faults.                               *)
THEOREM PoolCorrect == ASSUME ~Reassign PROVE Spec => []PoolInv
<1>1. PoolIInv => PoolInv
  BY DEF PoolIInv, QueueInv, TrackInv, PoolInv
<1> QED BY <1>1, PoolIInvHolds, PTL

(* CommittedIsResolved: no offset is committed while an earlier one of its *)
(* partition is unresolved, whatever order the workers finish in           *)
(* (main_pooled.py:26-29), as long as no revoked partition comes back.     *)
THEOREM CommittedIsResolvedHolds == ASSUME ~Reassign PROVE Spec => []CommittedIsResolved
<1>1. PoolIInv => CommittedIsResolved
  BY DEF PoolIInv, TrackInv
<1> QED BY <1>1, PoolIInvHolds, PTL

(* CommitsOnlyForward: no commit of the process moves the group back, not  *)
(* even a flush that fails half-way or a last one before a revocation.     *)
THEOREM CommitsOnlyForwardHolds == ASSUME ~Reassign PROVE Spec => CommitsOnlyForward
<1>1. PoolIInv /\ [Next /\ UNCHANGED load]_<<vars, load>>
        => [\A q \in Partition : groupOffset'[q] >= groupOffset[q]]_vars
  BY PoolStep, PoolStutter
<1> QED BY <1>1, PoolIInvHolds, PTL DEF Spec, CommitsOnlyForward
=============================================================================
