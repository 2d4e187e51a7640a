------------------------- MODULE EventPipelineProofs -------------------------
(***************************************************************************)
(* Proofs about the synchronous event processor, for any number of         *)
(* instances, records, events and disturbances: its state is well typed,   *)
(* no offset is committed past an unresolved record, effects are applied   *)
(* once, and the pipeline implements AtLeastOnce.                          *)
(***************************************************************************)
EXTENDS EventPipeline, OffsetTrackerProofs

(* In the synchronous loop the tracker never has a gap: marking the record *)
(* after the safe one, or the first one, makes exactly that record safe.   *)
LEMMA MarkNext ==
    ASSUME NEW st \in PartitionState, NEW o \in Offset,
           st.pending = {}, st.floor = None, st.safe \in {None, o - 1}
    PROVE  LET new == MarkTerminal(st, o)
           IN  /\ new \in PartitionState
               /\ new.safe = o
               /\ new.pending = {}
               /\ new.floor = None
<1> DEFINE base == Bootstrap(st, o)
           queue == st.pending \cup {o}
           gap == FirstGap(base, queue)
<1>1. base = o - 1 /\ base \in -1 .. LogEnd - 1
  BY LogEndAssumption DEF Bootstrap, Offset, None
<1>2. queue = {o} /\ queue \in SUBSET Offset
  OBVIOUS
<1>3. /\ gap \in (base + 1) .. LogEnd
      /\ gap \notin queue
      /\ \A m \in (base + 1) .. (gap - 1) : m \in queue
  <2> HIDE DEF base, queue
  <2> QED BY <1>1, <1>2, FirstGapSpec
<1>4. gap = o + 1
  <2> HIDE DEF gap, base, queue
  <2>1. gap \in o .. LogEnd /\ gap # o /\ \A m \in o .. (gap - 1) : m = o
    BY <1>1, <1>2, <1>3 DEF Offset
  <2>2. ~(gap > o + 1)
    <3> SUFFICES ASSUME gap > o + 1 PROVE FALSE
      OBVIOUS
    <3>1. o + 1 \in o .. (gap - 1)
      BY <2>1, LogEndAssumption DEF Offset
    <3> QED BY <2>1, <3>1 DEF Offset
  <2> QED BY <2>1, <2>2, LogEndAssumption DEF Offset
<1>5. ~(o <= base \/ o \in st.pending)
  BY <1>1 DEF Offset
<1>6. MarkTerminal(st, o) = [st EXCEPT !.safe = gap - 1,
                                       !.pending = queue \ ((base + 1) .. (gap - 1))]
  BY <1>5 DEF MarkTerminal
<1>7. gap - 1 = o /\ queue \ ((base + 1) .. (gap - 1)) = {}
  <2> HIDE DEF gap, base, queue
  <2> QED BY <1>1, <1>2, <1>4 DEF Offset
<1>8. MarkTerminal(st, o) \in PartitionState
  BY TrackerType
<1> HIDE DEF gap, base, queue
<1> QED BY <1>6, <1>7, <1>8 DEF PartitionState

(* A flush changes nothing but the committed mark. *)
LEMMA FlushedSame ==
    ASSUME NEW st \in PartitionState, NEW ok \in BOOLEAN
    PROVE  /\ Flushed(st, ok) \in PartitionState
           /\ Flushed(st, ok).safe = st.safe
           /\ Flushed(st, ok).pending = st.pending
           /\ Flushed(st, ok).floor = st.floor
BY DEF Flushed, MarkCommitted, PartitionState

(* A dropped tracker state is a legal one that knows nothing. *)
LEMMA NewPartitionFacts ==
    /\ NewPartition \in PartitionState
    /\ NewPartition.safe = None
    /\ NewPartition.pending = {}
    /\ NewPartition.floor = None
BY LogEndAssumption DEF NewPartition, PartitionState, MaybeOffset, None

(* None is not an offset. *)
LEMMA NoneNotOffset == None \notin Offset /\ None + 1 # None
BY DEF None, Offset

-----------------------------------------------------------------------------
(***************************************************************************)
(* Layer one: types and control shape.                                     *)
(***************************************************************************)

(* Nobody runs yet. *)
LEMMA ShapeInit == Init => ShapeInv
BY PipelineAssumption, LogEndAssumption, NewPartitionFacts
   DEF Init, ShapeInv, TypeOK, Shape, Resting, Handling, NextRecord, PC, Category,
       LeaseState, NoLease, None

(* A disturbance uses up budget. *)
LEMMA FaultType ==
    ASSUME NEW kind, budget \in 0 .. MaxFaults, Fault(kind)
    PROVE  budget' \in 0 .. MaxFaults
BY PipelineAssumption DEF Fault

(* A commit call sets the group's offset to the one after the safe offset  *)
(* of the current owner, or leaves it alone.                               *)
LEMMA CommitOffsetsEffect ==
    ASSUME NEW p \in Proc, NEW st \in PartitionState, NEW ok,
           groupOffset \in 0 .. LogEnd, budget \in 0 .. MaxFaults,
           CommitOffsets(p, st, ok)
    PROVE  /\ groupOffset' \in 0 .. LogEnd
           /\ budget' \in 0 .. MaxFaults
           /\ \/ groupOffset' = groupOffset
              \/ owner = p /\ st.safe # None /\ groupOffset' = st.safe + 1
<1>1. budget' \in 0 .. MaxFaults
  BY FaultType DEF CommitOffsets
<1>2. \/ groupOffset' = groupOffset
      \/ owner = p /\ st.safe # None /\ groupOffset' = st.safe + 1
  BY DEF CommitOffsets, HasUncommitted
<1>3. st.safe # None => st.safe + 1 \in 0 .. LogEnd
  BY LogEndAssumption DEF PartitionState, MaybeOffset, None
<1> QED BY <1>1, <1>2, <1>3

USE DEF ShapeInv, brokerVars, storeVars, loopVars, recordVars, trackVars, Goto

(* Starting up touches nothing but the control point. *)
LEMMA Shape_Start ==
    ASSUME ShapeInv, NEW p \in Proc, Start(p) PROVE ShapeInv'
<1>1. TypeOK'
  BY DEF Start, TypeOK, PC
<1>2. ASSUME NEW q \in Proc PROVE Shape(q)'
  BY NoneNotOffset DEF Start, TypeOK, Shape, NextRecord, Resting, Handling
<1> QED BY <1>1, <1>2

(* An assigned instance resumes at the committed offset. *)
LEMMA Shape_OnAssign ==
    ASSUME ShapeInv, NEW p \in Proc, OnAssign(p) PROVE ShapeInv'
<1>1. TypeOK'
  BY DEF OnAssign, TypeOK
<1>2. ASSUME NEW q \in Proc PROVE Shape(q)'
  BY NoneNotOffset, PipelineAssumption
     DEF OnAssign, TypeOK, Shape, NextRecord, Resting, Handling
<1> QED BY <1>1, <1>2

(* Revocation flushes, then drops the tracker state. *)
LEMMA Shape_OnRevoke ==
    ASSUME ShapeInv, NEW p \in Proc, OnRevoke(p) PROVE ShapeInv'
<1>1. track[p] \in PartitionState
  BY DEF TypeOK
<1>2. track[p].safe # None => track[p].safe + 1 \in 0 .. LogEnd
  BY <1>1, LogEndAssumption DEF PartitionState, MaybeOffset, None
<1>3. groupOffset' \in 0 .. LogEnd
  BY <1>2 DEF OnRevoke, TypeOK, HasUncommitted
<1>4. budget' \in 0 .. MaxFaults
  BY FaultType DEF OnRevoke, TypeOK
<1>5. TypeOK'
  BY <1>3, <1>4, NewPartitionFacts DEF OnRevoke, TypeOK
<1>6. ASSUME NEW q \in Proc PROVE Shape(q)'
  BY NoneNotOffset, PipelineAssumption, NewPartitionFacts
     DEF OnRevoke, TypeOK, Shape, NextRecord, Resting, Handling
<1> QED BY <1>5, <1>6

(* An eviction leaves the instance as it is. *)
LEMMA Shape_SessionLost ==
    ASSUME ShapeInv, NEW p \in Proc, SessionLost(p) PROVE ShapeInv'
<1>1. TypeOK'
  BY FaultType DEF SessionLost, TypeOK
<1>2. ASSUME NEW q \in Proc PROVE Shape(q)'
  BY NoneNotOffset, PipelineAssumption
     DEF SessionLost, TypeOK, Shape, NextRecord, Resting, Handling
<1> QED BY <1>1, <1>2

(* A fetched record is the one at the fetch position. *)
LEMMA Shape_PollRecord ==
    ASSUME ShapeInv, NEW p \in Proc, PollRecord(p) PROVE ShapeInv'
<1>1. pos[p] \in Offset /\ pos[p] + 1 \in 0 .. LogEnd
  BY LogEndAssumption DEF PollRecord, TypeOK, Offset
<1>2. TypeOK'
  BY <1>1 DEF PollRecord, TypeOK, PC, Category
<1>3. ASSUME NEW q \in Proc PROVE Shape(q)'
  BY <1>1, NoneNotOffset, PipelineAssumption
     DEF PollRecord, TypeOK, Shape, NextRecord, Resting, Handling
<1> QED BY <1>2, <1>3

(* An idle flush commits right below the next record. *)
LEMMA Shape_PollIdle ==
    ASSUME ShapeInv, NEW p \in Proc, PollIdle(p) PROVE ShapeInv'
<1>1. CASE UNCHANGED vars
  BY <1>1 DEF vars, TypeOK, Shape, NextRecord
<1>2. CASE ~UNCHANGED vars
  <2>1. PICK ok \in BOOLEAN :
            /\ CommitOffsets(p, track[p], ok)
            /\ track' = [track EXCEPT ![p] = Flushed(track[p], ok)]
            /\ sinceFlush' = [sinceFlush EXCEPT ![p] = IF ok THEN 0 ELSE @]
            /\ pc' = [pc EXCEPT ![p] = IF ok THEN "idle" ELSE "stopping"]
            /\ UNCHANGED <<owner, storeVars, loopVars, recordVars>>
    BY <1>2 DEF PollIdle
  <2>2. track[p] \in PartitionState
    BY DEF TypeOK
  <2>3. /\ groupOffset' \in 0 .. LogEnd
        /\ budget' \in 0 .. MaxFaults
        /\ \/ groupOffset' = groupOffset
           \/ /\ owner = p
              /\ track[p].safe # None
              /\ groupOffset' = track[p].safe + 1
    BY <2>1, <2>2, CommitOffsetsEffect DEF TypeOK
  <2>4. /\ track'[p] \in PartitionState
        /\ track'[p].safe = track[p].safe
        /\ track'[p].pending = track[p].pending
        /\ track'[p].floor = track[p].floor
    BY <2>1, <2>2, FlushedSame DEF TypeOK
  <2>5. TypeOK'
    <3>1. track' \in [Proc -> PartitionState]
      BY <2>1, <2>2, FlushedSame DEF TypeOK
    <3>2. sinceFlush' \in [Proc -> 0 .. BatchSize]
      BY <2>1, PipelineAssumption DEF TypeOK
    <3>3. pc' \in [Proc -> PC]
      BY <2>1 DEF TypeOK, PC
    <3> QED BY <2>1, <2>3, <3>1, <3>2, <3>3 DEF TypeOK
  <2>6. pc[p] = "idle"
    BY DEF PollIdle
  <2>7. ASSUME NEW q \in Proc PROVE Shape(q)'
    <3>1. CASE q = p
      BY <2>1, <2>3, <2>4, <2>6, <3>1, NoneNotOffset
         DEF TypeOK, Shape, NextRecord, Resting, Handling
    <3>2. CASE q # p
      BY <2>1, <2>3, <3>2 DEF TypeOK, Shape, NextRecord
    <3> QED BY <3>1, <3>2
  <2> QED BY <2>5, <2>7
<1> QED BY <1>1, <1>2

(* Leaving the loop only moves the control point. *)
LEMMA Shape_LeaveLoop ==
    ASSUME ShapeInv, NEW p \in Proc, LeaveLoop(p) PROVE ShapeInv'
<1>1. TypeOK'
  BY FaultType DEF LeaveLoop, TypeOK, PC
<1>2. ASSUME NEW q \in Proc PROVE Shape(q)'
  BY NoneNotOffset DEF LeaveLoop, TypeOK, Shape, NextRecord, Resting, Handling
<1> QED BY <1>1, <1>2

(* Shutdown flushes, leaves the group and forgets. *)
LEMMA Shape_Stop ==
    ASSUME ShapeInv, NEW p \in Proc, Stop(p) PROVE ShapeInv'
<1>1. track[p] \in PartitionState
  BY DEF TypeOK
<1>2. /\ groupOffset' \in 0 .. LogEnd
      /\ budget' \in 0 .. MaxFaults
      /\ groupOffset' = groupOffset \/ owner = p
  BY <1>1, CommitOffsetsEffect DEF TypeOK, Stop
<1>3. TypeOK'
  BY <1>2, NewPartitionFacts, PipelineAssumption DEF Stop, TypeOK, PC
<1>4. ASSUME NEW q \in Proc PROVE Shape(q)'
  BY <1>2, NoneNotOffset, NewPartitionFacts, PipelineAssumption
     DEF Stop, TypeOK, Shape, NextRecord, Resting, Handling
<1> QED BY <1>3, <1>4

(* A crash forgets everything in memory. *)
LEMMA Shape_Crash ==
    ASSUME ShapeInv, NEW p \in Proc, Crash(p) PROVE ShapeInv'
<1>1. TypeOK'
  BY FaultType, NewPartitionFacts, PipelineAssumption
     DEF Crash, Forget, TypeOK, PC, Category
<1>2. ASSUME NEW q \in Proc PROVE Shape(q)'
  BY NoneNotOffset, NewPartitionFacts, PipelineAssumption
     DEF Crash, Forget, TypeOK, Shape, NextRecord, Resting, Handling
<1> QED BY <1>1, <1>2

(* Leaving process() unresolved keeps the instance's state well typed. *)
LEMMA UnresolvedType ==
    ASSUME TypeOK, NEW p \in Proc, Unresolved(p)
    PROVE  /\ pc' \in [Proc -> PC]
           /\ cur' \in [Proc -> Offset \cup {None}]
           /\ token' \in [Proc -> Token \cup {NoToken}]
           /\ dup' \in [Proc -> BOOLEAN]
           /\ attempt' \in [Proc -> 1 .. MaxAttempts]
           /\ category' \in [Proc -> Category]
           /\ UNCHANGED <<groupOffset, owner, pos, assigned, track, sinceFlush>>
BY PipelineAssumption DEF Unresolved, Forget, TypeOK, PC, Category

(* A reservation starts handling or ends the loop. *)
LEMMA Shape_Reserve ==
    ASSUME ShapeInv, NEW p \in Proc, Reserve(p) PROVE ShapeInv'
<1>1. cur[p] \in Offset /\ Ev(p) \in Event
  BY NoneNotOffset DEF Reserve, TypeOK, Shape, Handling, Resting, Ev
<1>2. TypeOK'
  <2>1. CASE Unresolved(p) /\ UNCHANGED lease
    BY <2>1, UnresolvedType DEF Reserve, TypeOK
  <2>2. CASE ~(Unresolved(p) /\ UNCHANGED lease)
    <3>1. CASE lease[Ev(p)].status = "absent"
      <4>1. PICK t \in Token : /\ lease' = [lease EXCEPT ![Ev(p)] = Held(t)]
                               /\ token' = [token EXCEPT ![p] = t]
        BY <2>2, <3>1 DEF Reserve, FreshToken
      <4>2. Held(t) \in LeaseState
        BY DEF LeaseState, Held
      <4> QED BY <2>2, <3>1, <4>1, <4>2 DEF Reserve, TypeOK, PC
    <3>2. CASE lease[Ev(p)].status # "absent"
      BY <2>2, <3>2 DEF Reserve, TypeOK, PC
    <3> QED BY <3>1, <3>2
  <2> QED BY <2>1, <2>2
<1>3. ASSUME NEW q \in Proc PROVE Shape(q)'
  BY <1>1, NoneNotOffset
     DEF Reserve, Unresolved, Forget, TypeOK, Shape, NextRecord, Resting, Handling, Ev
<1> QED BY <1>2, <1>3

(* A failed reservation ends the loop. *)
LEMMA Shape_ReserveFails ==
    ASSUME ShapeInv, NEW p \in Proc, ReserveFails(p) PROVE ShapeInv'
<1>1. cur[p] \in Offset /\ Ev(p) \in Event
  BY NoneNotOffset DEF ReserveFails, TypeOK, Shape, Handling, Resting, Ev
<1>2. TypeOK'
  <2>1. lease' \in [Event -> LeaseState]
    BY <1>1 DEF ReserveFails, FreshToken, TypeOK, LeaseState, Held
  <2> QED BY <2>1, UnresolvedType, FaultType DEF ReserveFails, TypeOK
<1>3. ASSUME NEW q \in Proc PROVE Shape(q)'
  BY <1>1, NoneNotOffset
     DEF ReserveFails, Unresolved, Forget, TypeOK, Shape, NextRecord, Resting, Handling
<1> QED BY <1>2, <1>3

(* A key that expires changes nothing but Redis. *)
LEMMA Shape_LeaseEnds ==
    ASSUME ShapeInv, NEW e \in Event,
           LeaseExpires(e) \/ LeaseOutlived(e) \/ CompletedEvicted(e)
    PROVE  ShapeInv'
<1>1. lease' \in [Event -> LeaseState] /\ budget' \in 0 .. MaxFaults
  BY FaultType DEF LeaseExpires, LeaseOutlived, CompletedEvicted, TypeOK, LeaseState,
     NoLease
<1>2. UNCHANGED <<brokerVars, ledger, effects, dlq, pc, loopVars, recordVars, trackVars>>
  BY DEF LeaseExpires, LeaseOutlived, CompletedEvicted
<1> QED BY <1>1, <1>2 DEF TypeOK, Shape, NextRecord

(* The lookup of the event only picks the next stage. *)
LEMMA Shape_TxBegin ==
    ASSUME ShapeInv, NEW p \in Proc, TxBegin(p) PROVE ShapeInv'
<1>1. TypeOK'
  BY DEF TxBegin, Persisted, GiveUp, TypeOK, PC, Category
<1>2. ASSUME NEW q \in Proc PROVE Shape(q)'
  BY NoneNotOffset
     DEF TxBegin, Persisted, GiveUp, TypeOK, Shape, NextRecord, Resting, Handling
<1> QED BY <1>1, <1>2

(* A transaction writes a row, gives up or retries. *)
LEMMA Shape_TxCommit ==
    ASSUME ShapeInv, NEW p \in Proc, TxCommit(p) PROVE ShapeInv'
<1>1. cur[p] \in Offset /\ Ev(p) \in Event
  BY NoneNotOffset DEF TxCommit, TypeOK, Shape, Handling, Resting, Ev
<1>2. ledger' \in [Event -> Digest \cup {NoDigest}] /\ effects' \in [Event -> Nat]
  BY <1>1, PipelineAssumption DEF TxCommit, WriteEffects, TypeOK
<1>3. /\ pc' \in [Proc -> PC] /\ attempt' \in [Proc -> 1 .. MaxAttempts]
      /\ category' \in [Proc -> Category]
  BY PipelineAssumption
     DEF TxCommit, Persisted, GiveUp, Retry, TypeOK, PC, Category
<1>4. TypeOK'
  BY <1>2, <1>3 DEF TxCommit, TypeOK
<1>5. ASSUME NEW q \in Proc PROVE Shape(q)'
  BY NoneNotOffset
     DEF TxCommit, Persisted, GiveUp, Retry, TypeOK, Shape, NextRecord, Resting,
         Handling
<1> QED BY <1>4, <1>5

(* A failed transaction retries or gives up. *)
LEMMA Shape_TxFails ==
    ASSUME ShapeInv, NEW p \in Proc, TxFails(p) PROVE ShapeInv'
<1>1. cur[p] \in Offset /\ Ev(p) \in Event
  BY NoneNotOffset DEF TxFails, TypeOK, Shape, Handling, Resting, Ev
<1>2. ledger' \in [Event -> Digest \cup {NoDigest}] /\ effects' \in [Event -> Nat]
  BY <1>1, PipelineAssumption DEF TxFails, WriteEffects, TypeOK
<1>3. /\ pc' \in [Proc -> PC] /\ attempt' \in [Proc -> 1 .. MaxAttempts]
      /\ category' \in [Proc -> Category]
  BY PipelineAssumption DEF TxFails, GiveUp, Retry, TypeOK, PC, Category
<1>4. TypeOK'
  BY <1>2, <1>3, FaultType DEF TxFails, TypeOK
<1>5. ASSUME NEW q \in Proc PROVE Shape(q)'
  BY NoneNotOffset
     DEF TxFails, GiveUp, Retry, TypeOK, Shape, NextRecord, Resting, Handling
<1> QED BY <1>4, <1>5

(* Completing goes on to the commit or ends the loop. *)
LEMMA Shape_Complete ==
    ASSUME ShapeInv, NEW p \in Proc, Complete(p) PROVE ShapeInv'
<1>1. cur[p] \in Offset /\ Ev(p) \in Event
  BY NoneNotOffset DEF Complete, TypeOK, Shape, Handling, Resting, Ev
<1>2. TypeOK'
  <2>1. lease' \in [Event -> LeaseState]
    BY <1>1 DEF Complete, TypeOK, LeaseState, Done
  <2>2. CASE Unresolved(p)
    BY <2>1, <2>2, UnresolvedType DEF Complete, TypeOK
  <2>3. CASE ~Unresolved(p)
    BY <2>1, <2>3 DEF Complete, TypeOK, PC
  <2> QED BY <2>2, <2>3
<1>3. ASSUME NEW q \in Proc PROVE Shape(q)'
  BY <1>1, NoneNotOffset
     DEF Complete, Unresolved, Forget, TypeOK, Shape, NextRecord, Resting, Handling
<1> QED BY <1>2, <1>3

(* A failed completion ends the loop. *)
LEMMA Shape_CompleteFails ==
    ASSUME ShapeInv, NEW p \in Proc, CompleteFails(p) PROVE ShapeInv'
<1>1. cur[p] \in Offset /\ Ev(p) \in Event
  BY NoneNotOffset DEF CompleteFails, TypeOK, Shape, Handling, Resting, Ev
<1>2. TypeOK'
  <2>1. lease' \in [Event -> LeaseState]
    BY <1>1 DEF CompleteFails, TypeOK, LeaseState, Done
  <2> QED BY <2>1, UnresolvedType, FaultType DEF CompleteFails, TypeOK
<1>3. ASSUME NEW q \in Proc PROVE Shape(q)'
  BY <1>1, NoneNotOffset
     DEF CompleteFails, Unresolved, Forget, TypeOK, Shape, NextRecord, Resting, Handling
<1> QED BY <1>2, <1>3

(* A release goes on to the dead-letter topic. *)
LEMMA Shape_Release ==
    ASSUME ShapeInv, NEW p \in Proc, Release(p) PROVE ShapeInv'
<1>1. lease' \in [Event -> LeaseState] /\ budget' \in 0 .. MaxFaults
  BY FaultType DEF Release, Released, TypeOK, LeaseState, NoLease
<1>2. TypeOK'
  BY <1>1 DEF Release, TypeOK, PC
<1>3. ASSUME NEW q \in Proc PROVE Shape(q)'
  BY NoneNotOffset DEF Release, TypeOK, Shape, NextRecord, Resting, Handling
<1> QED BY <1>2, <1>3

(* A published record goes on to the commit. *)
LEMMA Shape_DlqPublish ==
    ASSUME ShapeInv, NEW p \in Proc, DlqPublish(p) PROVE ShapeInv'
<1>1. cur[p] \in Offset /\ category[p] \in Category \ {"none"}
  BY NoneNotOffset DEF DlqPublish, TypeOK, Shape, Resting
<1>2. TypeOK'
  BY <1>1 DEF DlqPublish, TypeOK, PC
<1>3. ASSUME NEW q \in Proc PROVE Shape(q)'
  BY <1>1, NoneNotOffset DEF DlqPublish, TypeOK, Shape, NextRecord, Resting, Handling
<1> QED BY <1>2, <1>3

(* An unconfirmed publication ends the loop. *)
LEMMA Shape_DlqFails ==
    ASSUME ShapeInv, NEW p \in Proc, DlqFails(p) PROVE ShapeInv'
<1>1. cur[p] \in Offset /\ category[p] \in Category \ {"none"}
  BY NoneNotOffset DEF DlqFails, TypeOK, Shape, Resting
<1>2. TypeOK'
  BY <1>1, FaultType, PipelineAssumption
     DEF DlqFails, Unresolved, Forget, TypeOK, PC, Category
<1>3. ASSUME NEW q \in Proc PROVE Shape(q)'
  BY <1>1, NoneNotOffset
     DEF DlqFails, Unresolved, Forget, TypeOK, Shape, NextRecord, Resting, Handling
<1> QED BY <1>2, <1>3

(* Marking and flushing makes exactly this record safe. *)
LEMMA Shape_CommitTerminal ==
    ASSUME ShapeInv, NEW p \in Proc, CommitTerminal(p) PROVE ShapeInv'
<1> DEFINE st == MarkTerminal(track[p], cur[p])
           n == Bump(sinceFlush[p])
<1>1. /\ pc[p] = "commit" /\ cur[p] \in Offset /\ assigned[p]
      /\ pos[p] = cur[p] + 1
  BY NoneNotOffset DEF CommitTerminal, TypeOK, Shape, Resting
<1>2. /\ st \in PartitionState /\ st.safe = cur[p]
      /\ st.pending = {} /\ st.floor = None
  <2>1. /\ track[p] \in PartitionState
        /\ track[p].pending = {} /\ track[p].floor = None
        /\ track[p].safe \in {None, cur[p] - 1}
    BY <1>1, NoneNotOffset DEF TypeOK, Shape, NextRecord
  <2> QED BY <1>1, <2>1, MarkNext
<1>3. n \in 0 .. BatchSize
  BY PipelineAssumption DEF TypeOK, Bump
<1> HIDE DEF st, n
<1>4. PICK new \in PartitionState, m \in 0 .. BatchSize, l \in {"idle", "stopping"} :
          /\ new.safe = cur[p] /\ new.pending = {} /\ new.floor = None
          /\ track' = [track EXCEPT ![p] = new]
          /\ sinceFlush' = [sinceFlush EXCEPT ![p] = m]
          /\ pc' = [pc EXCEPT ![p] = l]
          /\ groupOffset' \in 0 .. LogEnd /\ budget' \in 0 .. MaxFaults
          /\ \/ groupOffset' = groupOffset
             \/ owner = p /\ groupOffset' = cur[p] + 1
  <2>1. CASE /\ track' = [track EXCEPT ![p] = st]
             /\ sinceFlush' = [sinceFlush EXCEPT ![p] = n]
             /\ pc' = [pc EXCEPT ![p] = "idle"]
             /\ UNCHANGED <<groupOffset, budget>>
    BY <1>2, <1>3, <2>1 DEF TypeOK
  <2>2. CASE \E ok \in BOOLEAN :
                /\ CommitOffsets(p, st, ok)
                /\ track' = [track EXCEPT ![p] = Flushed(st, ok)]
                /\ sinceFlush' = [sinceFlush EXCEPT ![p] = IF ok THEN 0 ELSE n]
                /\ pc' = [pc EXCEPT ![p] = IF ok THEN "idle" ELSE "stopping"]
    <3>1. PICK ok \in BOOLEAN :
                /\ CommitOffsets(p, st, ok)
                /\ track' = [track EXCEPT ![p] = Flushed(st, ok)]
                /\ sinceFlush' = [sinceFlush EXCEPT ![p] = IF ok THEN 0 ELSE n]
                /\ pc' = [pc EXCEPT ![p] = IF ok THEN "idle" ELSE "stopping"]
      BY <2>2
    <3>2. /\ groupOffset' \in 0 .. LogEnd /\ budget' \in 0 .. MaxFaults
          /\ \/ groupOffset' = groupOffset
             \/ owner = p /\ groupOffset' = cur[p] + 1
      BY <1>2, <3>1, CommitOffsetsEffect DEF TypeOK
    <3>3. /\ Flushed(st, ok) \in PartitionState /\ Flushed(st, ok).safe = cur[p]
          /\ Flushed(st, ok).pending = {} /\ Flushed(st, ok).floor = None
      BY <1>2, FlushedSame
    <3>4. (IF ok THEN 0 ELSE n) \in 0 .. BatchSize
      BY <1>3, PipelineAssumption
    <3> QED BY <3>1, <3>2, <3>3, <3>4
  <2> QED BY <2>1, <2>2 DEF CommitTerminal, st, n
<1>5. Forget(p) /\ UNCHANGED <<owner, storeVars, loopVars>>
  BY DEF CommitTerminal
<1>6. TypeOK'
  BY <1>4, <1>5, PipelineAssumption DEF Forget, TypeOK, PC, Category
<1>7. ASSUME NEW q \in Proc PROVE Shape(q)'
  <2>1. CASE q = p
    <3>1. cur'[p] = None /\ pc'[p] = l /\ track'[p] = new
      BY <1>4, <1>5 DEF Forget, TypeOK
    <3>2. UNCHANGED <<owner, pos, assigned>>
      BY <1>5
    <3>3. NextRecord(p)' = cur[p] + 1
      BY <1>1, <3>1, <3>2 DEF NextRecord
    <3>4. owner = p => groupOffset <= cur[p]
      BY <1>1, NoneNotOffset DEF TypeOK, Shape, NextRecord
    <3>5. owner' = p => groupOffset' <= cur[p] + 1
      BY <1>1, <1>4, <3>2, <3>4 DEF Offset, TypeOK
    <3>6. cur[p] = (cur[p] + 1) - 1
      BY <1>1 DEF Offset
    <3> QED BY <1>1, <1>4, <2>1, <3>1, <3>2, <3>3, <3>5, <3>6 DEF Shape, Resting, Handling
  <2>2. CASE q # p
    BY <1>4, <1>5, <2>2 DEF Forget, TypeOK, Shape, NextRecord
  <2> QED BY <2>1, <2>2
<1> QED BY <1>6, <1>7

(* Every step of the pipeline preserves types and control shape. *)
LEMMA ShapeStep == ShapeInv /\ [Next]_vars => ShapeInv'
<1> SUFFICES ASSUME ShapeInv, [Next]_vars PROVE ShapeInv'
  OBVIOUS
<1>1. CASE UNCHANGED vars
  BY <1>1 DEF vars, TypeOK, Shape, NextRecord
<1>2. ASSUME NEW p \in Proc, Step(p) PROVE ShapeInv'
  BY <1>2, Shape_Start, Shape_PollRecord, Shape_PollIdle, Shape_Stop, Shape_Reserve,
     Shape_TxBegin, Shape_TxCommit, Shape_Complete, Shape_Release, Shape_DlqPublish,
     Shape_CommitTerminal DEF Step
<1>3. ASSUME NEW p \in Proc, Disturbance(p) PROVE ShapeInv'
  BY <1>3, Shape_OnRevoke, Shape_SessionLost, Shape_LeaveLoop, Shape_Crash,
     Shape_ReserveFails, Shape_TxFails, Shape_CompleteFails, Shape_DlqFails
     DEF Disturbance
<1>4. ASSUME NEW p \in Proc, OnAssign(p) PROVE ShapeInv'
  BY <1>4, Shape_OnAssign
<1>5. ASSUME NEW e \in Event,
             LeaseExpires(e) \/ LeaseOutlived(e) \/ CompletedEvicted(e)
      PROVE  ShapeInv'
  BY <1>5, Shape_LeaseEnds
<1> QED BY <1>1, <1>2, <1>3, <1>4, <1>5 DEF Next

(* The pipeline's state is well typed in every reachable state, for any    *)
(* number of instances, records, attempts and disturbances.                *)
THEOREM TypeCorrect == Spec => []TypeOK
<1>1. Init => ShapeInv
  BY ShapeInit
<1>2. ShapeInv /\ [Next]_vars => ShapeInv'
  BY ShapeStep
<1>3. ShapeInv => TypeOK
  BY DEF ShapeInv
<1> QED BY <1>1, <1>2, <1>3, PTL DEF Spec

-----------------------------------------------------------------------------
(***************************************************************************)
(* Layer two: outcomes.  First, no step takes an outcome back.             *)
(***************************************************************************)

(* A transaction adds a ledger row only where there is none. *)
LEMMA WriteOnlyFresh ==
    ASSUME ShapeInv, NEW p \in Proc, Ev(p) \in Event, Admissible(Ev(p)), WriteEffects(p)
    PROVE  /\ ledger' = [ledger EXCEPT ![Ev(p)] = DigestOf[cur[p]]]
           /\ \A e \in Event : ledger[e] # NoDigest => ledger'[e] = ledger[e]
BY DEF Admissible, WriteEffects, TypeOK

(* The dead-letter topic only grows, and a ledger row never changes. *)
LEMMA StoreMonotone ==
    ASSUME ShapeInv, [Next]_vars
    PROVE  /\ dlq \subseteq dlq'
           /\ \A e \in Event : ledger[e] # NoDigest => ledger'[e] = ledger[e]
<1> DEFINE Grows == /\ dlq \subseteq dlq'
                    /\ \A e \in Event : ledger[e] # NoDigest => ledger'[e] = ledger[e]
<1> SUFFICES Grows
  OBVIOUS
<1>1. CASE UNCHANGED vars
  BY <1>1 DEF vars
<1>2. ASSUME NEW p \in Proc, TxCommit(p) \/ TxFails(p) PROVE Grows
  <2>1. Ev(p) \in Event
    BY <1>2, NoneNotOffset DEF TxCommit, TxFails, TypeOK, Shape, Handling, Resting, Ev
  <2>2. /\ dlq' = dlq
        /\ \/ ledger' = ledger
           \/ Admissible(Ev(p)) /\ WriteEffects(p)
    BY <1>2 DEF TxCommit, TxFails
  <2> QED BY <2>1, <2>2, WriteOnlyFresh
<1>3. ASSUME NEW p \in Proc, DlqPublish(p) \/ DlqFails(p) PROVE Grows
  BY <1>3 DEF DlqPublish, DlqFails
<1>4. ASSUME NEW p \in Proc, Step(p), ~TxCommit(p), ~DlqPublish(p) PROVE Grows
  BY <1>4 DEF Step, Start, PollRecord, PollIdle, Stop, Reserve, TxBegin, Complete,
     Release, CommitTerminal, vars
<1>5. ASSUME NEW p \in Proc, Disturbance(p), ~TxFails(p), ~DlqFails(p) PROVE Grows
  BY <1>5 DEF Disturbance, OnRevoke, SessionLost, LeaveLoop, Crash, ReserveFails,
     CompleteFails
<1>6. ASSUME NEW p \in Proc, OnAssign(p) PROVE Grows
  BY <1>6 DEF OnAssign
<1>7. ASSUME NEW e \in Event, LeaseExpires(e) \/ LeaseOutlived(e) \/ CompletedEvicted(e)
      PROVE  Grows
  BY <1>7 DEF LeaseExpires, LeaseOutlived, CompletedEvicted
<1> HIDE DEF Grows
<1> QED BY <1>1, <1>2, <1>3, <1>4, <1>5, <1>6, <1>7 DEF Next, Step, Disturbance

(* A terminal record stays terminal, a dead parent stays dead. *)
LEMMA OutcomesStable ==
    ASSUME ShapeInv, [Next]_vars, NEW o \in Offset
    PROVE  /\ Terminal(o) => Terminal(o)'
           /\ DeadParent(o) => DeadParent(o)'
<1>1. dlq \subseteq dlq' /\ \A e \in Event : ledger[e] # NoDigest => ledger'[e] = ledger[e]
  BY StoreMonotone
<1>2. DigestOf[o] # NoDigest
  BY PipelineAssumption
<1> QED BY <1>1, <1>2 DEF Terminal, DeadParent, DeadLettered

(* The offsets below an instance's next record, and up to its safe offset, *)
(* are offsets of the log.                                                 *)
LEMMA PrefixOffsets ==
    ASSUME ShapeInv, NEW p \in Proc
    PROVE  /\ NextRecord(p) \in 0 .. LogEnd
           /\ 0 .. NextRecord(p) - 1 \subseteq Offset
           /\ 0 .. track[p].safe \subseteq Offset
           /\ 0 .. groupOffset - 1 \subseteq Offset
<1>1. NextRecord(p) \in 0 .. LogEnd /\ groupOffset \in 0 .. LogEnd
  BY LogEndAssumption, NoneNotOffset DEF TypeOK, NextRecord, Offset
<1>2. track[p].safe \in MaybeOffset
  BY DEF TypeOK, PartitionState
<1> QED BY <1>1, <1>2, LogEndAssumption DEF MaybeOffset, Offset, None

(* What an instance has resolved stays resolved while it keeps its place   *)
(* in the partition, stops, or loses the partition.                        *)
LEMMA PrefixKept ==
    ASSUME IInv, [Next]_vars, NEW p \in Proc,
           (assigned'[p] /\ pc'[p] # "stopping")
                => /\ assigned[p] /\ pc[p] # "stopping"
                   /\ NextRecord(p)' = NextRecord(p),
           track'[p].safe \in {None, track[p].safe}
    PROVE  PrefixResolved(p)'
<1>1. PrefixResolved(p) /\ ShapeInv
  BY DEF IInv, OutcomeInv
<1>2. 0 .. NextRecord(p) - 1 \subseteq Offset /\ 0 .. track[p].safe \subseteq Offset
  BY <1>1, PrefixOffsets
<1>3. 0 .. None = {}
  BY DEF None
<1>4. (assigned'[p] /\ pc'[p] # "stopping") => \A o \in 0 .. NextRecord(p)' - 1 : Terminal(o)'
  BY <1>1, <1>2, OutcomesStable DEF PrefixResolved
<1>5. \A o \in 0 .. track'[p].safe : Terminal(o)'
  BY <1>1, <1>2, <1>3, OutcomesStable DEF PrefixResolved
<1> QED BY <1>4, <1>5 DEF PrefixResolved

(* A stage an instance has not moved from keeps what it rests on. *)
LEMMA StageKept ==
    ASSUME IInv, [Next]_vars, NEW p \in Proc,
           pc'[p] = pc[p], cur'[p] = cur[p], category'[p] = category[p]
    PROVE  StageOutcome(p)'
<1>1. StageOutcome(p) /\ ShapeInv /\ TypeOK /\ Shape(p)
  BY DEF IInv, OutcomeInv
<1>2. CASE pc[p] \notin {"complete", "commit", "release", "dlq"}
  BY <1>2 DEF StageOutcome
<1>3. CASE pc[p] \in {"complete", "commit", "release", "dlq"}
  <2>1. cur[p] \in Offset
    BY <1>1, <1>3, NoneNotOffset DEF TypeOK, Shape, Resting
  <2>2. pc[p] = "complete" => Ev(p) \in Event
    BY <1>1 DEF Shape, Handling, Ev
  <2>3. DigestOf[cur[p]] # NoDigest
    BY <2>1, PipelineAssumption
  <2>4. pc[p] = "complete" => ledger'[Ev(p)] = DigestOf[cur[p]]
    BY <1>1, <2>2, <2>3, StoreMonotone DEF StageOutcome
  <2>5. Ev(p)' = Ev(p)
    BY DEF Ev
  <2>6. Terminal(cur[p]) => Terminal(cur[p])'
    <3>1. \A o \in Offset : (Terminal(o) => Terminal(o)') /\ (DeadParent(o) => DeadParent(o)')
      BY <1>1, OutcomesStable
    <3>2. Terminal(cur[p])' <=> \E o \in Offset : o = cur'[p] /\ Terminal(o)'
      BY <2>1
    <3> QED BY <2>1, <3>1, <3>2
  <2> QED BY <1>1, <2>1, <2>4, <2>5, <2>6, OutcomesStable DEF StageOutcome
<1> QED BY <1>2, <1>3

(* An instance's own state only changes in its own steps. *)
LEMMA OthersUntouched ==
    ASSUME ShapeInv, NEW p \in Proc, NEW q \in Proc, q # p,
           Step(p) \/ OnAssign(p) \/ Disturbance(p)
    PROVE  /\ pc'[q] = pc[q] /\ cur'[q] = cur[q] /\ pos'[q] = pos[q]
           /\ assigned'[q] = assigned[q] /\ category'[q] = category[q]
           /\ track'[q] = track[q] /\ attempt'[q] = attempt[q]
<1> DEFINE Same == /\ pc'[q] = pc[q] /\ cur'[q] = cur[q] /\ pos'[q] = pos[q]
                   /\ assigned'[q] = assigned[q] /\ category'[q] = category[q]
                   /\ track'[q] = track[q] /\ attempt'[q] = attempt[q]
<1> SUFFICES Same
  OBVIOUS
<1>1. CASE Start(p) \/ PollRecord(p) \/ PollIdle(p) \/ Stop(p)
  BY <1>1 DEF Start, PollRecord, PollIdle, Stop, TypeOK, vars
<1>2. CASE Reserve(p) \/ Complete(p) \/ Release(p) \/ DlqPublish(p)
  BY <1>2 DEF Reserve, Complete, Release, DlqPublish, Unresolved, Forget, TypeOK
<1>3. CASE TxBegin(p) \/ TxCommit(p) \/ TxFails(p)
  BY <1>3 DEF TxBegin, TxCommit, TxFails, Persisted, GiveUp, Retry, TypeOK
<1>4. CASE CommitTerminal(p)
  BY <1>4 DEF CommitTerminal, Forget, TypeOK
<1>5. CASE OnAssign(p) \/ OnRevoke(p) \/ SessionLost(p) \/ LeaveLoop(p) \/ Crash(p)
  BY <1>5 DEF OnAssign, OnRevoke, SessionLost, LeaveLoop, Crash, Forget, TypeOK
<1>6. CASE ReserveFails(p) \/ CompleteFails(p) \/ DlqFails(p)
  BY <1>6 DEF ReserveFails, CompleteFails, DlqFails, Unresolved, Forget, TypeOK
<1> HIDE DEF Same
<1> QED BY <1>1, <1>2, <1>3, <1>4, <1>5, <1>6 DEF Step, Disturbance

(* A missing dependency means a dead parent: everything before the record  *)
(* is terminal and the dependency comes before it, so if it has no ledger  *)
(* row, the record that carries it is in the dead-letter topic.            *)
LEMMA MissingMeansDeadParent ==
    ASSUME IInv, NEW p \in Proc, pc[p] = "tx",
           NEW d \in Needs[Ev(p)], ledger[d] = NoDigest
    PROVE  DeadParent(cur[p])
<1>1. ShapeInv /\ Shape(p) /\ PrefixResolved(p) /\ TypeOK
  BY DEF IInv, OutcomeInv
<1>2. cur[p] \in Offset /\ EventOf[cur[p]] \in Event /\ assigned[p] /\ NextRecord(p) = cur[p]
  BY <1>1, NoneNotOffset DEF TypeOK, Shape, Resting, Handling, NextRecord
<1>3. PICK r \in 0 .. cur[p] - 1 : EventOf[r] = d
  BY <1>2, CausalLogAssumption DEF Ev
<1>4. r \in Offset /\ DigestOf[r] # NoDigest
  BY <1>1, <1>2, <1>3, PrefixOffsets, PipelineAssumption
<1>5. Terminal(r)
  BY <1>1, <1>2, <1>3 DEF PrefixResolved
<1>6. DeadLettered(r)
  BY <1>3, <1>4, <1>5 DEF Terminal
<1> QED BY <1>3, <1>6 DEF DeadParent, Ev

(* The steps that neither resolve nor give up a record. *)
LEMMA Outcome_Loop ==
    ASSUME IInv, [Next]_vars, NEW p \in Proc,
           Start(p) \/ PollRecord(p) \/ PollIdle(p) \/ LeaveLoop(p) \/ SessionLost(p)
    PROVE  PrefixResolved(p)' /\ StageOutcome(p)'
<1>1. ShapeInv /\ TypeOK /\ Shape(p)
  BY DEF IInv
<1>2. track'[p].safe = track[p].safe
  <2>1. CASE PollIdle(p)
    <3>1. \/ track' = track
          \/ \E ok \in BOOLEAN : track' = [track EXCEPT ![p] = Flushed(track[p], ok)]
      BY <2>1 DEF PollIdle, vars
    <3>2. track[p] \in PartitionState
      BY <1>1 DEF TypeOK
    <3>3. \A ok \in BOOLEAN : Flushed(track[p], ok).safe = track[p].safe
      BY <3>2, FlushedSame
    <3> QED BY <1>1, <3>1, <3>3 DEF TypeOK
  <2>2. CASE ~PollIdle(p)
    BY <2>2 DEF Start, PollRecord, LeaveLoop, SessionLost
  <2> QED BY <2>1, <2>2
<1>3. (assigned'[p] /\ pc'[p] # "stopping")
                => /\ assigned[p] /\ pc[p] # "stopping"
                   /\ NextRecord(p)' = NextRecord(p)
  <2>1. CASE PollRecord(p)
    <3>1. cur[p] = None /\ pos[p] \in Offset
      BY <1>1, <2>1, LogEndAssumption DEF PollRecord, TypeOK, Shape, Resting, Offset
    <3>2. cur'[p] = pos[p]
      BY <1>1, <2>1 DEF PollRecord, TypeOK
    <3> QED BY <2>1, <3>1, <3>2, NoneNotOffset DEF PollRecord, NextRecord
  <2>2. CASE PollIdle(p)
    BY <1>1, <2>2 DEF PollIdle, vars, NextRecord
  <2>3. CASE Start(p) \/ LeaveLoop(p) \/ SessionLost(p)
    BY <1>1, <2>3 DEF Start, LeaveLoop, SessionLost, NextRecord, TypeOK
  <2> QED BY <2>1, <2>2, <2>3
<1>4. PrefixResolved(p)'
  BY <1>2, <1>3, PrefixKept
<1>5. \/ pc'[p] \notin {"complete", "commit", "release", "dlq"}
      \/ pc'[p] = pc[p] /\ cur'[p] = cur[p] /\ category'[p] = category[p]
      \/ pc'[p] = "dlq" /\ category'[p] = "invalid"
  BY <1>1 DEF Start, PollRecord, PollIdle, LeaveLoop, SessionLost, TypeOK, vars
<1>6. StageOutcome(p)'
  <2>1. CASE pc'[p] = pc[p] /\ cur'[p] = cur[p] /\ category'[p] = category[p]
    BY <2>1, StageKept
  <2>2. CASE pc'[p] \notin {"complete", "commit", "release", "dlq"}
    BY <2>2 DEF StageOutcome
  <2>3. CASE pc'[p] = "dlq" /\ category'[p] = "invalid"
    BY <2>3 DEF StageOutcome
  <2> QED BY <1>5, <2>1, <2>2, <2>3
<1> QED BY <1>4, <1>6

(* Assignment starts at the committed offset; revocation, shutdown and a   *)
(* crash drop the tracker.                                                 *)
LEMMA Outcome_Membership ==
    ASSUME IInv, [Next]_vars, NEW p \in Proc,
           OnAssign(p) \/ OnRevoke(p) \/ Stop(p) \/ Crash(p)
    PROVE  PrefixResolved(p)' /\ StageOutcome(p)'
<1>1. ShapeInv /\ TypeOK /\ Shape(p) /\ CommittedIsTerminal
  BY DEF IInv, OutcomeInv
<1>2. pc'[p] \in {"idle", "down"}
  BY <1>1 DEF OnAssign, OnRevoke, Stop, Crash, TypeOK
<1>3. CASE OnAssign(p)
  <2>1. pc'[p] = "idle" /\ track' = track /\ NextRecord(p)' = groupOffset
    BY <1>1, <1>3 DEF OnAssign, NextRecord, TypeOK, Shape, Resting
  <2>2. \A o \in 0 .. groupOffset - 1 : Terminal(o)'
    BY <1>1, PrefixOffsets, OutcomesStable DEF CommittedIsTerminal
  <2>3. \A o \in 0 .. track[p].safe : Terminal(o)'
    BY <1>1, PrefixOffsets, OutcomesStable DEF IInv, OutcomeInv, PrefixResolved
  <2> QED BY <2>1, <2>2, <2>3 DEF PrefixResolved, StageOutcome
<1>4. CASE ~OnAssign(p)
  <2>1. ~assigned'[p] /\ track'[p].safe = None
    BY <1>1, <1>4, NewPartitionFacts DEF OnRevoke, Stop, Crash, TypeOK
  <2>2. PrefixResolved(p)'
    BY <2>1, PrefixKept
  <2> QED BY <1>2, <2>2 DEF StageOutcome
<1> QED BY <1>3, <1>4

(* An instance that moves from one stage of process() to another keeps its *)
(* place; one that leaves process() unresolved stops.                      *)
LEMMA StageMove ==
    ASSUME IInv, [Next]_vars, NEW p \in Proc, pc[p] \notin Resting,
           \/ UNCHANGED <<cur, pos, assigned, track>>
           \/ Unresolved(p)
    PROVE  PrefixResolved(p)'
<1>1. ShapeInv /\ TypeOK
  BY DEF IInv
<1>2. track'[p] = track[p]
  BY DEF Unresolved
<1>3. (assigned'[p] /\ pc'[p] # "stopping")
                => /\ assigned[p] /\ pc[p] # "stopping"
                   /\ NextRecord(p)' = NextRecord(p)
  BY <1>1 DEF Unresolved, NextRecord, Resting, TypeOK
<1> QED BY <1>2, <1>3, PrefixKept

(* The stages that talk to Redis. *)
LEMMA Outcome_Redis ==
    ASSUME IInv, [Next]_vars, NEW p \in Proc,
           Reserve(p) \/ ReserveFails(p) \/ Complete(p) \/ CompleteFails(p) \/ Release(p)
    PROVE  PrefixResolved(p)' /\ StageOutcome(p)'
<1>1. ShapeInv /\ TypeOK /\ Shape(p) /\ StageOutcome(p)
  BY DEF IInv, OutcomeInv
<1>2. PrefixResolved(p)'
  BY StageMove DEF Reserve, ReserveFails, Complete, CompleteFails, Release, Resting
<1>3. cur[p] \in Offset
  BY <1>1, NoneNotOffset
     DEF Reserve, ReserveFails, Complete, CompleteFails, Release, TypeOK, Shape, Resting
<1>4. CASE Reserve(p) \/ ReserveFails(p) \/ CompleteFails(p)
  BY <1>1, <1>2, <1>4
     DEF Reserve, ReserveFails, CompleteFails, Unresolved, StageOutcome, TypeOK
<1>5. CASE Complete(p)
  <2>1. CASE Unresolved(p)
    BY <1>1, <1>2, <2>1 DEF Unresolved, StageOutcome, TypeOK
  <2>2. CASE ~Unresolved(p)
    <3>1. pc[p] = "complete" /\ pc'[p] = "commit" /\ cur' = cur
      BY <1>1, <1>5, <2>2 DEF Complete, TypeOK
    <3>2. Terminal(cur[p])
      BY <1>1, <3>1 DEF StageOutcome, Terminal, Shape, Handling, Ev
    <3>3. Terminal(cur[p])'
      <4>1. ledger' = ledger /\ dlq' = dlq
        BY <1>5 DEF Complete
      <4> QED BY <3>1, <3>2, <4>1 DEF Terminal, DeadLettered
    <3> QED BY <1>2, <3>1, <3>3 DEF StageOutcome
  <2> QED BY <2>1, <2>2
<1>6. CASE Release(p)
  <2>1. /\ pc[p] = "release" /\ pc'[p] = "dlq"
        /\ cur' = cur /\ category' = category /\ dlq' = dlq
    BY <1>1, <1>6 DEF Release, TypeOK
  <2> QED BY <1>1, <1>2, <2>1 DEF StageOutcome, DeadParent, DeadLettered
<1> QED BY <1>4, <1>5, <1>6

(* The stages that talk to PostgreSQL. *)
LEMMA Outcome_Tx ==
    ASSUME IInv, [Next]_vars, NEW p \in Proc,
           TxBegin(p) \/ TxCommit(p) \/ TxFails(p)
    PROVE  PrefixResolved(p)' /\ StageOutcome(p)'
<1>1. ShapeInv /\ TypeOK /\ Shape(p)
  BY DEF IInv
<1>2. pc[p] \in {"handle", "tx"} /\ UNCHANGED <<cur, pos, assigned, track, dlq>>
  BY DEF TxBegin, TxCommit, TxFails
<1>3. PrefixResolved(p)'
  BY <1>2, StageMove DEF Resting
<1>4. cur[p] \in Offset /\ Ev(p) \in Event
  BY <1>1, <1>2, NoneNotOffset DEF TypeOK, Shape, Handling, Resting, Ev
<1>5. \/ pc'[p] \in {"handle", "tx"}
      \/ pc'[p] \in {"complete", "commit"} /\ ledger'[Ev(p)] = DigestOf[cur[p]]
      \/ pc'[p] \in {"release", "dlq"} /\ category'[p] # "missing"
      \/ pc'[p] \in {"release", "dlq"} /\ DeadParent(cur[p])
  <2>1. CASE TxBegin(p)
    BY <1>1, <2>1 DEF TxBegin, Persisted, GiveUp, TypeOK
  <2>2. CASE TxCommit(p)
    <3>1. CASE Admissible(Ev(p)) /\ WriteEffects(p) /\ Persisted(p)
      BY <1>1, <1>4, <3>1 DEF WriteEffects, Persisted, TypeOK
    <3>2. CASE GiveUp(p, "integrity")
      BY <1>1, <3>2 DEF GiveUp, TypeOK
    <3>3. CASE (\E d \in Needs[Ev(p)] : ledger[d] = NoDigest) /\ Retry(p, "missing")
      <4>1. DeadParent(cur[p])
        BY <2>2, <3>3, MissingMeansDeadParent DEF TxCommit
      <4> QED BY <1>1, <3>3, <4>1 DEF Retry, GiveUp, TypeOK
    <3> QED BY <2>2, <3>1, <3>2, <3>3 DEF TxCommit
  <2>3. CASE TxFails(p)
    BY <1>1, <2>3 DEF TxFails, Retry, GiveUp, TypeOK
  <2> QED BY <2>1, <2>2, <2>3
<1>6. Terminal(cur[p])' <=> \/ Ev(p) \in Event /\ ledger'[Ev(p)] = DigestOf[cur[p]]
                            \/ DeadLettered(cur[p])
  BY <1>2 DEF Terminal, DeadLettered, Ev
<1>7. DeadParent(cur[p])' <=> DeadParent(cur[p])
  BY <1>2 DEF DeadParent, DeadLettered
<1>8. StageOutcome(p)'
  BY <1>2, <1>4, <1>5, <1>6, <1>7 DEF StageOutcome, Ev
<1> QED BY <1>3, <1>8

(* The stage that publishes to the dead-letter topic. *)
LEMMA Outcome_Dlq ==
    ASSUME IInv, [Next]_vars, NEW p \in Proc, DlqPublish(p) \/ DlqFails(p)
    PROVE  PrefixResolved(p)' /\ StageOutcome(p)'
<1>1. ShapeInv /\ TypeOK
  BY DEF IInv
<1>2. PrefixResolved(p)'
  BY StageMove DEF DlqPublish, DlqFails, Resting
<1>3. CASE DlqFails(p)
  BY <1>1, <1>2, <1>3 DEF DlqFails, Unresolved, StageOutcome, TypeOK
<1>4. CASE DlqPublish(p)
  <2>1. /\ pc'[p] = "commit" /\ cur' = cur
        /\ category[p] \in Category /\ <<cur[p], category[p]>> \in dlq'
    BY <1>1, <1>4 DEF DlqPublish, TypeOK
  <2>2. Terminal(cur[p])'
    BY <2>1 DEF Terminal, DeadLettered
  <2> QED BY <1>2, <2>1, <2>2 DEF StageOutcome
<1> QED BY <1>3, <1>4

(* The last stage: the record joins the resolved prefix. *)
LEMMA Outcome_CommitTerminal ==
    ASSUME IInv, [Next]_vars, NEW p \in Proc, CommitTerminal(p)
    PROVE  PrefixResolved(p)' /\ StageOutcome(p)'
<1>1. ShapeInv /\ TypeOK /\ Shape(p) /\ StageOutcome(p) /\ PrefixResolved(p)
  BY DEF IInv, OutcomeInv
<1>2. /\ pc[p] = "commit" /\ cur[p] \in Offset /\ assigned[p]
      /\ pos[p] = cur[p] + 1 /\ NextRecord(p) = cur[p]
  BY <1>1, NoneNotOffset DEF CommitTerminal, TypeOK, Shape, Resting, NextRecord
<1>3. \A o \in 0 .. cur[p] : Terminal(o)'
  <2>1. \A o \in 0 .. cur[p] - 1 : Terminal(o)
    BY <1>1, <1>2 DEF PrefixResolved
  <2>2. Terminal(cur[p])
    BY <1>1, <1>2 DEF StageOutcome
  <2>3. 0 .. cur[p] \subseteq Offset /\ \A o \in 0 .. cur[p] : o \in 0 .. cur[p] - 1 \/ o = cur[p]
    BY <1>2, LogEndAssumption DEF Offset
  <2>4. \A o \in 0 .. cur[p] : Terminal(o)
    BY <2>1, <2>2, <2>3
  <2> QED BY <1>1, <2>3, <2>4, OutcomesStable
<1>4. track'[p].safe = cur[p]
  <2> DEFINE st == MarkTerminal(track[p], cur[p])
  <2>1. st \in PartitionState /\ st.safe = cur[p]
    <3>1. /\ track[p] \in PartitionState
          /\ track[p].pending = {} /\ track[p].floor = None
          /\ track[p].safe \in {None, cur[p] - 1}
      BY <1>1, <1>2 DEF TypeOK, Shape
    <3> QED BY <1>2, <3>1, MarkNext
  <2>2. \A ok \in BOOLEAN : Flushed(st, ok).safe = cur[p]
    <3> HIDE DEF st
    <3> QED BY <2>1, FlushedSame
  <2>3. \/ track' = [track EXCEPT ![p] = st]
        \/ \E ok \in BOOLEAN : track' = [track EXCEPT ![p] = Flushed(st, ok)]
    BY DEF CommitTerminal
  <2> HIDE DEF st
  <2> QED BY <1>1, <2>1, <2>2, <2>3 DEF TypeOK
<1>5. NextRecord(p)' = cur[p] + 1
  BY <1>1, <1>2 DEF CommitTerminal, Forget, NextRecord, TypeOK
<1>6. pc'[p] \in {"idle", "stopping"}
  BY <1>1 DEF CommitTerminal, TypeOK
<1>7. (cur[p] + 1) - 1 = cur[p]
  BY <1>2 DEF Offset
<1> QED BY <1>3, <1>4, <1>5, <1>6, <1>7 DEF PrefixResolved, StageOutcome

(* Every step keeps what every instance has achieved. *)
LEMMA OutcomeStep ==
    ASSUME IInv, [Next]_vars, NEW q \in Proc
    PROVE  PrefixResolved(q)' /\ StageOutcome(q)'
<1>1. ShapeInv
  BY DEF IInv
<1>2. ASSUME pc'[q] = pc[q], cur'[q] = cur[q], pos'[q] = pos[q], track'[q] = track[q],
             assigned'[q] = assigned[q], category'[q] = category[q]
      PROVE  PrefixResolved(q)' /\ StageOutcome(q)'
  BY <1>2, PrefixKept, StageKept DEF NextRecord
<1>3. CASE UNCHANGED vars
  BY <1>2, <1>3 DEF vars
<1>4. ASSUME NEW e \in Event, LeaseExpires(e) \/ LeaseOutlived(e) \/ CompletedEvicted(e)
      PROVE  PrefixResolved(q)' /\ StageOutcome(q)'
  BY <1>2, <1>4 DEF LeaseExpires, LeaseOutlived, CompletedEvicted
<1>5. ASSUME NEW p \in Proc, Step(p) \/ OnAssign(p) \/ Disturbance(p)
      PROVE  PrefixResolved(q)' /\ StageOutcome(q)'
  <2>1. CASE p # q
    BY <1>1, <1>2, <1>5, <2>1, OthersUntouched
  <2>2. CASE p = q
    BY <1>5, <2>2, Outcome_Loop, Outcome_Membership, Outcome_Redis, Outcome_Tx,
       Outcome_Dlq, Outcome_CommitTerminal DEF Step, Disturbance
  <2> QED BY <2>1, <2>2
<1> QED BY <1>3, <1>4, <1>5 DEF Next

-----------------------------------------------------------------------------
(* The group's offset only moves to the offset after a safe offset of the  *)
(* instance that owns the partition, in a step that resolves nothing.      *)
LEMMA CommitSource ==
    ASSUME ShapeInv, [Next]_vars, groupOffset' # groupOffset
    PROVE  /\ UNCHANGED <<ledger, dlq>>
           /\ \E p \in Proc : /\ owner = p
                              /\ \/ /\ track[p].safe # None
                                    /\ groupOffset' = track[p].safe + 1
                                 \/ /\ pc[p] = "commit"
                                    /\ cur[p] \in Offset
                                    /\ groupOffset' = cur[p] + 1
<1>1. PICK p \in Proc : OnRevoke(p) \/ PollIdle(p) \/ Stop(p) \/ CommitTerminal(p)
  <2>1. ASSUME NEW p \in Proc, Step(p), ~(PollIdle(p) \/ Stop(p) \/ CommitTerminal(p))
        PROVE  groupOffset' = groupOffset
    BY <2>1 DEF Step, Start, PollRecord, Reserve, TxBegin, TxCommit, Complete, Release,
       DlqPublish, Unresolved
  <2>2. ASSUME NEW p \in Proc, Disturbance(p) \/ OnAssign(p), ~OnRevoke(p)
        PROVE  groupOffset' = groupOffset
    BY <2>2 DEF Disturbance, OnAssign, SessionLost, LeaveLoop, Crash, ReserveFails,
       TxFails, CompleteFails, DlqFails, Unresolved
  <2>3. ASSUME NEW e \in Event, LeaseExpires(e) \/ LeaseOutlived(e) \/ CompletedEvicted(e)
        PROVE  groupOffset' = groupOffset
    BY <2>3 DEF LeaseExpires, LeaseOutlived, CompletedEvicted
  <2>4. UNCHANGED vars => groupOffset' = groupOffset
    BY DEF vars
  <2> QED BY <2>1, <2>2, <2>3, <2>4 DEF Next
<1>2. track[p] \in PartitionState
  BY DEF TypeOK
<1>3. UNCHANGED <<ledger, dlq>>
  BY <1>1 DEF OnRevoke, PollIdle, Stop, CommitTerminal, vars
<1>4. CASE OnRevoke(p)
  BY <1>4, <1>3 DEF OnRevoke, HasUncommitted
<1>5. CASE PollIdle(p) \/ Stop(p)
  <2>1. PICK ok \in BOOLEAN : CommitOffsets(p, track[p], ok)
    BY <1>5 DEF PollIdle, Stop, vars
  <2> QED BY <1>2, <1>3, <2>1, CommitOffsetsEffect DEF TypeOK
<1>6. CASE CommitTerminal(p)
  <2> DEFINE st == MarkTerminal(track[p], cur[p])
  <2>1. pc[p] = "commit" /\ cur[p] \in Offset
    BY <1>6, NoneNotOffset DEF CommitTerminal, TypeOK, Shape, Resting
  <2>2. st \in PartitionState /\ st.safe = cur[p]
    <3>1. /\ track[p].pending = {} /\ track[p].floor = None
          /\ track[p].safe \in {None, cur[p] - 1}
      BY <2>1, NoneNotOffset DEF Shape, NextRecord
    <3> QED BY <1>2, <2>1, <3>1, MarkNext
  <2>3. PICK ok \in BOOLEAN : CommitOffsets(p, st, ok)
    BY <1>6 DEF CommitTerminal
  <2> HIDE DEF st
  <2>4. owner = p /\ groupOffset' = cur[p] + 1
    BY <2>2, <2>3, CommitOffsetsEffect DEF TypeOK
  <2> QED BY <1>3, <2>1, <2>4
<1> QED BY <1>1, <1>4, <1>5, <1>6

(* The offset that is committed has only terminal records below it. *)
LEMMA CommittedStep ==
    ASSUME IInv, [Next]_vars PROVE CommittedIsTerminal'
<1>1. ShapeInv /\ CommittedIsTerminal
  BY DEF IInv, OutcomeInv
<1>2. groupOffset \in 0 .. LogEnd
  BY <1>1 DEF TypeOK
<1>3. CASE groupOffset' = groupOffset
  <2>1. 0 .. groupOffset - 1 \subseteq Offset
    BY <1>2, LogEndAssumption DEF Offset
  <2> QED BY <1>1, <1>3, <2>1, OutcomesStable DEF CommittedIsTerminal
<1>4. CASE groupOffset' # groupOffset
  <2>1. PICK p \in Proc : \/ /\ track[p].safe # None
                             /\ groupOffset' = track[p].safe + 1
                          \/ /\ pc[p] = "commit"
                             /\ cur[p] \in Offset
                             /\ groupOffset' = cur[p] + 1
    BY <1>1, <1>4, CommitSource
  <2>2. PrefixResolved(p) /\ StageOutcome(p) /\ Shape(p) /\ TypeOK
    BY DEF IInv, OutcomeInv
  <2>3. CASE track[p].safe # None /\ groupOffset' = track[p].safe + 1
    <3>1. track[p].safe \in Int
      BY <2>2 DEF TypeOK, PartitionState, MaybeOffset, None
    <3>2. \A o \in 0 .. track[p].safe : Terminal(o)'
      BY <1>1, <2>2, PrefixOffsets, OutcomesStable DEF PrefixResolved
    <3>3. (track[p].safe + 1) - 1 = track[p].safe
      BY <3>1
    <3> QED BY <2>3, <3>2, <3>3 DEF CommittedIsTerminal
  <2>4. CASE pc[p] = "commit" /\ cur[p] \in Offset /\ groupOffset' = cur[p] + 1
    <3>1. NextRecord(p) = cur[p] /\ assigned[p]
      BY <2>2, <2>4, NoneNotOffset DEF NextRecord, Shape
    <3>2. \A o \in 0 .. cur[p] - 1 : Terminal(o)
      BY <2>2, <2>4, <3>1 DEF PrefixResolved
    <3>3. Terminal(cur[p])
      BY <2>2, <2>4 DEF StageOutcome
    <3>4. 0 .. cur[p] \subseteq Offset /\ \A o \in 0 .. cur[p] : o \in 0 .. cur[p] - 1 \/ o = cur[p]
      BY <2>4, LogEndAssumption DEF Offset
    <3>5. \A o \in 0 .. cur[p] : Terminal(o)'
      BY <1>1, <3>2, <3>3, <3>4, OutcomesStable
    <3>6. (cur[p] + 1) - 1 = cur[p]
      BY <2>4 DEF Offset
    <3> QED BY <2>4, <3>5, <3>6 DEF CommittedIsTerminal
  <2> QED BY <2>1, <2>3, <2>4
<1> QED BY <1>3, <1>4

(* complete() only runs after the transaction has committed. *)
LEMMA CompletedStep ==
    ASSUME IInv, [Next]_vars PROVE CompletedIsPersisted'
<1>1. ShapeInv /\ TypeOK /\ CompletedIsPersisted
  BY DEF IInv, OutcomeInv
<1>2. \A e \in Event : ledger[e] # NoDigest => ledger'[e] # NoDigest
  BY <1>1, StoreMonotone
<1>3. ASSUME NEW p \in Proc, Complete(p) \/ CompleteFails(p)
      PROVE  \A e \in Event : lease'[e] = lease[e] \/ ledger[e] # NoDigest
  <2>1. pc[p] = "complete" /\ StageOutcome(p) /\ Shape(p)
    BY <1>3 DEF Complete, CompleteFails, IInv, OutcomeInv
  <2>2. cur[p] \in Offset /\ ledger[Ev(p)] = DigestOf[cur[p]]
    BY <1>1, <2>1, NoneNotOffset DEF StageOutcome, Shape, TypeOK, Resting
  <2>3. ledger[Ev(p)] # NoDigest
    BY <2>2, PipelineAssumption
  <2> QED BY <1>1, <1>3, <2>3 DEF Complete, CompleteFails, TypeOK
<1> DEFINE NotCompleted == \A e \in Event : \/ lease'[e] = lease[e]
                                            \/ lease'[e].status # "completed"
<1>4. ASSUME NEW p \in Proc, Reserve(p) \/ ReserveFails(p) \/ Release(p)
      PROVE  NotCompleted
  <2>1. Ev(p) \in Event
    BY <1>1, <1>4, NoneNotOffset
       DEF Reserve, ReserveFails, Release, Shape, Handling, Ev
  <2> QED BY <1>1, <1>4, <2>1
          DEF Reserve, ReserveFails, Release, Released, Held, NoLease, TypeOK
<1>5. ASSUME NEW e \in Event, LeaseExpires(e) \/ LeaseOutlived(e) \/ CompletedEvicted(e)
      PROVE  NotCompleted
  BY <1>1, <1>5 DEF LeaseExpires, LeaseOutlived, CompletedEvicted, NoLease, TypeOK
<1>6. ASSUME NEW p \in Proc, Step(p), ~(Reserve(p) \/ Complete(p) \/ Release(p))
      PROVE  lease' = lease
  BY <1>6 DEF Step, Start, PollRecord, PollIdle, Stop, TxBegin, TxCommit, DlqPublish,
     CommitTerminal, vars
<1>7. ASSUME NEW p \in Proc, Disturbance(p) \/ OnAssign(p),
             ~(ReserveFails(p) \/ CompleteFails(p))
      PROVE  lease' = lease
  BY <1>7 DEF Disturbance, OnAssign, OnRevoke, SessionLost, LeaveLoop, Crash, TxFails,
     DlqFails
<1>8. UNCHANGED vars => lease' = lease
  BY DEF vars
<1>9. \A e \in Event : \/ lease'[e] = lease[e] \/ ledger[e] # NoDigest
                       \/ lease'[e].status # "completed"
  BY <1>3, <1>4, <1>5, <1>6, <1>7, <1>8 DEF Next
<1> QED BY <1>1, <1>2, <1>9 DEF CompletedIsPersisted

(* The ledger and the effects only change together, in a transaction whose *)
(* primary key is still free.                                              *)
LEMMA EffectsStep ==
    ASSUME IInv, [Next]_vars PROVE EffectsOnce'
<1>1. ShapeInv /\ TypeOK /\ EffectsOnce
  BY DEF IInv, OutcomeInv
<1>2. ASSUME NEW p \in Proc, TxCommit(p) \/ TxFails(p)
      PROVE  EffectsOnce'
  <2>1. cur[p] \in Offset /\ Ev(p) \in Event
    BY <1>1, <1>2, NoneNotOffset DEF TxCommit, TxFails, TypeOK, Shape, Handling, Resting, Ev
  <2>2. \/ UNCHANGED <<ledger, effects>>
        \/ Admissible(Ev(p)) /\ WriteEffects(p)
    BY <1>2 DEF TxCommit, TxFails
  <2>3. CASE UNCHANGED <<ledger, effects>>
    BY <1>1, <2>3 DEF EffectsOnce
  <2>4. CASE Admissible(Ev(p)) /\ WriteEffects(p)
    <3>1. effects[Ev(p)] = 0 /\ DigestOf[cur[p]] # NoDigest
      BY <1>1, <2>1, <2>4, PipelineAssumption DEF Admissible, EffectsOnce
    <3> QED BY <1>1, <2>1, <2>4, <3>1 DEF WriteEffects, EffectsOnce, TypeOK
  <2> QED BY <2>2, <2>3, <2>4
<1>3. ASSUME NEW p \in Proc, Step(p), ~TxCommit(p) PROVE UNCHANGED <<ledger, effects>>
  BY <1>3 DEF Step, Start, PollRecord, PollIdle, Stop, Reserve, TxBegin, Complete,
     Release, DlqPublish, CommitTerminal, vars
<1>4. ASSUME NEW p \in Proc, Disturbance(p) \/ OnAssign(p), ~TxFails(p)
      PROVE  UNCHANGED <<ledger, effects>>
  BY <1>4 DEF Disturbance, OnAssign, OnRevoke, SessionLost, LeaveLoop, Crash,
     ReserveFails, CompleteFails, DlqFails
<1>5. ASSUME NEW e \in Event, LeaseExpires(e) \/ LeaseOutlived(e) \/ CompletedEvicted(e)
      PROVE  UNCHANGED <<ledger, effects>>
  BY <1>5 DEF LeaseExpires, LeaseOutlived, CompletedEvicted
<1>6. UNCHANGED vars => UNCHANGED <<ledger, effects>>
  BY DEF vars
<1>7. UNCHANGED <<ledger, effects>> => EffectsOnce'
  BY <1>1 DEF EffectsOnce
<1> QED BY <1>2, <1>3, <1>4, <1>5, <1>6, <1>7 DEF Next

(* A record is dead-lettered as "missing" only at a stage that rests on a  *)
(* dead parent.                                                            *)
LEMMA DependencyStep ==
    ASSUME IInv, [Next]_vars PROVE DependencyOrder'
<1>1. ShapeInv /\ TypeOK /\ DependencyOrder
  BY DEF IInv, OutcomeInv
<1>2. \A o \in Offset : DeadParent(o) => DeadParent(o)'
  BY <1>1, OutcomesStable
<1>3. \A o \in Offset : <<o, "missing">> \in dlq' => <<o, "missing">> \in dlq \/ DeadParent(o)
  <2>1. ASSUME NEW p \in Proc, DlqPublish(p) \/ DlqFails(p)
        PROVE  \A o \in Offset : <<o, "missing">> \in dlq'
                                    => <<o, "missing">> \in dlq \/ DeadParent(o)
    <3>1. pc[p] = "dlq" /\ StageOutcome(p)
      BY <2>1 DEF DlqPublish, DlqFails, IInv, OutcomeInv
    <3>2. dlq' \subseteq dlq \cup {<<cur[p], category[p]>>}
      BY <2>1 DEF DlqPublish, DlqFails
    <3> QED BY <3>1, <3>2 DEF StageOutcome
  <2>2. ASSUME NEW p \in Proc, Step(p), ~DlqPublish(p) PROVE dlq' = dlq
    BY <2>2 DEF Step, Start, PollRecord, PollIdle, Stop, Reserve, TxBegin, TxCommit,
       Complete, Release, CommitTerminal, vars
  <2>3. ASSUME NEW p \in Proc, Disturbance(p) \/ OnAssign(p), ~DlqFails(p)
        PROVE  dlq' = dlq
    BY <2>3 DEF Disturbance, OnAssign, OnRevoke, SessionLost, LeaveLoop, Crash,
       ReserveFails, TxFails, CompleteFails
  <2>4. ASSUME NEW e \in Event, LeaseExpires(e) \/ LeaseOutlived(e) \/ CompletedEvicted(e)
        PROVE  dlq' = dlq
    BY <2>4 DEF LeaseExpires, LeaseOutlived, CompletedEvicted
  <2>5. UNCHANGED vars => dlq' = dlq
    BY DEF vars
  <2> QED BY <2>1, <2>2, <2>3, <2>4, <2>5 DEF Next
<1> QED BY <1>1, <1>2, <1>3 DEF DependencyOrder

(* Nothing has happened yet. *)
LEMMA OutcomeInit == Init => OutcomeInv
<1> SUFFICES ASSUME Init PROVE OutcomeInv
  OBVIOUS
<1>1. CommittedIsTerminal /\ EffectsOnce /\ DependencyOrder
  BY DEF Init, CommittedIsTerminal, EffectsOnce, DependencyOrder
<1>2. CompletedIsPersisted
  BY DEF Init, CompletedIsPersisted, NoLease
<1>3. ASSUME NEW p \in Proc PROVE PrefixResolved(p) /\ StageOutcome(p)
  BY NewPartitionFacts DEF Init, PrefixResolved, StageOutcome, None
<1> QED BY <1>1, <1>2, <1>3 DEF OutcomeInv

(* The inductive invariant holds in every reachable state. *)
THEOREM Inductive == Spec => []IInv
<1>1. Init => IInv
  BY ShapeInit, OutcomeInit DEF IInv
<1>2. IInv /\ [Next]_vars => IInv'
  <2> SUFFICES ASSUME IInv, [Next]_vars PROVE IInv'
    OBVIOUS
  <2>1. ShapeInv'
    BY ShapeStep DEF IInv
  <2>2. OutcomeInv'
    BY <2>1, OutcomeStep, CommittedStep, CompletedStep, EffectsStep, DependencyStep
       DEF OutcomeInv
  <2> QED BY <2>1, <2>2 DEF IInv
<1> QED BY <1>1, <1>2, PTL DEF Spec

(* The tracker is sound in every state of the inductive invariant: it has  *)
(* no pending offsets and no floor, and its safe prefix is terminal.       *)
LEMMA InvSafePrefix == IInv => SafePrefixIsTerminal
<1> SUFFICES ASSUME IInv, NEW p \in Proc PROVE Sound(track[p], TerminalOffsets)
  BY DEF SafePrefixIsTerminal
<1>1. ShapeInv /\ Shape(p) /\ PrefixResolved(p)
  BY DEF IInv, OutcomeInv
<1>2. 0 .. track[p].safe \subseteq TerminalOffsets
  BY <1>1, PrefixOffsets DEF PrefixResolved, TerminalOffsets
<1>3. track[p].pending = {} /\ track[p].floor = None /\ 0 .. None = {}
  BY <1>1 DEF Shape, None
<1> QED BY <1>2, <1>3 DEF Sound

(* At-least-once: no offset is committed past a record that is neither     *)
(* persisted nor dead-lettered, and no tracker ever believes otherwise.    *)
THEOREM NothingLost == Spec => [](CommittedIsTerminal /\ SafePrefixIsTerminal)
<1>1. IInv => CommittedIsTerminal /\ SafePrefixIsTerminal
  BY InvSafePrefix DEF IInv, OutcomeInv
<1> QED BY <1>1, Inductive, PTL

(* Exactly-once effects: an event's business effects are committed at most *)
(* once, and a completed key stands for a committed transaction.           *)
THEOREM EffectsExactlyOnce == Spec => [](EffectsOnce /\ CompletedIsPersisted)
<1>1. IInv => EffectsOnce /\ CompletedIsPersisted
  BY DEF IInv, OutcomeInv
<1> QED BY <1>1, Inductive, PTL

(* One sequential consumer per partition preserves the dependency chain.   *)
THEOREM DependenciesPreserved == Spec => []DependencyOrder
<1>1. IInv => DependencyOrder
  BY DEF IInv, OutcomeInv
<1> QED BY <1>1, Inductive, PTL

-----------------------------------------------------------------------------
(***************************************************************************)
(* Layer three: what the attempts at a record were spent on.               *)
(***************************************************************************)

(* Disturbances are never handed back. *)
LEMMA BudgetSpent ==
    ASSUME ShapeInv, [Next]_vars
    PROVE  \A n \in Int : n <= MaxFaults - budget => n <= MaxFaults - budget'
<1>1. budget \in Int /\ MaxFaults \in Int
  BY PipelineAssumption DEF TypeOK
<1>2. ASSUME NEW p \in Proc, Step(p) PROVE budget' = budget \/ budget' = budget - 1
  BY <1>2 DEF Step, Start, PollRecord, PollIdle, Stop, Reserve, TxBegin, TxCommit,
     Complete, Release, DlqPublish, CommitTerminal, CommitOffsets, Fault, vars
<1>3. ASSUME NEW p \in Proc, Disturbance(p) \/ OnAssign(p)
      PROVE  budget' = budget \/ budget' = budget - 1
  BY <1>3 DEF Disturbance, OnAssign, OnRevoke, SessionLost, LeaveLoop, Crash,
     ReserveFails, TxFails, CompleteFails, DlqFails, Fault
<1>4. ASSUME NEW e \in Event, LeaseExpires(e) \/ LeaseOutlived(e) \/ CompletedEvicted(e)
      PROVE  budget' = budget \/ budget' = budget - 1
  BY <1>4 DEF LeaseExpires, LeaseOutlived, CompletedEvicted, Fault
<1>5. UNCHANGED vars => budget' = budget
  BY DEF vars
<1>6. budget' = budget \/ budget' = budget - 1
  BY <1>2, <1>3, <1>4, <1>5 DEF Next
<1> QED BY <1>1, <1>6

(* The dead parent of the record an instance stays at stays dead. *)
LEMMA DeadParentKept ==
    ASSUME ShapeInv, [Next]_vars, NEW p \in Proc, cur[p] # None, cur'[p] = cur[p],
           DeadParent(cur[p])
    PROVE  DeadParent(cur[p])'
<1>1. cur[p] \in Offset
  BY DEF TypeOK
<1>2. \A o \in Offset : DeadParent(o) => DeadParent(o)'
  BY OutcomesStable
<1>3. DeadParent(cur[p])' <=> \E o \in Offset : o = cur'[p] /\ DeadParent(o)'
  BY <1>1
<1> QED BY <1>1, <1>2, <1>3

(* An instance that makes no attempt and does not give up keeps its        *)
(* account of them.                                                        *)
LEMMA AttemptsKept ==
    ASSUME IInv, RetryInv, [Next]_vars, NEW p \in Proc,
           attempt'[p] = attempt[p], cur[p] = None \/ cur'[p] = cur[p],
           (pc'[p] \in {"release", "dlq"} /\ category'[p] = "exhausted")
                => pc[p] \in {"release", "dlq"} /\ category[p] = "exhausted"
    PROVE  AttemptsPaid(p)'
<1>1. ShapeInv /\ TypeOK /\ Shape(p) /\ AttemptsPaid(p)
  BY DEF IInv, RetryInv
<1>2. attempt[p] - 1 \in Int /\ MaxAttempts \in Int
  BY <1>1, PipelineAssumption DEF TypeOK
<1>3. cur[p] # None /\ DeadParent(cur[p]) => cur'[p] # None /\ DeadParent(cur[p])'
  BY <1>1, DeadParentKept
<1>4. pc[p] \in {"release", "dlq"} => cur[p] # None
  BY <1>1 DEF Shape, Resting
<1>5. /\ attempt[p] - 1 <= MaxFaults - budget => attempt'[p] - 1 <= MaxFaults - budget'
      /\ MaxAttempts <= MaxFaults - budget => MaxAttempts <= MaxFaults - budget'
  BY <1>1, <1>2, BudgetSpent
<1>6. \/ attempt'[p] - 1 <= MaxFaults - budget'
      \/ cur'[p] # None /\ DeadParent(cur[p])'
  BY <1>1, <1>3, <1>5 DEF AttemptsPaid
<1>7. (pc'[p] \in {"release", "dlq"} /\ category'[p] = "exhausted")
            => MaxAttempts <= MaxFaults - budget' \/ DeadParent(cur[p])'
  BY <1>1, <1>3, <1>4, <1>5 DEF AttemptsPaid
<1> QED BY <1>6, <1>7 DEF AttemptsPaid

(* A record an instance is rid of has no attempts. *)
LEMMA AttemptsForgotten ==
    ASSUME ShapeInv, [Next]_vars, NEW p \in Proc, Forget(p) PROVE AttemptsPaid(p)'
<1>1. attempt'[p] = 1 /\ category'[p] = "none"
  BY DEF Forget, TypeOK
<1>2. budget' \in 0 .. MaxFaults
  BY ShapeStep DEF TypeOK
<1> QED BY <1>1, <1>2, PipelineAssumption DEF AttemptsPaid

(* A retry for a missing parent has a dead parent to show for it, every    *)
(* other retry a disturbance.                                              *)
LEMMA AttemptsTx ==
    ASSUME IInv, RetryInv, [Next]_vars, NEW p \in Proc,
           TxBegin(p) \/ TxCommit(p) \/ TxFails(p)
    PROVE  AttemptsPaid(p)'
<1>1. ShapeInv /\ TypeOK /\ Shape(p) /\ AttemptsPaid(p)
  BY DEF IInv, RetryInv
<1>2. pc[p] \in {"handle", "tx"} /\ UNCHANGED <<cur, dlq>>
  BY DEF TxBegin, TxCommit, TxFails
<1>3. cur[p] # None /\ cur'[p] = cur[p]
  BY <1>1, <1>2 DEF Shape, Resting
<1>4. CASE \/ attempt' = attempt /\ pc'[p] \notin {"release", "dlq"}
           \/ GiveUp(p, "integrity")
  <2>1. attempt' = attempt
    BY <1>4 DEF GiveUp
  <2>2. GiveUp(p, "integrity") => category'[p] = "integrity"
    BY <1>1 DEF GiveUp, TypeOK
  <2> QED BY <1>3, <1>4, <2>1, <2>2, AttemptsKept
<1>5. CASE TxCommit(p) /\ Retry(p, "missing")
           /\ \E d \in Needs[Ev(p)] : ledger[d] = NoDigest
  <2>1. DeadParent(cur[p])
    BY <1>5, MissingMeansDeadParent DEF TxCommit
  <2>2. DeadParent(cur[p])'
    BY <1>1, <1>3, <2>1, DeadParentKept
  <2> QED BY <1>3, <2>2 DEF AttemptsPaid
<1>6. CASE TxFails(p) /\ Retry(p, "exhausted")
  <2>1. budget \in Int /\ budget' = budget - 1
    BY <1>1, <1>6, PipelineAssumption DEF TxFails, Fault, TypeOK
  <2>2. attempt[p] \in 1 .. MaxAttempts /\ MaxFaults \in Int /\ MaxAttempts \in Int
    BY <1>1, PipelineAssumption DEF TypeOK
  <2>3. DeadParent(cur[p]) => DeadParent(cur[p])'
    BY <1>1, <1>3, DeadParentKept
  <2>4. attempt[p] - 1 <= MaxFaults - budget \/ DeadParent(cur[p])
    BY <1>1 DEF AttemptsPaid
  <2>5. CASE DeadParent(cur[p])
    BY <1>3, <2>3, <2>5 DEF AttemptsPaid
  <2>6. CASE attempt[p] < MaxAttempts /\ ~DeadParent(cur[p])
    <3>1. attempt'[p] = attempt[p] + 1 /\ pc'[p] = "handle"
      BY <1>1, <1>6, <2>2, <2>6 DEF Retry, TypeOK
    <3>2. attempt'[p] - 1 <= MaxFaults - budget'
      BY <2>1, <2>2, <2>4, <2>6, <3>1
    <3> QED BY <3>1, <3>2 DEF AttemptsPaid
  <2>7. CASE attempt[p] = MaxAttempts /\ ~DeadParent(cur[p])
    <3>1. attempt'[p] = attempt[p]
      BY <1>6, <2>2, <2>7 DEF Retry, GiveUp
    <3>2. attempt'[p] - 1 <= MaxFaults - budget' /\ MaxAttempts <= MaxFaults - budget'
      BY <2>1, <2>2, <2>4, <2>7, <3>1
    <3> QED BY <3>2 DEF AttemptsPaid
  <2> QED BY <2>2, <2>5, <2>6, <2>7
<1>7. CASE TxBegin(p)
  <2>1. \/ attempt' = attempt /\ pc'[p] \notin {"release", "dlq"}
        \/ GiveUp(p, "integrity")
    BY <1>1, <1>7 DEF TxBegin, Persisted, TypeOK
  <2> QED BY <1>4, <2>1
<1>8. CASE TxCommit(p)
  <2>1. \/ attempt' = attempt /\ pc'[p] \notin {"release", "dlq"}
        \/ GiveUp(p, "integrity")
        \/ Retry(p, "missing") /\ \E d \in Needs[Ev(p)] : ledger[d] = NoDigest
    BY <1>1, <1>8 DEF TxCommit, Persisted, TypeOK
  <2> QED BY <1>4, <1>5, <1>8, <2>1
<1>9. CASE TxFails(p)
  <2>1. Retry(p, "exhausted") \/ GiveUp(p, "integrity")
    BY <1>9 DEF TxFails
  <2> QED BY <1>4, <1>6, <1>9, <2>1
<1> QED BY <1>7, <1>8, <1>9

(* Each instance's account survives its own steps. *)
LEMMA AttemptsOwnStep ==
    ASSUME IInv, RetryInv, [Next]_vars, NEW p \in Proc,
           Step(p) \/ OnAssign(p) \/ Disturbance(p)
    PROVE  AttemptsPaid(p)'
<1>1. ShapeInv /\ TypeOK /\ Shape(p)
  BY DEF IInv
<1>2. CASE Start(p) \/ PollIdle(p) \/ Stop(p) \/ OnAssign(p) \/ OnRevoke(p)
           \/ SessionLost(p) \/ LeaveLoop(p)
  <2>1. attempt' = attempt /\ cur' = cur /\ category' = category
    BY <1>2 DEF Start, PollIdle, Stop, OnAssign, OnRevoke, SessionLost, LeaveLoop, vars
  <2>2. pc'[p] = pc[p] \/ pc'[p] \in Resting
    BY <1>1, <1>2 DEF Start, PollIdle, Stop, OnAssign, OnRevoke, SessionLost, LeaveLoop,
       vars, TypeOK, Resting
  <2> QED BY <2>1, <2>2, AttemptsKept DEF Resting
<1>3. CASE PollRecord(p)
  <2>1. attempt' = attempt /\ cur[p] = None
    BY <1>1, <1>3 DEF PollRecord, Shape, Resting
  <2>2. ~(pc'[p] \in {"release", "dlq"} /\ category'[p] = "exhausted")
    BY <1>1, <1>3 DEF PollRecord, TypeOK
  <2> QED BY <2>1, <2>2, AttemptsKept
<1>4. CASE TxBegin(p) \/ TxCommit(p) \/ TxFails(p)
  BY <1>4, AttemptsTx
<1>5. CASE Reserve(p) \/ Complete(p) \/ Release(p) \/ DlqPublish(p)
  <2>1. CASE Forget(p)
    BY <1>1, <2>1, AttemptsForgotten
  <2>2. CASE ~Forget(p)
    <3>1. attempt' = attempt /\ cur' = cur /\ category' = category
      BY <1>5, <2>2 DEF Reserve, Complete, Release, DlqPublish, Unresolved
    <3>2. pc'[p] \in {"release", "dlq"} => pc[p] \in {"release", "dlq"}
      BY <1>1, <1>5, <2>2 DEF Reserve, Complete, Release, DlqPublish, Unresolved, TypeOK
    <3> QED BY <3>1, <3>2, AttemptsKept
  <2> QED BY <2>1, <2>2
<1>6. CASE ReserveFails(p) \/ CompleteFails(p) \/ DlqFails(p) \/ Crash(p)
           \/ CommitTerminal(p)
  <2>1. Forget(p)
    BY <1>6 DEF ReserveFails, CompleteFails, DlqFails, Crash, CommitTerminal, Unresolved
  <2> QED BY <1>1, <2>1, AttemptsForgotten
<1> QED BY <1>2, <1>3, <1>4, <1>5, <1>6 DEF Step, Disturbance

(* A record enters the dead-letter topic as exhausted only from a stage    *)
(* that has paid for its attempts.                                         *)
LEMMA ExhaustedStep ==
    ASSUME IInv, RetryInv, [Next]_vars PROVE ExhaustedByFailures'
<1>1. ShapeInv /\ TypeOK /\ ExhaustedByFailures
  BY DEF IInv, RetryInv
<1>2. MaxFaults \in Int /\ MaxAttempts \in Int /\ budget \in Int /\ budget' \in Int
  BY <1>1, ShapeStep, PipelineAssumption DEF TypeOK
<1>3. \A o \in Offset : DeadParent(o) => DeadParent(o)'
  BY <1>1, OutcomesStable
<1>4. MaxAttempts <= MaxFaults - budget => MaxAttempts <= MaxFaults - budget'
  BY <1>1, <1>2, BudgetSpent
<1> DEFINE Paid(o) == MaxAttempts <= MaxFaults - budget \/ DeadParent(o)
<1>5. \A o \in Offset : <<o, "exhausted">> \in dlq' => <<o, "exhausted">> \in dlq \/ Paid(o)
  <2>1. ASSUME NEW p \in Proc, DlqPublish(p) \/ DlqFails(p)
        PROVE  \A o \in Offset : <<o, "exhausted">> \in dlq'
                                    => <<o, "exhausted">> \in dlq \/ Paid(o)
    <3>1. pc[p] = "dlq" /\ AttemptsPaid(p)
      BY <2>1 DEF DlqPublish, DlqFails, RetryInv
    <3>2. dlq' \subseteq dlq \cup {<<cur[p], category[p]>>}
      BY <2>1 DEF DlqPublish, DlqFails
    <3> QED BY <3>1, <3>2 DEF AttemptsPaid
  <2>2. ASSUME NEW p \in Proc, Step(p), ~DlqPublish(p) PROVE dlq' = dlq
    BY <2>2 DEF Step, Start, PollRecord, PollIdle, Stop, Reserve, TxBegin, TxCommit,
       Complete, Release, CommitTerminal, vars
  <2>3. ASSUME NEW p \in Proc, Disturbance(p) \/ OnAssign(p), ~DlqFails(p)
        PROVE  dlq' = dlq
    BY <2>3 DEF Disturbance, OnAssign, OnRevoke, SessionLost, LeaveLoop, Crash,
       ReserveFails, TxFails, CompleteFails
  <2>4. ASSUME NEW e \in Event, LeaseExpires(e) \/ LeaseOutlived(e) \/ CompletedEvicted(e)
        PROVE  dlq' = dlq
    BY <2>4 DEF LeaseExpires, LeaseOutlived, CompletedEvicted
  <2>5. UNCHANGED vars => dlq' = dlq
    BY DEF vars
  <2> QED BY <2>1, <2>2, <2>3, <2>4, <2>5 DEF Next
<1>6. \A o \in Offset : <<o, "exhausted">> \in dlq => Paid(o)
  BY <1>1, <1>2 DEF ExhaustedByFailures
<1>7. \A o \in Offset : Paid(o) => MaxAttempts <= MaxFaults - budget' \/ DeadParent(o)'
  BY <1>3, <1>4, Zenon
<1>8. \A o \in Offset : <<o, "exhausted">> \in dlq'
                            => MaxAttempts <= MaxFaults - budget' \/ DeadParent(o)'
  BY <1>5, <1>6, <1>7
<1> QED BY <1>2, <1>8 DEF ExhaustedByFailures

(* No record is given up before its attempts have failed, for every log,   *)
(* attempt limit and number of instances and disturbances.                 *)
THEOREM NoEarlyGiveUp == Spec => []ExhaustedByFailures
<1>1. Init => RetryInv
  BY PipelineAssumption DEF Init, RetryInv, AttemptsPaid, ExhaustedByFailures
<1>2. IInv /\ RetryInv /\ [Next]_vars => RetryInv'
  <2> SUFFICES ASSUME IInv, RetryInv, [Next]_vars PROVE RetryInv'
    OBVIOUS
  <2>1. ShapeInv
    BY DEF IInv
  <2>2. ASSUME NEW q \in Proc PROVE AttemptsPaid(q)'
    <3>1. CASE Step(q) \/ OnAssign(q) \/ Disturbance(q)
      BY <3>1, AttemptsOwnStep
    <3>2. ASSUME NEW p \in Proc, p # q, Step(p) \/ OnAssign(p) \/ Disturbance(p)
          PROVE  AttemptsPaid(q)'
      <4>1. /\ pc'[q] = pc[q] /\ cur'[q] = cur[q] /\ category'[q] = category[q]
            /\ attempt'[q] = attempt[q]
        BY <2>1, <3>2, OthersUntouched
      <4> QED BY <4>1, AttemptsKept
    <3>3. ASSUME NEW e \in Event, LeaseExpires(e) \/ LeaseOutlived(e) \/ CompletedEvicted(e)
          PROVE  AttemptsPaid(q)'
      <4>1. pc' = pc /\ cur' = cur /\ category' = category /\ attempt' = attempt
        BY <3>3 DEF LeaseExpires, LeaseOutlived, CompletedEvicted
      <4> QED BY <4>1, AttemptsKept
    <3>4. CASE UNCHANGED vars
      <4>1. pc' = pc /\ cur' = cur /\ category' = category /\ attempt' = attempt
        BY <3>4 DEF vars
      <4> QED BY <4>1, AttemptsKept
    <3> QED BY <3>1, <3>2, <3>3, <3>4 DEF Next
  <2> QED BY <2>2, ExhaustedStep DEF RetryInv
<1>3. RetryInv => ExhaustedByFailures
  BY DEF RetryInv
<1> QED BY <1>1, <1>2, <1>3, Inductive, PTL DEF Spec

-----------------------------------------------------------------------------
(* A commit moves the group's offset forward, over terminal records only.  *)
LEMMA CommitForward ==
    ASSUME IInv, IInv', [Next]_vars, groupOffset' # groupOffset
    PROVE  /\ groupOffset' \in groupOffset + 1 .. LogEnd
           /\ 0 .. groupOffset' - 1 \subseteq TerminalOffsets
           /\ TerminalOffsets' = TerminalOffsets
<1>1. ShapeInv /\ ShapeInv' /\ TypeOK /\ TypeOK' /\ CommittedIsTerminal'
  BY DEF IInv, OutcomeInv
<1>2. TerminalOffsets' = TerminalOffsets
  BY <1>1, CommitSource DEF TerminalOffsets, Terminal, DeadLettered
<1>3. groupOffset' >= groupOffset
  <2>1. PICK p \in Proc : /\ owner = p
                          /\ \/ track[p].safe # None /\ groupOffset' = track[p].safe + 1
                             \/ /\ pc[p] = "commit" /\ cur[p] \in Offset
                                /\ groupOffset' = cur[p] + 1
    BY <1>1, CommitSource
  <2>2. Shape(p) /\ groupOffset \in Nat
    BY <1>1 DEF TypeOK
  <2>3. CASE track[p].safe # None /\ groupOffset' = track[p].safe + 1
    BY <2>1, <2>2, <2>3 DEF Shape
  <2>4. CASE pc[p] = "commit" /\ cur[p] \in Offset /\ groupOffset' = cur[p] + 1
    BY <2>1, <2>2, <2>4, NoneNotOffset DEF Shape, NextRecord, Offset
  <2> QED BY <2>1, <2>3, <2>4
<1>4. groupOffset' \in groupOffset + 1 .. LogEnd
  BY <1>1, <1>3, LogEndAssumption DEF TypeOK
<1>5. 0 .. groupOffset' - 1 \subseteq TerminalOffsets
  <2>1. 0 .. groupOffset' - 1 \subseteq Offset
    BY <1>1, LogEndAssumption DEF TypeOK, Offset
  <2>2. 0 .. groupOffset' - 1 \subseteq TerminalOffsets'
    BY <1>1, <2>1 DEF CommittedIsTerminal, TerminalOffsets
  <2> QED BY <1>2, <2>2
<1> QED BY <1>2, <1>4, <1>5

(* The pipeline implements at-least-once consumption: initial states map   *)
(* to initial states, and every step resolves records, commits forward     *)
(* over resolved ones, or leaves both alone.                               *)
THEOREM ImplementsAtLeastOnce == Spec => DeliverySpec
<1>1. Init => Delivery!Init
  <2> SUFFICES ASSUME Init PROVE TerminalOffsets = {} /\ groupOffset = 0
    BY DEF Delivery!Init
  <2>1. \A o \in Offset : DigestOf[o] # NoDigest
    BY PipelineAssumption
  <2> QED BY <2>1 DEF Init, TerminalOffsets, Terminal, DeadLettered
<1>2. IInv /\ IInv' /\ [Next]_vars => [Delivery!Next]_<<TerminalOffsets, groupOffset>>
  <2> SUFFICES ASSUME IInv, IInv', [Next]_vars
               PROVE  Delivery!Resolve \/ Delivery!Commit
    BY DEF Delivery!Next
  <2>1. ShapeInv
    BY DEF IInv
  <2>2. CASE groupOffset' = groupOffset
    <3>1. TerminalOffsets \subseteq TerminalOffsets' /\ TerminalOffsets' \subseteq Offset
      BY <2>1, OutcomesStable DEF TerminalOffsets
    <3>2. TerminalOffsets' = TerminalOffsets \cup TerminalOffsets'
      BY <3>1
    <3> QED BY <2>2, <3>1, <3>2 DEF Delivery!Resolve, Offset
  <2>3. CASE groupOffset' # groupOffset
    BY <2>3, CommitForward DEF Delivery!Commit
  <2> QED BY <2>2, <2>3
<1> QED BY <1>1, <1>2, Inductive, PTL DEF Spec, DeliverySpec, Delivery!Spec

(* A worker whose lease has passed to another cannot end it: complete() and *)
(* release() compare tokens, and reserve() only takes a free key.          *)
THEOREM StaleWorkersHarmless == Spec => OnlyHolderEndsLease
<1> DEFINE Fenced == \A p \in Proc, e \in Event :
                        (/\ pc[p] # pc'[p]
                         /\ lease[e].status = "processing"
                         /\ lease'[e] # lease[e]) => token[p] = lease[e].token
<1>1. IInv /\ [Next]_vars => [Fenced]_vars
  <2> SUFFICES ASSUME IInv, Next, NEW p \in Proc, NEW e \in Event,
                      pc[p] # pc'[p], lease[e].status = "processing",
                      lease'[e] # lease[e]
               PROVE  token[p] = lease[e].token
    BY DEF Fenced
  <2>1. ShapeInv /\ TypeOK /\ Shape(p)
    BY DEF IInv
  <2>2. Step(p) \/ OnAssign(p) \/ Disturbance(p)
    <3>1. ASSUME NEW f \in Event, LeaseExpires(f) \/ LeaseOutlived(f) \/ CompletedEvicted(f)
          PROVE  FALSE
      BY <3>1 DEF LeaseExpires, LeaseOutlived, CompletedEvicted
    <3> QED BY <2>1, <3>1, OthersUntouched DEF Next
  <2>3. Reserve(p) \/ ReserveFails(p) \/ Complete(p) \/ CompleteFails(p) \/ Release(p)
    <3>1. ASSUME Step(p), ~(Reserve(p) \/ Complete(p) \/ Release(p)) PROVE FALSE
      BY <3>1 DEF Step, Start, PollRecord, PollIdle, Stop, TxBegin, TxCommit, DlqPublish,
         CommitTerminal, vars
    <3>2. ASSUME Disturbance(p) \/ OnAssign(p), ~(ReserveFails(p) \/ CompleteFails(p))
          PROVE  FALSE
      BY <3>2 DEF Disturbance, OnAssign, OnRevoke, SessionLost, LeaveLoop, Crash,
         TxFails, DlqFails
    <3> QED BY <2>2, <3>1, <3>2
  <2>4. CASE Reserve(p) \/ ReserveFails(p)
    BY <2>1, <2>4 DEF Reserve, ReserveFails, TypeOK
  <2>5. CASE Complete(p) \/ CompleteFails(p) \/ Release(p)
    <3>1. e = Ev(p) /\ lease[e] = Held(token[p])
      BY <2>1, <2>5 DEF Complete, CompleteFails, Release, Released, TypeOK
    <3> QED BY <3>1 DEF Held
  <2> QED BY <2>3, <2>4, <2>5
<1> QED BY <1>1, Inductive, PTL DEF Spec, OnlyHolderEndsLease
=============================================================================
