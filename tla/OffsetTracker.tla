---------------------------- MODULE OffsetTracker ----------------------------
(***************************************************************************)
(* The offset bookkeeping of services/event_processor/offset_tracker.py    *)
(* for one partition: which offsets have reached a terminal outcome, and   *)
(* up to where the prefix of the partition is contiguous and may therefore *)
(* be committed to Kafka.  The operators are pure; the modules that model  *)
(* the consumer loops apply them to their own variables.                   *)
(***************************************************************************)
EXTENDS Integers

CONSTANT
    LogEnd          \* the partition holds the offsets 0 .. LogEnd - 1

ASSUME LogEndAssumption == LogEnd \in Nat

Offset == 0 .. LogEnd - 1

(* Python's None.  Offsets start at 0 and bootstrapping may yield -1. *)
None == -2

MaybeOffset == None .. LogEnd - 1

(* _PartitionState.  pending_heap and pending_seen always hold the same    *)
(* offsets, so one set stands for both; records_since_commit only feeds a  *)
(* metric and is left out.                                                 *)
PartitionState ==
    [safe : MaybeOffset, committed : MaybeOffset,
     pending : SUBSET Offset, floor : MaybeOffset]

NewPartition ==
    [safe |-> None, committed |-> None, pending |-> {}, floor |-> None]

(* _PartitionState.observe: only the first dispatch sets the floor. *)
Observe(st, o) ==
    IF st.floor = None THEN [st EXCEPT !.floor = o - 1] ELSE st

(* The value safe_offset has once mark_terminal(o) has bootstrapped it. *)
Bootstrap(st, o) ==
    IF st.safe # None THEN st.safe
    ELSE IF st.floor # None THEN st.floor
    ELSE o - 1

(* The lowest offset above safe that is not pending: where the loop that   *)
(* pops the heap stops.                                                    *)
FirstGap(safe, pending) ==
    CHOOSE n \in (safe + 1) .. LogEnd :
        /\ n \notin pending
        /\ \A m \in (safe + 1) .. (n - 1) : m \in pending

(* _PartitionState.mark_terminal, including the loop that advances         *)
(* safe_offset over every pending offset that has become contiguous.       *)
MarkTerminal(st, o) ==
    LET base  == Bootstrap(st, o)
        queue == st.pending \cup {o}
        safe  == FirstGap(base, queue) - 1
    IN  IF o <= base \/ o \in st.pending
        THEN [st EXCEPT !.safe = base]
        ELSE [st EXCEPT !.safe = safe,
                        !.pending = queue \ ((base + 1) .. safe)]

(* _PartitionState.has_uncommitted_safe_offset *)
HasUncommitted(st) == st.safe # None /\ st.safe # st.committed

(* What a successful _flush leaves behind for a partition it committed. *)
MarkCommitted(st) ==
    IF HasUncommitted(st) THEN [st EXCEPT !.committed = st.safe] ELSE st

(***************************************************************************)
(* The promise of the bookkeeping, relative to the set T of offsets that   *)
(* have reached a terminal state: "an offset is only ever considered safe  *)
(* once every offset before it in that partition has reached a terminal    *)
(* state" (offset_tracker.py, lines 6-9).                                  *)
(***************************************************************************)
Sound(st, T) ==
    /\ 0 .. st.safe \subseteq T
    /\ st.pending \subseteq T
    /\ 0 .. st.floor \subseteq T
=============================================================================
