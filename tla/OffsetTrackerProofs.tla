------------------------- MODULE OffsetTrackerProofs -------------------------
(***************************************************************************)
(* What the operations of the offset tracker preserve, for every log and   *)
(* every set of terminal offsets.  The consumer modules' proofs cite these *)
(* lemmas and never look into the tracker again.                           *)
(***************************************************************************)
EXTENDS OffsetTracker, WellFoundedInduction, TLAPS

(* Every non-empty set of naturals has a least element. *)
LEMMA LeastNatural ==
    ASSUME NEW T, T \subseteq Nat, T # {}
    PROVE  \E x \in T : \A y \in T : x <= y
<1>1. PICK x \in T : \A y \in T : ~ (<<y, x>> \in OpToRel(<, Nat))
  BY WFMin, NatLessThanWellFounded, Zenon
<1>2. \A y \in T : x <= y
  <2> TAKE y \in T
  <2>1. x \in Nat /\ y \in Nat
    OBVIOUS
  <2>2. ~(y < x)
    BY <1>1, <2>1 DEF OpToRel
  <2> QED BY <2>1, <2>2
<1> QED BY <1>2

(* The loop of mark_terminal stops: above any safe offset there is a first *)
(* offset that is not pending, at the latest the end of the log.           *)
LEMMA FirstGapSpec ==
    ASSUME NEW safe \in -1 .. LogEnd - 1, NEW pending \in SUBSET Offset
    PROVE  LET n == FirstGap(safe, pending)
           IN  /\ n \in (safe + 1) .. LogEnd
               /\ n \notin pending
               /\ \A m \in (safe + 1) .. (n - 1) : m \in pending
<1> DEFINE T == {n \in (safe + 1) .. LogEnd : n \notin pending}
<1>1. T \subseteq Nat /\ LogEnd \in T
  BY LogEndAssumption DEF Offset
<1>2. PICK x \in T : \A y \in T : x <= y
  <2> HIDE DEF T
  <2> QED BY <1>1, LeastNatural
<1>3. /\ x \in (safe + 1) .. LogEnd
      /\ x \notin pending
      /\ \A m \in (safe + 1) .. (x - 1) : m \in pending
  BY <1>2, LogEndAssumption
<1> QED BY <1>3 DEF FirstGap

(* The bootstrap value is a legal safe offset. *)
LEMMA BootstrapType ==
    ASSUME NEW st \in PartitionState, NEW o \in Offset
    PROVE  Bootstrap(st, o) \in -1 .. LogEnd - 1
BY LogEndAssumption DEF PartitionState, Bootstrap, MaybeOffset, None, Offset

(* The operations of the tracker stay within its type. *)
LEMMA TrackerType ==
    ASSUME NEW st \in PartitionState, NEW o \in Offset
    PROVE  /\ NewPartition \in PartitionState
           /\ Observe(st, o) \in PartitionState
           /\ MarkTerminal(st, o) \in PartitionState
           /\ MarkTerminal(st, o).safe \in -1 .. LogEnd - 1
           /\ MarkCommitted(st) \in PartitionState
<1>1. NewPartition \in PartitionState
  BY LogEndAssumption DEF NewPartition, PartitionState, MaybeOffset, None
<1>2. Observe(st, o) \in PartitionState
  BY LogEndAssumption DEF Observe, PartitionState, MaybeOffset, None, Offset
<1>3. MarkTerminal(st, o) \in PartitionState /\ MarkTerminal(st, o).safe \in -1 .. LogEnd - 1
  <2> DEFINE base == Bootstrap(st, o)
             queue == st.pending \cup {o}
             gap == FirstGap(base, queue)
  <2>1. base \in -1 .. LogEnd - 1
    BY BootstrapType
  <2>2. queue \in SUBSET Offset
    BY DEF PartitionState
  <2>3. gap \in (base + 1) .. LogEnd
    BY <2>1, <2>2, FirstGapSpec
  <2>4. gap - 1 \in -1 .. LogEnd - 1
    BY <2>1, <2>3, LogEndAssumption
  <2>5. CASE o <= base \/ o \in st.pending
    <3>1. MarkTerminal(st, o) = [st EXCEPT !.safe = base]
      BY <2>5 DEF MarkTerminal
    <3> HIDE DEF base
    <3> QED BY <2>1, <3>1, LogEndAssumption DEF PartitionState, MaybeOffset, None
  <2>6. CASE ~(o <= base \/ o \in st.pending)
    <3> DEFINE s == gap - 1
               r == queue \ ((base + 1) .. s)
    <3>1. MarkTerminal(st, o) = [st EXCEPT !.safe = s, !.pending = r]
      BY <2>6 DEF MarkTerminal
    <3>2. s \in -1 .. LogEnd - 1 /\ r \in SUBSET Offset
      BY <2>2, <2>4
    <3> HIDE DEF s, r
    <3>3. s \in MaybeOffset
      BY <3>2, LogEndAssumption DEF MaybeOffset, None
    <3> QED BY <3>1, <3>2, <3>3 DEF PartitionState
  <2> QED BY <2>5, <2>6
<1>4. MarkCommitted(st) \in PartitionState
  BY DEF MarkCommitted, PartitionState
<1> QED BY <1>1, <1>2, <1>3, <1>4

(* mark_terminal never declares an unresolved offset safe: if everything   *)
(* the tracker holds is terminal, and everything below o is when the       *)
(* tracker has neither a safe offset nor a dispatch floor, then marking a  *)
(* terminal offset o keeps the tracker sound.                              *)
THEOREM MarkTerminalSound ==
    ASSUME NEW st \in PartitionState, NEW o \in Offset, NEW T,
           Sound(st, T), o \in T,
           (st.safe = None /\ st.floor = None) => 0 .. o - 1 \subseteq T
    PROVE  Sound(MarkTerminal(st, o), T)
<1> DEFINE base == Bootstrap(st, o)
           queue == st.pending \cup {o}
           gap == FirstGap(base, queue)
<1>1. base \in -1 .. LogEnd - 1
  BY BootstrapType
<1>2. 0 .. base \subseteq T
  BY DEF Bootstrap, Sound
<1>3. queue \in SUBSET Offset /\ queue \subseteq T
  BY DEF PartitionState, Sound
<1>4. CASE o <= base \/ o \in st.pending
  <2>1. MarkTerminal(st, o) = [st EXCEPT !.safe = base]
    BY <1>4 DEF MarkTerminal
  <2> HIDE DEF base
  <2> QED BY <1>2, <2>1 DEF Sound, PartitionState
<1>5. CASE ~(o <= base \/ o \in st.pending)
  <2>1. MarkTerminal(st, o) = [st EXCEPT !.safe = gap - 1,
                                         !.pending = queue \ ((base + 1) .. (gap - 1))]
    BY <1>5 DEF MarkTerminal
  <2>2. gap \in (base + 1) .. LogEnd /\ \A m \in (base + 1) .. (gap - 1) : m \in queue
    BY <1>1, <1>3, FirstGapSpec
  <2> HIDE DEF base, queue, gap
  <2>3. 0 .. (gap - 1) \subseteq T
    BY <1>1, <1>2, <1>3, <2>2, LogEndAssumption
  <2> QED BY <1>3, <2>1, <2>3 DEF Sound, PartitionState
<1> QED BY <1>4, <1>5

(* Dispatching o keeps the tracker sound when everything below o is        *)
(* terminal, or the partition was already seen.                            *)
LEMMA ObserveSound ==
    ASSUME NEW st \in PartitionState, NEW o \in Offset, NEW T, Sound(st, T),
           st.floor = None => 0 .. o - 1 \subseteq T
    PROVE  Sound(Observe(st, o), T)
BY DEF Observe, Sound, PartitionState

(* Neither a fresh tracker state nor a flush invents safe offsets, and     *)
(* more terminal offsets keep a sound tracker sound.                       *)
LEMMA SoundStable ==
    /\ \A T : Sound(NewPartition, T)
    /\ \A st \in PartitionState : \A T : Sound(st, T) => Sound(MarkCommitted(st), T)
    /\ \A st, T, U : Sound(st, T) /\ T \subseteq U => Sound(st, U)
<1>1. \A T : Sound(NewPartition, T)
  BY DEF Sound, NewPartition, None
<1>2. \A st \in PartitionState : \A T : Sound(st, T) => Sound(MarkCommitted(st), T)
  BY DEF Sound, MarkCommitted, PartitionState
<1>3. \A st, T, U : Sound(st, T) /\ T \subseteq U => Sound(st, U)
  BY DEF Sound
<1> QED BY <1>1, <1>2, <1>3

(* The safe offset of a partition never goes back: not when a completion   *)
(* is marked, however late or often, and not at a commit.  The dispatch    *)
(* floor stays where the first dispatch set it.                            *)
THEOREM SafeOnlyGrows ==
    ASSUME NEW st \in PartitionState, NEW o \in Offset
    PROVE  /\ MarkTerminal(st, o).safe >= Bootstrap(st, o)
           /\ st.safe # None => MarkTerminal(st, o).safe >= st.safe
           /\ MarkTerminal(st, o).floor = st.floor
           /\ MarkCommitted(st).safe = st.safe
           /\ MarkCommitted(st).floor = st.floor
<1> DEFINE base == Bootstrap(st, o)
           queue == st.pending \cup {o}
           gap == FirstGap(base, queue)
<1>1. base \in -1 .. LogEnd - 1
  BY BootstrapType
<1>2. queue \in SUBSET Offset
  BY DEF PartitionState
<1>3. gap \in (base + 1) .. LogEnd
  BY <1>1, <1>2, FirstGapSpec
<1>4. st.safe # None => base = st.safe
  BY DEF Bootstrap
<1>5. MarkCommitted(st).safe = st.safe /\ MarkCommitted(st).floor = st.floor
  BY DEF MarkCommitted, PartitionState
<1>6. CASE o <= base \/ o \in st.pending
  <2>1. MarkTerminal(st, o) = [st EXCEPT !.safe = base]
    BY <1>6 DEF MarkTerminal
  <2>2. MarkTerminal(st, o).safe = base /\ MarkTerminal(st, o).floor = st.floor
    BY <2>1 DEF PartitionState
  <2> HIDE DEF base
  <2>3. base >= base
    BY <1>1, LogEndAssumption
  <2> QED BY <1>4, <1>5, <2>2, <2>3 DEF base
<1>7. CASE ~(o <= base \/ o \in st.pending)
  <2>1. MarkTerminal(st, o) = [st EXCEPT !.safe = gap - 1,
                                         !.pending = queue \ ((base + 1) .. (gap - 1))]
    BY <1>7 DEF MarkTerminal
  <2>2. MarkTerminal(st, o).safe = gap - 1 /\ MarkTerminal(st, o).floor = st.floor
    BY <2>1 DEF PartitionState
  <2> HIDE DEF base, gap
  <2>3. gap - 1 >= base
    BY <1>1, <1>3, LogEndAssumption
  <2> QED BY <1>4, <1>5, <2>2, <2>3 DEF base
<1> QED BY <1>6, <1>7
=============================================================================
