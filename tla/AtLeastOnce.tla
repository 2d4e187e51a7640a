----------------------------- MODULE AtLeastOnce -----------------------------
(***************************************************************************)
(* What consuming one partition promises, with nothing said about how:     *)
(* records are resolved in any order and possibly several at a time, a     *)
(* resolved record stays resolved, and the committed offset only moves     *)
(* forward, over records that are all resolved.                            *)
(***************************************************************************)
EXTENDS Integers

CONSTANT LogEnd

VARIABLES
    resolved,       \* offsets with a durable terminal outcome
    committed       \* the consumer group's committed offset

Init == resolved = {} /\ committed = 0

Resolve ==
    /\ \E S \in SUBSET (0 .. LogEnd - 1) : resolved' = resolved \cup S
    /\ UNCHANGED committed

Commit ==
    /\ \E n \in committed + 1 .. LogEnd :
        /\ 0 .. n - 1 \subseteq resolved
        /\ committed' = n
    /\ UNCHANGED resolved

Next == Resolve \/ Commit

Spec == Init /\ [][Next]_<<resolved, committed>>
=============================================================================
