--------------------------- MODULE MCEventPipeline ---------------------------
(* Small instances of EventPipeline for TLC. *)
EXTENDS EventPipeline, TLC

CONSTANTS parent, child, odd, d1, d2

(* A parent, the same record again, the child that needs it. *)
DupEventOf  == 0 :> parent @@ 1 :> parent @@ 2 :> child
DupDigestOf == 0 :> d1 @@ 1 :> d1 @@ 2 :> d1

(* A malformed record, an event, the same event again, its identity with   *)
(* new content, an event that needs the first one, and one its handler     *)
(* rejects.                                                                *)
MixedEventOf  == 0 :> Malformed @@ 1 :> parent @@ 2 :> parent @@ 3 :> parent
                 @@ 4 :> child @@ 5 :> odd
MixedDigestOf == 0 :> d1 @@ 1 :> d1 @@ 2 :> d1 @@ 3 :> d2 @@ 4 :> d1 @@ 5 :> d1

ChainNeeds == parent :> {} @@ child :> {parent} @@ odd :> {}

Symmetry == Permutations(Proc) \cup Permutations(Token)
=============================================================================
