-------------------------- MODULE MCPooledConsumer --------------------------
(* Small instances of PooledConsumer for TLC. *)
EXTENDS PooledConsumer, TLC

CONSTANTS q1, q2

(* More records of one partition than the poll thread, the work queue and  *)
(* the workers can hold, without disturbance; three disturbances on two    *)
(* records of one partition; and two on a record in each.                  *)
PoolLoads ==
    {[end |-> (q1 :> 8 @@ q2 :> 0), faults |-> 0],
     [end |-> (q1 :> 2 @@ q2 :> 0), faults |-> 3],
     [end |-> (q1 :> 1 @@ q2 :> 1), faults |-> 2]}

(* A revocation and its reassignment *)
ReassignLoads == {[end |-> (q1 :> 3), faults |-> 1]}

WorkerSymmetry == Permutations(Worker)
=============================================================================
