-------------------------- MODULE MCEventGenerator --------------------------
EXTENDS EventGenerator

Quiet == [persona |-> "mix", stateful |-> TRUE, pool |-> 2, target |-> 2,
          clock |-> {0}, anomalies |-> {}, most |-> 2, faults |-> 0]

(* Every pair of journeys; a clock that steps back between the journeys of *)
(* one persona, with a crash or a delivery that fails; a takeover with its *)
(* seeding, twice; a run until a signal; a pool that fills up; every       *)
(* choice of anomalies on one journey.                                     *)
GeneratorConfigs ==
    {Quiet,
     [Quiet EXCEPT !.persona = "indecisive", !.pool = 1, !.clock = {0, 9},
                   !.faults = 1],
     [Quiet EXCEPT !.persona = "account_takeover", !.clock = {0, 9}, !.target = 3],
     [Quiet EXCEPT !.persona = "bot", !.target = Continuous],
     [Quiet EXCEPT !.persona = "discount_hunter", !.stateful = FALSE, !.pool = 1],
     [Quiet EXCEPT !.persona = "suspicious", !.target = 1, !.anomalies = Anomaly]}

=============================================================================
