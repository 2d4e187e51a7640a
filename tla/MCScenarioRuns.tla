--------------------------- MODULE MCScenarioRuns ---------------------------
(* Small instances of ScenarioRuns for TLC. *)
EXTENDS ScenarioRuns, TLC

Symmetry == Permutations(Run)
=============================================================================
