---------------------------- MODULE MCFraudOutbox ----------------------------
(* The instance of FraudOutbox for TLC: the cfg gives all constants. *)
EXTENDS FraudOutbox, TLC
=============================================================================
