----------------------------- MODULE MCScenario -----------------------------
(* Scenario over every vector of two accounts whose amounts run from nothing to one more *)
(* than an account can open with.                                                        *)
EXTENDS Scenario

MCOpenings   == 0..2
MCQuantities == 0..3
=============================================================================
