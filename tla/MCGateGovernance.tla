-------------------------- MODULE MCGateGovernance --------------------------
(* Names for the instances the cfg files build: validators, accounts, code, *)
(* assets.  The delay is shorter than the grace period and the setup window *)
(* as in the contract, scaled down to ticks.                                *)
EXTENDS GateGovernance

CONSTANTS v1, v2, o, i1, k1, k2, d1, t1, t2, s1
=============================================================================
