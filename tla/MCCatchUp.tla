----------------------------- MODULE MCCatchUp ------------------------------
(* P2PCatchUp with two running coordinators.                               *)
EXTENDS P2PCatchUp
=============================================================================
