----------------------------- MODULE MCIngress ------------------------------
(* P2PIngress with a few commands of each kind.                            *)
EXTENDS P2PIngress
=============================================================================
