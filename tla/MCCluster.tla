----------------------------- MODULE MCCluster -----------------------------
(* P2PCluster on an owner and one replica.                                 *)
EXTENDS P2PCluster

CONSTANTS A, B

MCPair == {A, B}
=============================================================================
