------------------------------ MODULE MCSignal ------------------------------
(* Small instances of P2PSignal for TLC.                                   *)
EXTENDS P2PSignal, TLC

CONSTANTS cli, srv, m1, m2, r1, r2

MCSymmetry == Permutations({m1, m2}) \cup Permutations({r1, r2})
=============================================================================
