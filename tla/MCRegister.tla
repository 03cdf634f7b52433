----------------------------- MODULE MCRegister -----------------------------
(* P2PRegister on two coordinators.                                        *)
EXTENDS P2PRegister, TLC

CONSTANTS a, b

TwoCoords == {a, b}

\* nothing tells the coordinators apart
CoordSymmetry == Permutations(TwoCoords)
=============================================================================
