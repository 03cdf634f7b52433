------------------------------ MODULE MCCreate ------------------------------
(* P2PCreate on three coordinators.                                        *)
EXTENDS P2PCreate, TLC

CONSTANTS A, B, C

MCTriple == {A, B, C}

\* nothing tells the coordinators apart
Symmetry == Permutations(MCTriple)
=============================================================================
