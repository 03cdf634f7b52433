\* Three copies of the request on three coordinators, two at the same time.
SPECIFICATION Spec
CONSTANTS
  A = A
  B = B
  C = C
  None = None
  Coord <- MCTriple
  MaxSends = 3
  MaxInFlight = 2
SYMMETRY Symmetry
INVARIANTS OneSession OneOwner BarrierHolds
CHECK_DEADLOCK FALSE
