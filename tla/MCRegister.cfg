CONSTANTS
  a = a
  b = b
  None = None
  Coord <- TwoCoords
  MaxConns = 2
  MaxSends = 3
SPECIFICATION Spec
SYMMETRY CoordSymmetry
INVARIANTS OneOccupantPerServer OkMeansOccupied GoneIsLeaving
CHECK_DEADLOCK FALSE
