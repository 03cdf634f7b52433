\* A follower asks for a second catch-up while entries of the first are on the
\* way: the leader's snapshot is stored as an entry.
SPECIFICATION Spec
CONSTANTS
  Node = {n1, n2, n3}
  None = None
  MaxTerm = 1
  Budgets <- TwoCatchups
SYMMETRY Symmetry
INVARIANT CommittedAgree
CHECK_DEADLOCK FALSE
