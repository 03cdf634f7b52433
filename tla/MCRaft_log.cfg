\* Three nodes under several small budgets of what may happen.
SPECIFICATION Spec
CONSTANTS
  Node = {n1, n2, n3}
  None = None
  MaxTerm = 3
  Budgets <- Various
SYMMETRY Symmetry
INVARIANTS TypeOK OneLeaderPerTerm LogMatching LeaderComplete
PROPERTY IsReplicatedLog
CHECK_DEADLOCK FALSE
