\* An owner and a replica, a session just created or just replicated, two commands.
SPECIFICATION FairSpec
CONSTANTS
  A = A
  B = B
  None = None
  Coord <- MCPair
  Owner = A
  MaxOps = 2
  MaxRetries = 1
  Expiry = TRUE
INVARIANTS TypeOK OnlyOwnerExecutes OkIsReplicated ActiveKept
PROPERTY NegotiationEnds
CHECK_DEADLOCK FALSE
