\* Two running coordinators, one of which may crash; a route that comes and goes;
\* one round too short for an answer.
SPECIFICATION FairSpec
CONSTANTS
  Peer = {p, q}
  Owner = p
  MaxRev = 1
  MaxCrashes = 1
  MaxEarly = 1
  InitialMax = 2
INVARIANTS TypeOK JoinedIsCurrent
PROPERTIES JoinsEventually StartReturns
CHECK_DEADLOCK FALSE
