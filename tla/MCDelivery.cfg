\* One request repeated until it is answered: two workers, late and failed
\* publishes and synchronisations.
SPECIFICATION FairSpec
CONSTANTS
  Req = {r1}
  Worker = {w1, w2}
  MaxEvents = 2
  MaxNet = 2
  None = None
INVARIANTS PublishedOnce OkMeansDelivered ReplicaNotAhead
PROPERTY RequestCompletes
CHECK_DEADLOCK FALSE
