\* One signal per generation, two generations, one request ID per member.
CONSTANTS
  cli = cli
  srv = srv
  m1 = m1
  m2 = m2
  r1 = r1
  r2 = r2
  Client = cli
  Server = srv
  Msg = {m1}
  Req = {r1}
  Senders = {cli}
  MaxSeq = 1
  MaxEpoch = 2
  MaxWorkers = 2
SPECIFICATION FairSpec
PROPERTIES
  PendingResolved
  DeadRetriesDrained
