\* One sending direction, two signals, two generations, two request IDs per
\* member, two signal commands in flight beside the retry loop.
CONSTANTS
  cli = cli
  srv = srv
  m1 = m1
  m2 = m2
  r1 = r1
  r2 = r2
  Client = cli
  Server = srv
  Msg = {m1, m2}
  Req = {r1, r2}
  Senders = {cli}
  MaxSeq = 2
  MaxEpoch = 2
  MaxWorkers = 2
SYMMETRY MCSymmetry
SPECIFICATION Spec
INVARIANTS
  SignalInv
  NoLostRetry
  PendingWindow
  NoSignalForgotten
PROPERTY NoRevival
