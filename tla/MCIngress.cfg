\* One queue slot and two workers for three commands.
SPECIFICATION FairSpec
CONSTANTS
  None = None
  Register = {r1}
  External = {e1}
  Forwarded = {f1}
  Worker = {w1, w2}
  QueueSize = 1
INVARIANTS QuietExit StopIsFinal
PROPERTIES CommandsAnswered StopReturns
CHECK_DEADLOCK FALSE
