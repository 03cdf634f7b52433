\* CREATE on one worker, CLOSE on the other: the import of the first brings the
\* closed session back.
SPECIFICATION Spec
CONSTANTS
  Client = c
  Server = s
  Conn0 = c0
  Opened = {}
  Worker = {w1, w2}
  MaxConns = 1
  Budgets <- Few
  MaxEpoch = 1
  None = None
INVARIANT ClosedNotRevived
CHECK_DEADLOCK FALSE
