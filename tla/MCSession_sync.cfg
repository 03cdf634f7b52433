\* Two connections, two generations, two command workers: commands, imports
\* and the expiry loop overlap.
SPECIFICATION Spec
CONSTANTS
  Client = c
  Server = s
  Conn0 = c0
  Opened = {c1}
  Worker = {w1, w2}
  MaxConns = 2
  Budgets <- Shares
  MaxEpoch = 2
  None = None
SYMMETRY Symmetric
INVARIANTS TypeOK ConnsFollowSession ReadyNotLost ActiveMeansBothReady
PROPERTY NoRollback
CHECK_DEADLOCK FALSE
