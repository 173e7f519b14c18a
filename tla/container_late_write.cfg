SPECIFICATION Spec
CONSTANTS
  Terminals = {t1}
  Sockets = {k1, k2}
  None = None
  MaxServed = 1
  MaxReconnectAttempts = 1
CHECK_DEADLOCK FALSE
INVARIANT NoWriteAfterReturn
