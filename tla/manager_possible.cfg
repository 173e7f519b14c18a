SPECIFICATION Spec
CONSTANTS
  Managers = {m1, m2}
  Sockets = {k1, k2}
  Ptys = {p1, p2}
  Sessions = {s1}
  None = None
  MaxAttempts = 6
  ServerRespawns = TRUE
CHECK_DEADLOCK FALSE
INVARIANTS Possible
