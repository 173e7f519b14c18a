SPECIFICATION Spec
CONSTANTS
  Sessions = {s1, s2}
  Ptys = {p1, p2, p3}
  None = None
  Reloads = TRUE
  SpawnFails = TRUE
  MaxQueue = 2
CHECK_DEADLOCK FALSE
SYMMETRY PtySymmetry
INVARIANTS NoneLost NoCrossTalk ProcessPerTab
