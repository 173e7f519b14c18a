SPECIFICATION Spec
CONSTANTS
  Sessions = {s1, s2}
  None = None
  Calls = {c1, c2}
  Sockets = {k1, k2}
  MaxPairs = 3
CHECK_DEADLOCK FALSE
SYMMETRY SessionSymmetry
INVARIANT NoteIsTrue
