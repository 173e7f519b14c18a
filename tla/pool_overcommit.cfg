SPECIFICATION Spec
CONSTANTS
  Nodes = {n1}
  Sessions = {s1, s2}
  Deleters = {d1}
  None = None
  Capacity = 1
CHECK_DEADLOCK FALSE
SYMMETRY PoolSymmetry
INVARIANT CapacityKept
