SPECIFICATION Spec
CONSTANTS
  Nodes = {n1, n2}
  Sessions = {s1, s2, s3}
  Deleters = {d1, d2}
  None = None
  Capacity = 1
CHECK_DEADLOCK FALSE
SYMMETRY PoolSymmetry
INVARIANTS CountMatchesRows RunningHasContainer NoLeak WithinCapacity
