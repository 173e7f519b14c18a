SPECIFICATION Spec
CONSTANTS
  Requests = {q1, q2}
  MaxPairs = 3
  MaxFaults = 0
CHECK_DEADLOCK FALSE
INVARIANT UsedOnce
