SPECIFICATION Spec
CONSTANTS
  Requests = {q1, q2}
  MaxPairs = 3
  MaxFaults = 1
CHECK_DEADLOCK FALSE
SYMMETRY RequestSymmetry
INVARIANTS StoredIsUsable SignedOutStaysOut
PROPERTIES ReplayOverlaps SignedOutForCause
