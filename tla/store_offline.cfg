SPECIFICATION StoreSpec
CONSTANTS
  Slots = {c1}
  Ids = {a, b}
  NoSession = NoSession
  MaxMoves = 4
  MaxListed = 9
CHECK_DEADLOCK FALSE
SYMMETRY StoreSymmetry
INVARIANT KeepsLocalOnly
