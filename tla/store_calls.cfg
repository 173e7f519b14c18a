SPECIFICATION FairSpec
CONSTANTS
  Slots = {c1, c2}
  Ids = {a, b, c}
  NoSession = NoSession
  MaxMoves = 3
  MaxListed = 3
CHECK_DEADLOCK FALSE
INVARIANTS ActiveIsOpen LocalSurvives ListedOnce
PROPERTY Converges
