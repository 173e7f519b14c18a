SPECIFICATION Spec
CONSTANTS
  Viewers = {v1}
  Producers = {p1}
  Relays = {r1, r2}
  Watched = r1
  None = None
  Out = Out
  ScrollbackSize = 4
  MaxChunk = 2
  MaxOutput = 4
CHECK_DEADLOCK FALSE
INVARIANT NoOrphan
