SPECIFICATION FairSpec
CONSTANTS
  Viewers = {v1, v2}
  Producers = {p1}
  Relays = {r1, r2}
  Watched = r1
  None = None
  Out = Out
  ScrollbackSize = 2
  MaxChunk = 2
  MaxOutput = 3
CHECK_DEADLOCK FALSE
INVARIANTS ExactlyOnce InOrder OneChunkTwice
PROPERTIES ImplementsBroadcast NobodyWaits
