SPECIFICATION FairSpec
CONSTANTS
  w1 = w1
  w2 = w1
  Workers = {w1}
  Sessions = {s1}
  Conns = {c1, c2}
  ConnWorker <- MCConnWorker
  WorkerRank <- MCWorkerRank
  None = None
  NoRelay = NoRelay
  Pinger = Pinger
  AllowOverlap = TRUE
  PingLoop = TRUE
  MayStall = TRUE
  MayDelete = FALSE
  MaxCrashes = 0
  MaxRenames = 0
  MaxRemovals = 0
  MaxFaults = 1
  MaxInput = 0
  MaxOutput = 1
CONSTRAINT MadeInOrder
CHECK_DEADLOCK FALSE
INVARIANT NoForgottenSession
PROPERTIES HandlerEnds OfflineIsResumed
