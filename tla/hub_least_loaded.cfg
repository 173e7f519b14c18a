SPECIFICATION Spec
CONSTANTS
  w1 = w1
  w2 = w2
  Workers = {w1, w2}
  Sessions = {s1, s2}
  Conns = {c1, c2}
  ConnWorker <- MCConnWorker
  WorkerRank <- MCWorkerRank
  None = None
  NoRelay = NoRelay
  Pinger = Pinger
  AllowOverlap = FALSE
  PingLoop = FALSE
  MayStall = FALSE
  MayDelete = TRUE
  MaxCrashes = 0
  MaxRenames = 0
  MaxRemovals = 0
  MaxFaults = 0
  MaxInput = 0
  MaxOutput = 0
CHECK_DEADLOCK FALSE
PROPERTY LeastLoaded
