SPECIFICATION Spec
CONSTANTS
  w1 = w1
  w2 = w2
  Workers = {w1, w2}
  Sessions = {s1}
  Conns = {c1, c2, c3}
  ConnWorker <- MCConnWorker
  WorkerRank <- MCWorkerRank
  None = None
  NoRelay = NoRelay
  Pinger = Pinger
  AllowOverlap = FALSE
  PingLoop = FALSE
  MayStall = FALSE
  MayDelete = FALSE
  MaxCrashes = 1
  MaxRenames = 0
  MaxRemovals = 1
  MaxFaults = 0
  MaxInput = 1
  MaxOutput = 1
CHECK_DEADLOCK FALSE
CONSTRAINT OneUpset
SYMMETRY FirstWorkerSymmetry
INVARIANT Routing
