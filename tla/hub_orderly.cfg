SPECIFICATION Spec
CONSTANTS
  w1 = w1
  w2 = w1
  Workers = {w1}
  Sessions = {s1}
  Conns = {c1, c2}
  ConnWorker <- MCConnWorker
  WorkerRank <- MCWorkerRank
  None = None
  NoRelay = NoRelay
  Pinger = Pinger
  AllowOverlap = FALSE
  PingLoop = FALSE
  MayStall = FALSE
  MayDelete = TRUE
  MaxCrashes = 0
  MaxRenames = 1
  MaxRemovals = 0
  MaxFaults = 1
  MaxInput = 1
  MaxOutput = 1
CHECK_DEADLOCK FALSE
SYMMETRY ConnSymmetry
INVARIANTS RunningIsTracked RowMatchesConnection
