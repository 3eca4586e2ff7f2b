CONSTANTS
  RestThreads = {r1, r2}
  WorkerCount = 2
  Pools = {c1, c2}
  MaxPayments = 3
  MaxCrashes = 1
  MaxOverlaps = 2
SPECIFICATION FairSpec
INVARIANTS Balanced PoolBounded AckedIsSomewhere
PROPERTIES EveryAckedSettled FlagIsCleared
CHECK_DEADLOCK FALSE
