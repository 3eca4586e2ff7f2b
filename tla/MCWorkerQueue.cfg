\* A REST thread, the worker, its fallback-pool thread, a ring of two slots.
CONSTANTS
  RestThreads = {r1}
  Pools = {pool}
  Worker = worker
  Payments = {p1, p2, p3}
  Capacity = 2
  MaxPushes = 4
  Empty = Empty
  Torn = Torn
  None = None
SPECIFICATION FairSpec
INVARIANTS
  NeverFetchesMoreThanPushed
  NoPositionLost
  FifoUntilHazard
  ExactlyOnePlace
PROPERTIES
  EveryPushIsFetched
\* A behaviour ends when MaxPushes calls of enqueue have been made.
CHECK_DEADLOCK FALSE
