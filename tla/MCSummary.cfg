CONSTANTS
  Writers = {worker, pool}
  Capacity = 2
  Ms = 2
  Word = 64
  Start = 2
  FallbackEnabled = TRUE
  LastSecond = 4
  MaxStores = 2
SYMMETRY Symmetry
SPECIFICATION Spec
CHECK_DEADLOCK FALSE
INVARIANTS
  BucketsExact
  NeverOvercounts
  ScanInBounds
  QueryAnswers
