SPECIFICATION Spec
CONSTANTS
  Payments = {a, b}
  Worker = w
  Pools = {p1}
  None = none
SYMMETRY Symmetry
INVARIANTS CountedWasCharged
CHECK_DEADLOCK FALSE
