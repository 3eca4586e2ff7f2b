SPECIFICATION Spec
CONSTANTS
  Payments = {a, b}
  Worker = w
  Pools = {p1, p2}
  None = none
SYMMETRY Symmetry
INVARIANTS OnePlace StoredWasCharged OnlyLossDuplicates BooksBalance OnePoolProcesses
CHECK_DEADLOCK FALSE
