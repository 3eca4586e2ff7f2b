SPECIFICATION FairExclusive
CONSTANTS
  Payments = {a, b}
  Worker = w
  Pools = {p1}
  None = none
PROPERTIES LedgerSpec EveryPaymentSettled
CHECK_DEADLOCK FALSE
