\* Three clients of two instances with two threads each: one fewer than threads.
CONSTANTS
  Instances = {app1, app2}
  Requests = {r1, r2, r3}
  Concurrency = 2
  MaxTotal = 1
  MaxCrashes = 1
  MaxSilences = 1
SPECIFICATION FairSpec
CHECK_DEADLOCK FALSE
INVARIANTS
  NeverGridlocked
PROPERTIES
  AnswerComplete
  EverySummaryAnswered
