CONSTANTS
  Instances = {app1, app2}
  Requests = {r1, r2}
  Concurrency = 1
  MaxTotal = 0
  MaxCrashes = 0
  MaxSilences = 0
SPECIFICATION FairSpec
CHECK_DEADLOCK FALSE
PROPERTIES
  EverySummaryAnswered
