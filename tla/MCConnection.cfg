CONSTANTS
  Kinds = {"payment", "purgeBody", "summary", "unknown", "malformed"}
  Length = 2
  MaxRequests = 3
  Window = 2
  MaxRetries = 1
  MaxErrors = 1
SPECIFICATION FairSpec
INVARIANTS
  TypeOK OneWrite OneRequest InOrder OwnBody RightAnswer AcceptedIsAnswered CloseExplained TimerGuards
PROPERTIES
  EveryRequestResolved
CHECK_DEADLOCK FALSE
