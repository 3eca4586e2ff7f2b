SPECIFICATION FairSequential
CONSTANTS
  Workers = {w}
  Pools = {p}
  DefaultUrl = defaultUrl
  FallbackUrl = fallbackUrl
  FeeDifference = 3
  Durations = {1, 3}
  Conditions <- AllConditions
PROPERTIES FailoverFromOutage
