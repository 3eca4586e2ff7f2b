SPECIFICATION FairSequential
CONSTANTS
  Workers = {w}
  Pools = {p}
  DefaultUrl = defaultUrl
  FallbackUrl = fallbackUrl
  FeeDifference = 3
  Durations = {1, 3}
  Conditions <- AllConditions
INVARIANTS RolesAgree FailoverOn500 ProbeDecides
PROPERTIES FailoverFromErrors
