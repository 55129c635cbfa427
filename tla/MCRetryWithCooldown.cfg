\* Three requests against one deployment: one streak of failures that trips the
\* breaker, with a third request that can succeed or fail in between.
CONSTANTS
  r1 = r1
  r2 = r2
  r3 = r3
  d1 = d1
  NoDeployment = NoDeployment
  Requests <- MCRequests
  Deployments <- MCDeployments
  NumRetries = 1
  RetryAfter = 1
  AllowedFails = 2
  CooldownTime = 2
SPECIFICATION Spec
INVARIANTS
  TypeOK
  ThresholdTrips
  CoolsOnlyAfterAllowedFails
  FailsOnlyWhenExhausted
PROPERTIES
  EveryRequestEnds
  ImplementsBreaker
CHECK_DEADLOCK FALSE
