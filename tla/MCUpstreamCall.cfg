\* Two requests, each with any kind of call and one retry, on one deployment whose
\* breaker trips at the second failure.
CONSTANTS
  r1 = r1
  r2 = r2
  d1 = d1
  NoDeployment = NoDeployment
  NoCall = NoCall
  Requests <- MCRequests
  Deployments <- MCDeployments
  Calls <- MCCalls
  NumRetries = 1
  RetryAfter = 1
  AllowedFails = 2
  CooldownTime = 1
SPECIFICATION Spec
INVARIANTS
  TypeOK
  RepeatedOnlyIfRefused
  RefusalsRetried
PROPERTIES
  ImplementsLoop
  OnlyAnswersForgive
CHECK_DEADLOCK FALSE
