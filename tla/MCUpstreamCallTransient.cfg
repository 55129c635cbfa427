\* A call with retries left that meets a timeout, 429 or 5xx.
CONSTANTS
  r1 = r1
  r2 = r2
  d1 = d1
  NoDeployment = NoDeployment
  NoCall = NoCall
  Requests <- MCRequests
  Deployments <- MCDeployments
  Calls <- MCCalls
  NumRetries = 1
  RetryAfter = 1
  AllowedFails = 2
  CooldownTime = 1
SPECIFICATION Spec
INVARIANTS
  TransientErrorsRetried
CHECK_DEADLOCK FALSE
