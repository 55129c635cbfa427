\* A request is routed while an entry of the model it asks for cools down for its own
\* failures.
CONSTANTS
  r1 = r1
  r2 = r2
  Requests <- MCRequests
  NumRetries = 0
  RetryAfter = 1
  AllowedFails = 1
  CooldownTime = 1
  Lists <- OnlyPair
  Plans <- ToOthers
  Configs <- MCConfigs
  Asks <- MCAsks
SPECIFICATION Spec
PROPERTIES
  SkipsCoolingDeployments
CHECK_DEADLOCK FALSE
