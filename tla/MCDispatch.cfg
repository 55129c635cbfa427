\* Every strategy, two requests: the second one may find the first one's model cooling
\* down at any point of its way through the Router.
CONSTANTS
  r1 = r1
  r2 = r2
  Requests <- MCRequests
  NumRetries = 0
  RetryAfter = 1
  AllowedFails = 1
  CooldownTime = 1
  Lists <- AllLists
  Plans <- ToAnything
  Configs <- MCConfigs
  Asks <- MCAsks
SPECIFICATION Spec
INVARIANTS
  TypeOK
  NeverChoosesFromNothing
  RoutedAsConfigured
  RejectedByConfiguration
PROPERTIES
  EveryRequestAnswered
CHECK_DEADLOCK FALSE
