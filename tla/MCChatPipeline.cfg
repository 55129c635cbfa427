\* Three requests on two gateways, which share a Redis or have none.
CONSTANTS
  r1 = r1
  r2 = r2
  r3 = r3
  g1 = g1
  g2 = g2
  Nobody = Nobody
  Requests <- MCRequests
  Gateways <- MCGateways
  Asks <- Different
SPECIFICATION Spec
SYMMETRY Symmetry
INVARIANTS
  TypeOK
  ServedUnderOwnKey
  ChargedAtMostOnce
  AnswersAreCharged
  CountersAddUp
PROPERTY
  ImplementsSharedAnswers
CHECK_DEADLOCK FALSE
