\* Every body of up to four events, cut into chunks in every way.  The response
\* stops: deadlock is not an error.
SPECIFICATION Spec
CONSTANTS
  MaxEvents = 4
  Alphabet <- MCEvents
  Bodies <- MCBodies
INVARIANTS
  TypeOK
  DeliveredInOrder
  DamageGoesForward
  KeepsUpWithUpstream
  SpacedEventsArrive
PROPERTIES
  EndsWithUpstream
CHECK_DEADLOCK FALSE
