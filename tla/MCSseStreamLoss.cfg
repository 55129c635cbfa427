\* Two data events in one network chunk at the end of the body: the second one
\* stays in the buffer and is dropped with it.
SPECIFICATION Spec
CONSTANTS
  MaxEvents = 2
  Alphabet <- CleanEvents
  Bodies <- MCBodies
INVARIANTS
  AllDelivered
CHECK_DEADLOCK FALSE
