\* A tick is 60 s: rows are cached for 5, an LRU keeps what it read from Redis
\* for 1, a run of authenticate takes at most 1.
CONSTANTS
  g1 = g1
  g2 = g2
  r1 = r1
  r2 = r2
  r3 = r3
  Gateways <- MCGateways
  Requests <- MCRequests
  Hydrate = 1
  Ttl = 5
  MaxDelay = 1
  Horizon = 9
SPECIFICATION Spec
SYMMETRY Symmetry
INVARIANTS
  TypeOK
  EntriesDieOut
PROPERTIES
  RevocationTakesEffect
  RestartForgets
CHECK_DEADLOCK FALSE
