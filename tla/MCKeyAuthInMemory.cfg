\* Gateways without Redis: each keeps the rows in a HashMap of its own, for ever.
CONSTANTS
  g1 = g1
  g2 = g2
  r1 = r1
  r2 = r2
  r3 = r3
  Gateways <- MCGateways
  Requests <- MCRequests
  Hydrate = 1
  Ttl = 5
  MaxDelay = 1
  Horizon = 9
SPECIFICATION Spec
SYMMETRY Symmetry
PROPERTIES
  CachedForTtl
CHECK_DEADLOCK FALSE
