\* Two conversations that run together to the same text.
CONSTANTS
  r1 = r1
  r2 = r2
  r3 = r3
  g1 = g1
  g2 = g2
  Nobody = Nobody
  Requests <- MCRequests
  Gateways <- MCGateways
  Asks <- Colliding
SPECIFICATION Spec
SYMMETRY Symmetry
INVARIANTS
  IdenticalPromptsOnly
CHECK_DEADLOCK FALSE
