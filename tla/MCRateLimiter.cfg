\* A tick is 30 s: the window is 2 ticks, the TTL of a counter 3, and no request
\* takes longer than 1 between reading the clock and its last incr.  Both backends;
\* a gateway that counts in memory restarts at most once.
CONSTANTS
  r1 = r1
  r2 = r2
  r3 = r3
  k1 = k1
  Unlimited = Unlimited
  Requests <- MCRequests
  Keys <- MCKeys
  Limit <- MCLimit
  Window = 2
  CounterTtl = 3
  MaxDelay = 1
  Horizon = 3
  MaxRestarts = 1
SPECIFICATION Spec
SYMMETRY Symmetry
INVARIANTS
  TypeOK
  AdmittedWithinLimits
  LimitedOnlyWhenFull
  BurstsBounded
PROPERTIES
  ImplementsQuota
CHECK_DEADLOCK FALSE
