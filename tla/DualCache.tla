------------------------------- MODULE DualCache -------------------------------
(***************************************************************************)
(* One key of DualCache (tokencamp-core/src/cache/mod.rs), on every        *)
(* gateway: an LRU of entries with an expiry in front of a backend, which  *)
(* is a Redis the gateways share, or a HashMap of each gateway whose       *)
(* entries never expire.  Modules that use the cache supply the steps in   *)
(* between: get and set take a lock, then talk to the backend, and         *)
(* anything may happen in between.                                         *)
(*                                                                         *)
(* Entries are counted down: what is kept of one is the time left until    *)
(* its expiry, 0 for an absent or expired one.                             *)
(***************************************************************************)
EXTENDS Naturals

CONSTANTS
  Gateways,   \* the gateways, one DualCache each
  Hydrate     \* the 60 s an entry read from Redis stays in the LRU, in ticks

VARIABLES
  redis,      \* do the gateways share a Redis?
  local,      \* in_memory: time left of the entry in each LRU
  backend     \* time left of the entry in the backend, by Home

cache == <<local, backend>>

ASSUME CacheAssumption ==
  /\ Hydrate \in Nat
  /\ "redis" \notin Gateways

\* Where the backend entry of a gateway lives.
Home(g) == IF redis THEN "redis" ELSE g
Homes == Gateways \union {"redis"}

CacheTypeOK ==
  /\ redis \in BOOLEAN
  /\ local \in [Gateways -> Nat]
  /\ backend \in [Homes -> Nat]

\* The configuration has a redis_url, or not.
CacheInit ==
  /\ redis \in BOOLEAN
  /\ local = [g \in Gateways |-> 0]
  /\ backend = [h \in Homes |-> 0]

\* get, on the LRU: an entry whose expiry is in the future.
HitLocal(g) == local[g] > 0

\* get, on the backend.
HitBackend(g) == backend[Home(g)] > 0

\* 300 s, the time set gives an entry.
FillLocal_AsLongAsSet(g) == local' = [local EXCEPT ![g] = 5 * Hydrate]

\* get, after Redis answered with a value: it goes into the LRU with a time of
\* its own, whatever is left of it in Redis.
FillLocal(g) == local' = [local EXCEPT ![g] = Hydrate]

\* set, on the LRU.
PutLocal(g, ttl) == local' = [local EXCEPT ![g] = ttl]

\* set, on the backend: SETEX, or an insert into a map without expiry (time does
\* not count it down).
PutBackend(g, ttl) == backend' = [backend EXCEPT ![Home(g)] = ttl]

\* The LRU is full and drops this key to make room for another one.
Evict(g) ==
  /\ local' = [local EXCEPT ![g] = 0]
  /\ UNCHANGED backend

\* The process of a gateway starts again: its LRU is empty, and so is its HashMap.
Forget(g) ==
  /\ local' = [local EXCEPT ![g] = 0]
  /\ backend' = IF redis THEN backend ELSE [backend EXCEPT ![g] = 0]

Elapse_BelowZero(t) == t - 1

Elapse(t) == IF t = 0 THEN 0 ELSE t - 1

\* A tick: LRU entries and Redis keys expire, the entries of a HashMap do not.
CacheElapse ==
  /\ local' = [g \in Gateways |-> Elapse(local[g])]
  /\ backend' = [h \in Homes |-> IF h = "redis" THEN Elapse(backend[h]) ELSE backend[h]]
=============================================================================
