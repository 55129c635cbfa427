-------------------------------- MODULE KeyAuth --------------------------------
(***************************************************************************)
(* authenticate (gateway/src/routes/chat.rs) for one API key kept in       *)
(* PostgreSQL, by concurrent requests on gateways that cache the key's row *)
(* in DualCache, while the key is generated (admin/keys.rs, generate_key), *)
(* deactivated (DbPool::deactivate_key), and gateways are restarted.       *)
(*                                                                         *)
(* The row is cached for Ttl after it was read, and nothing ever removes   *)
(* it from the caches: how long a deactivated key is still accepted        *)
(* depends on what the two layers do with the expiry.                      *)
(***************************************************************************)
EXTENDS DualCache

CONSTANTS
  Requests,   \* runs of authenticate
  Ttl,        \* the 300 s of cache.set, in ticks
  MaxDelay,   \* bound: ticks a run of authenticate takes
  Horizon     \* bound: ticks explored after the key is deactivated

ASSUME AuthAssumption == Ttl \in Nat /\ MaxDelay \in Nat /\ Horizon \in Nat

NoGateway == "none"

VARIABLES
  row,        \* the key's row in api_keys: "none", "active" or "inactive"
  issued,     \* the administrator has been given the key
  since,      \* ticks since the key was deactivated
  restarted,  \* the gateways that were restarted since then
  pc,         \* where each run of authenticate is
  gateway,    \* the gateway it runs on
  age         \* ticks since it started

key == <<row, issued, since, restarted>>
run == <<pc, gateway, age>>
vars == <<redis, cache, key, run>>

Revoked == row = "inactive"

InFlight == {"backend", "fill", "db", "put_local", "put_backend"}
Ended == {"accepted", "denied", "gone"}

TypeOK ==
  /\ CacheTypeOK
  /\ row \in {"none", "active", "inactive"}
  /\ issued \in BOOLEAN
  /\ since \in 0..Horizon
  /\ restarted \subseteq Gateways
  /\ pc \in [Requests -> {"new"} \union InFlight \union Ended]
  /\ gateway \in [Requests -> Gateways \union {NoGateway}]
  /\ \A r \in Requests : pc[r] # "new" => gateway[r] \in Gateways
  /\ age \in [Requests -> 0..MaxDelay]

Init ==
  /\ CacheInit
  /\ row = "none"
  /\ issued = FALSE
  /\ since = 0
  /\ restarted = {}
  /\ pc = [r \in Requests |-> "new"]
  /\ gateway = [r \in Requests |-> NoGateway]
  /\ age = [r \in Requests |-> 0]
-----------------------------------------------------------------------------
\* generate_key: the row is inserted with a fresh key, which only the answer holds.
\* An error, or an answer that is lost, leaves a row whose key nobody knows.
Generate ==
  /\ row = "none"
  /\ row' = "active"
  /\ issued' \in BOOLEAN
  /\ UNCHANGED <<redis, cache, since, restarted, run>>

\* deactivate_key (delete_key), or an UPDATE of the row: no cache hears of it.
Deactivate ==
  /\ row = "active"
  /\ row' = "inactive"
  /\ UNCHANGED <<redis, cache, issued, since, restarted, run>>

Goto(r, place) == pc' = [pc EXCEPT ![r] = place]

\* cache.get: the LRU, where an expired entry is popped.
LookUp(r, g) ==
  /\ pc[r] = "new"
  /\ issued
  /\ gateway' = [gateway EXCEPT ![r] = g]
  /\ Goto(r, IF HitLocal(g) THEN "accepted" ELSE "backend")
  /\ UNCHANGED <<redis, cache, key, age>>

\* cache.get: the backend answers.  A failed GET counts as a miss.
AskBackend(r) ==
  /\ pc[r] = "backend"
  /\ \/ /\ HitBackend(gateway[r])
        /\ Goto(r, IF redis THEN "fill" ELSE "accepted")
     \/ /\ redis \/ ~ HitBackend(gateway[r])
        /\ Goto(r, "db")
  /\ UNCHANGED <<redis, cache, key, gateway, age>>

\* cache.get: the answer of Redis goes into the LRU.
Fill(r) ==
  /\ pc[r] = "fill"
  /\ FillLocal(gateway[r])
  /\ Goto(r, "accepted")
  /\ UNCHANGED <<redis, backend, key, gateway, age>>

ReadDb_AnyRow(r) ==
  /\ pc[r] = "db"
  /\ Goto(r, "put_local") \/ Goto(r, "denied")
  /\ UNCHANGED <<redis, cache, key, gateway, age>>

\* find_key_by_hash, which returns active rows only, and None on any error.
ReadDb(r) ==
  /\ pc[r] = "db"
  /\ \/ row = "active" /\ Goto(r, "put_local")
     \/ Goto(r, "denied")
  /\ UNCHANGED <<redis, cache, key, gateway, age>>

\* cache.set: the LRU.
SetLocal(r) ==
  /\ pc[r] = "put_local"
  /\ PutLocal(gateway[r], Ttl)
  /\ Goto(r, "put_backend")
  /\ UNCHANGED <<redis, backend, key, gateway, age>>

\* cache.set: the backend.  A failed SETEX is ignored.
SetBackend(r) ==
  /\ pc[r] = "put_backend"
  /\ \/ PutBackend(gateway[r], Ttl)
     \/ redis /\ UNCHANGED backend
  /\ Goto(r, "accepted")
  /\ UNCHANGED <<redis, local, key, gateway, age>>

\* The client disconnects while Redis or PostgreSQL is awaited.
Disconnect(r) ==
  /\ pc[r] \in (IF redis THEN {"backend", "fill", "db", "put_backend"} ELSE {"db"})
  /\ Goto(r, "gone")
  /\ UNCHANGED <<redis, cache, key, gateway, age>>

DropFromLru(g) ==
  /\ HitLocal(g)
  /\ Evict(g)
  /\ UNCHANGED <<redis, key, run>>

\* A gateway's process ends, by a crash or a deployment, and main starts again:
\* its caches are empty and its requests gone.
Restart(g) ==
  /\ Forget(g)
  /\ pc' = [r \in Requests |->
              IF gateway[r] = g /\ pc[r] \in InFlight THEN "gone" ELSE pc[r]]
  /\ restarted' = IF Revoked THEN restarted \union {g} ELSE restarted
  /\ UNCHANGED <<redis, row, issued, since, gateway, age>>

\* Time passes, no run of authenticate taking longer than MaxDelay.
Tick ==
  /\ since < Horizon
  /\ \A r \in Requests : pc[r] \in InFlight => age[r] < MaxDelay
  /\ CacheElapse
  /\ since' = IF Revoked THEN since + 1 ELSE 0
  /\ age' = [r \in Requests |-> IF pc[r] \in InFlight THEN age[r] + 1 ELSE age[r]]
  /\ UNCHANGED <<redis, row, issued, restarted, pc, gateway>>

Next ==
  \/ \E r \in Requests :
       \/ \E g \in Gateways : LookUp(r, g)
       \/ AskBackend(r)
       \/ Fill(r)
       \/ ReadDb(r)
       \/ SetLocal(r)
       \/ SetBackend(r)
       \/ Disconnect(r)
  \/ \E g \in Gateways : DropFromLru(g) \/ Restart(g)
  \/ Generate
  \/ Deactivate
  \/ Tick

Spec == Init /\ [][Next]_vars
-----------------------------------------------------------------------------
Accepts(r) == pc[r] # "accepted" /\ pc'[r] = "accepted"

\* With Redis, a deactivated key is not accepted any more once the time a row is
\* cached, the time Redis entries stay in an LRU and the delays of two requests have
\* passed, on whichever gateway it is used: the one that cached the row may have done
\* so late, and the one that hydrated its LRU may have done so with an old answer.
AcceptedAtMost == Ttl + Hydrate + 2 * MaxDelay

RevocationTakesEffect ==
  [][\A r \in Requests :
       Accepts(r) /\ redis => ~ Revoked \/ since <= AcceptedAtMost]_vars

\* Without Redis, a gateway that was started after the deactivation never accepts
\* the key: what it had read before is gone with the process that read it.
RestartForgets ==
  [][\A r \in Requests :
       Accepts(r) /\ ~ redis /\ Revoked => gateway'[r] \notin restarted]_vars

\* With Redis, no cache holds the row longer than that either; a Redis entry is
\* gone after the time to live and one delay.
EntriesDieOut ==
  Revoked /\ redis =>
    /\ \A g \in Gateways : HitLocal(g) => since + local[g] <= AcceptedAtMost
    /\ \A h \in Homes : backend[h] > 0 => since + backend[h] <= Ttl + MaxDelay

\* docs/adr/006-redis-dual-cache.md:67: an API key is cached for 5 minutes; with the
\* delay of one request a deactivated one is not accepted for longer, without Redis
\* too.
CachedForTtl ==
  [][\A r \in Requests :
       Accepts(r) /\ ~ redis => ~ Revoked \/ since <= Ttl + MaxDelay]_vars
=============================================================================
