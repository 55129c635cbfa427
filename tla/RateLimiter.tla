------------------------------ MODULE RateLimiter ------------------------------
(***************************************************************************)
(* ParallelRequestLimiter (tokencamp-core/src/hooks/                       *)
(* parallel_request_limiter.rs) on the counters of DualCache               *)
(* (tokencamp-core/src/cache/mod.rs, incr and expire), run by concurrent   *)
(* requests, on one gateway or on several that share a Redis.              *)
(*                                                                         *)
(* A request reads the clock once, then increments and checks the tpm      *)
(* counter and the rpm counter of its key and window.  With the Redis      *)
(* backend every command is an await of its own, may lose its answer, and  *)
(* the client may disconnect there; a counter lives CounterTtl ticks after *)
(* the last EXPIRE.  With the in-memory backend nothing fails, expire does *)
(* nothing and counters live as long as the process: a restart begins with *)
(* none.  Both counters count requests.                                    *)
(***************************************************************************)
EXTENDS Naturals, FiniteSets

CONSTANTS
  Requests,     \* runs of async_pre_call_hook
  Keys,         \* key_id
  Unlimited,    \* the None of Option<u32>
  Limit,        \* Limit[c][k]: auth.tpm_limit and auth.rpm_limit of key k
  Window,       \* current_minute_window: 60 s, in ticks
  CounterTtl,   \* the 90 s of cache.expire, in ticks
  MaxDelay,     \* bound: ticks from reading the clock to the last incr
  Horizon,      \* bound: the last tick explored
  MaxRestarts   \* bound: restarts of the gateway that counts in memory

Counters == {"tpm", "rpm"}

ASSUME LimitAssumption ==
  Limit \in [Counters -> [Keys -> Nat \union {Unlimited}]] /\ Unlimited \notin Nat

ASSUME TimeAssumption ==
  /\ Window \in Nat \ {0}
  /\ CounterTtl \in Nat
  /\ MaxDelay \in Nat
  /\ Horizon \in Nat
  /\ MaxRestarts \in Nat

\* The TTL covers a window and the slowest request that began in it: 60 s and
\* 30 s in the code, which itself puts no bound on a Redis command.
ASSUME DelayAssumption == Window + MaxDelay <= CounterTtl

ASSUME RequestsAssumption == IsFiniteSet(Requests)

Times == 0..Horizon
Never == Horizon + CounterTtl + 1   \* the expiry of a counter that has none

\* current_minute_window: seconds / 60 * 60.
WindowOf(t) == (t \div Window) * Window

\* A life is the time from a start of the gateway to the next; with Redis the counters
\* know no other.
Lives == 0..MaxRestarts

\* The cache keys key:{key_id}:tpm:{window} and key:{key_id}:rpm:{window}, in the store
\* of each life.
CounterKeys == Counters \X Keys \X Times \X Lives

VARIABLES
  redis,    \* is the backend Redis?
  now,
  life,     \* how many times the gateway that counts in memory has restarted
  pc,       \* where each request is
  key,      \* auth.key_id
  started,  \* when it read the clock
  born,     \* and in which life
  ticket,   \* current_tpm and current_rpm, 0 before the incr
  count,    \* the counters, 0 for an absent one
  expiry    \* when each counter disappears

vars == <<redis, now, life, pc, key, started, born, ticket, count, expiry>>

Undecided == {"incr_tpm", "expire_tpm", "incr_rpm", "expire_rpm"}
Decided == {"admitted", "limited", "error", "gone"}

AtIncr(c) == IF c = "tpm" THEN "incr_tpm" ELSE "incr_rpm"
AtExpire(c) == IF c = "tpm" THEN "expire_tpm" ELSE "expire_rpm"
Passed(c) == IF c = "tpm" THEN "incr_rpm" ELSE "admitted"

TypeOK ==
  /\ redis \in BOOLEAN
  /\ now \in Times
  /\ life \in Lives
  /\ born \in [Requests -> Lives]
  /\ pc \in [Requests -> {"new"} \union Undecided \union Decided]
  /\ key \in [Requests -> Keys]
  /\ started \in [Requests -> Times]
  /\ ticket \in [Counters -> [Requests -> Nat]]
  /\ count \in [CounterKeys -> Nat]
  /\ expiry \in [CounterKeys -> 0..Never]

Init ==
  /\ redis \in BOOLEAN
  /\ now = 0
  /\ life = 0
  /\ born = [r \in Requests |-> 0]
  /\ pc = [r \in Requests |-> "new"]
  /\ key \in [Requests -> Keys]
  /\ started = [r \in Requests |-> 0]
  /\ ticket = [c \in Counters |-> [r \in Requests |-> 0]]
  /\ count = [x \in CounterKeys |-> 0]
  /\ expiry = [x \in CounterKeys |-> Never]

WindowAt(r) == WindowOf(started[r])

CounterKey_OneWindow(c, r) == <<c, key[r], 0, born[r]>>

\* tpm_key and rpm_key of a request.
CounterKey(c, r) == <<c, key[r], WindowAt(r), born[r]>>
-----------------------------------------------------------------------------
\* The hook starts: let window = current_minute_window().
ReadClock(r) ==
  /\ pc[r] = "new"
  /\ pc' = [pc EXCEPT ![r] = AtIncr("tpm")]
  /\ started' = [started EXCEPT ![r] = now]
  /\ born' = [born EXCEPT ![r] = life]
  /\ UNCHANGED <<redis, now, life, key, ticket, count, expiry>>

Incr_ReturnsOldValue(r, c) ==
  LET x == CounterKey(c, r)
  IN  /\ pc[r] = AtIncr(c)
      /\ count' = [count EXCEPT ![x] = @ + 1]
      /\ ticket' = [ticket EXCEPT ![c][r] = count[x]]
      /\ pc' = [pc EXCEPT ![r] = AtExpire(c)]
      /\ UNCHANGED <<redis, now, life, key, started, born, expiry>>

\* cache.incr: the key holds one more, and the caller learns how many.
Incr(r, c) ==
  LET x == CounterKey(c, r)
  IN  /\ pc[r] = AtIncr(c)
      /\ count' = [count EXCEPT ![x] = @ + 1]
      /\ ticket' = [ticket EXCEPT ![c][r] = count[x] + 1]
      /\ pc' = [pc EXCEPT ![r] = AtExpire(c)]
      /\ UNCHANGED <<redis, now, life, key, started, born, expiry>>

\* INCR fails, before or after Redis counted it: HookError::Internal.
IncrFails(r, c) ==
  /\ redis
  /\ pc[r] = AtIncr(c)
  /\ \/ UNCHANGED count
     \/ count' = [count EXCEPT ![CounterKey(c, r)] = @ + 1]
  /\ pc' = [pc EXCEPT ![r] = "error"]
  /\ UNCHANGED <<redis, now, life, key, started, born, ticket, expiry>>

\* The comparison of the value INCR returned with the limit.
Exceeds(r, c) ==
  Limit[c][key[r]] # Unlimited /\ ticket[c][r] > Limit[c][key[r]]

ExpireAndCheck_OneWindow(r, c) ==
  LET x == CounterKey(c, r)
  IN  /\ pc[r] = AtExpire(c)
      /\ \/ UNCHANGED expiry
         \/ /\ redis
            /\ count[x] > 0
            /\ expiry' = [expiry EXCEPT ![x] = now + Window]
      /\ pc' = [pc EXCEPT ![r] = IF Exceeds(r, c) THEN "limited" ELSE Passed(c)]
      /\ UNCHANGED <<redis, now, life, key, started, born, ticket, count>>

\* cache.expire and the check that follows it.  In memory expire does nothing;
\* an EXPIRE that Redis did not get is ignored, one for an absent key does nothing.
ExpireAndCheck(r, c) ==
  LET x == CounterKey(c, r)
  IN  /\ pc[r] = AtExpire(c)
      /\ \/ UNCHANGED expiry
         \/ /\ redis
            /\ count[x] > 0
            /\ expiry' = [expiry EXCEPT ![x] = now + CounterTtl]
      /\ pc' = [pc EXCEPT ![r] = IF Exceeds(r, c) THEN "limited" ELSE Passed(c)]
      /\ UNCHANGED <<redis, now, life, key, started, born, ticket, count>>

Disconnect_GivesBack(r) ==
  /\ redis
  /\ pc[r] \in Undecided
  /\ pc' = [pc EXCEPT ![r] = "gone"]
  /\ count' = [count EXCEPT ![CounterKey("tpm", r)] = @ - 1]
  /\ UNCHANGED <<redis, now, life, key, started, born, ticket, expiry>>

\* The client disconnects while a Redis command is awaited.
Disconnect(r) ==
  /\ redis
  /\ pc[r] \in Undecided
  /\ pc' = [pc EXCEPT ![r] = "gone"]
  /\ UNCHANGED <<redis, now, life, key, started, born, ticket, count, expiry>>

\* Time passes, no request being slower than MaxDelay, and Redis drops the
\* counters whose time has come.
Tick ==
  /\ now < Horizon
  /\ \A r \in Requests : pc[r] \in Undecided => now + 1 <= started[r] + MaxDelay
  /\ now' = now + 1
  /\ count' = [x \in DOMAIN count |-> IF expiry[x] <= now + 1 THEN 0 ELSE count[x]]
  /\ expiry' = [x \in DOMAIN expiry |-> IF expiry[x] <= now + 1 THEN Never ELSE expiry[x]]
  /\ UNCHANGED <<redis, life, pc, key, started, born, ticket>>

\* A gateway that counts in memory stops and starts again: its counters and the
\* requests it was at work on are gone.
Restart ==
  /\ ~ redis
  /\ life < MaxRestarts
  /\ life' = life + 1
  /\ pc' = [r \in Requests |-> IF pc[r] \in Undecided THEN "gone" ELSE pc[r]]
  /\ UNCHANGED <<redis, now, key, started, born, ticket, count, expiry>>

Next ==
  \/ \E r \in Requests :
       \/ ReadClock(r)
       \/ \E c \in Counters : Incr(r, c) \/ IncrFails(r, c) \/ ExpireAndCheck(r, c)
       \/ Disconnect(r)
  \/ Tick
  \/ Restart

Spec == Init /\ [][Next]_vars
-----------------------------------------------------------------------------
Admitted(k, w, l) ==
  {r \in Requests : pc[r] = "admitted" /\ key[r] = k /\ WindowAt(r) = w /\ born[r] = l}

WithinLimit(c, k, n) == Limit[c][k] # Unlimited => n <= Limit[c][k]

\* In every window every key has at most tpm_limit and at most rpm_limit requests
\* admitted, however the increments, expirations, failures and disconnects of
\* concurrent requests interleave; counted in memory, as many in each life of the
\* gateway.
AdmittedWithinLimits ==
  \A c \in Counters, k \in Keys, w \in Times, l \in Lives :
    WithinLimit(c, k, Cardinality(Admitted(k, w, l)))

\* The check that refused a limited request: the rpm counter is not touched before the
\* tpm check is passed.
RefusedBy(r) == IF ticket["rpm"][r] = 0 THEN "tpm" ELSE "rpm"

\* Nobody is refused for requests of another window, key or life of the gateway: when a
\* request is told 429, the limit it broke is no more than the requests of its key,
\* itself among them, that have come to the limiter in its window, whatever failed in
\* between.  Whether the request that makes the limit full is still let through is left
\* open: the code admits it (current > limit refuses), docs/specs/
\* 2026-05-31-v0.3-production-mvp.md:221,224 refuses it (current >= limit).
LimitedOnlyWhenFull ==
  \A r \in Requests :
    pc[r] = "limited" =>
      LET limit == Limit[RefusedBy(r)][key[r]]
      IN  /\ limit # Unlimited
          /\ limit <= Cardinality({q \in Requests :
                /\ pc[q] # "new" /\ key[q] = key[r]
                /\ WindowAt(q) = WindowAt(r) /\ born[q] = born[r]})

\* The windows are aligned, so two of them can lend their limits to one stretch of
\* requests: within any Window ticks a key has no more than twice its limit admitted.
BurstsBounded ==
  \A c \in Counters, k \in Keys, l \in Lives, t \in Times :
    Limit[c][k] # Unlimited =>
      Cardinality({r \in Requests :
        /\ pc[r] = "admitted" /\ key[r] = k /\ born[r] = l
        /\ t <= started[r] /\ started[r] < t + Window}) <= 2 * Limit[c][k]

\* What the requests have been granted, for WindowQuota.
Grants ==
  {<<r, key[r], <<WindowAt(r), born[r]>>>> : r \in {q \in Requests : pc[q] = "admitted"}}

Quota(k, n) == \A c \in Counters : WithinLimit(c, k, n)

Promise == INSTANCE WindowQuota WITH Windows <- Times \X Lives, granted <- Grants

\* The limiter implements WindowQuota: its only visible step is to grant one
\* request within the quota of its key and window, and no grant is taken back; a
\* window that a restart divides counts as two.
ImplementsQuota == Promise!Spec
=============================================================================
