----------------------------- MODULE KeyAuth_proofs -----------------------------
(***************************************************************************)
(* Proofs about KeyAuth, for every number of gateways and requests and     *)
(* every setting of the times.  The bound on revocation is about gateways  *)
(* that share a Redis: without one it is false, and what holds instead is  *)
(* that the key is forgotten with the process that read it.                *)
(***************************************************************************)
EXTENDS KeyAuth, TLAPS

USE AuthAssumption, CacheAssumption

\* A gateway's backend entry is one of the entries there are.
LEMMA HomeTyped == \A g \in Gateways : Home(g) \in Homes
  BY DEF Home, Homes

\* Every variable has its type in every reachable state, with either backend.
THEOREM TypeCorrect == Spec => []TypeOK
<1>1. Init => TypeOK
  <2> SUFFICES ASSUME Init PROVE TypeOK
    OBVIOUS
  <2>1. redis \in BOOLEAN /\ issued \in BOOLEAN
    BY DEF Init, CacheInit
  <2>2. since \in 0..Horizon /\ age \in [Requests -> 0..MaxDelay]
    BY DEF Init
  <2>3. local \in [Gateways -> Nat] /\ backend \in [Homes -> Nat]
    BY DEF Init, CacheInit
  <2>4. /\ pc \in [Requests -> {"new"} \union InFlight \union Ended]
        /\ gateway \in [Requests -> Gateways \union {NoGateway}]
        /\ \A r \in Requests : pc[r] # "new" => gateway[r] \in Gateways
    BY DEF Init
  <2>5. row \in {"none", "active", "inactive"} /\ restarted \subseteq Gateways
    BY DEF Init
  <2> QED
    BY <2>1, <2>2, <2>3, <2>4, <2>5 DEF TypeOK, CacheTypeOK
<1>2. TypeOK /\ [Next]_vars => TypeOK'
  <2> SUFFICES ASSUME TypeOK, [Next]_vars
               PROVE  TypeOK'
    OBVIOUS
  <2> USE HomeTyped DEF TypeOK, CacheTypeOK, InFlight, Ended, Goto, cache, key, run
  <2>1. ASSUME NEW r \in Requests, NEW g \in Gateways, LookUp(r, g)
        PROVE  TypeOK'
    BY <2>1 DEF LookUp
  <2>2. ASSUME NEW r \in Requests, AskBackend(r) \/ ReadDb(r) \/ Disconnect(r)
        PROVE  TypeOK'
    BY <2>2 DEF AskBackend, ReadDb, Disconnect
  <2>3. ASSUME NEW r \in Requests, Fill(r)
        PROVE  TypeOK'
    BY <2>3 DEF Fill, FillLocal
  <2>4. ASSUME NEW r \in Requests, SetLocal(r)
        PROVE  TypeOK'
    BY <2>4 DEF SetLocal, PutLocal
  <2>5. ASSUME NEW r \in Requests, SetBackend(r)
        PROVE  TypeOK'
    BY <2>5 DEF SetBackend, PutBackend
  <2>6. ASSUME NEW g \in Gateways, DropFromLru(g)
        PROVE  TypeOK'
    BY <2>6 DEF DropFromLru, Evict
  <2>7. CASE Generate \/ Deactivate
    BY <2>7 DEF Generate, Deactivate
  <2>8. CASE Tick
    BY <2>8 DEF Tick, CacheElapse, Elapse
  <2>9. ASSUME NEW g \in Gateways, Restart(g)
        PROVE  TypeOK'
    BY <2>9 DEF Restart, Forget, Homes
  <2>10. CASE UNCHANGED vars
    BY <2>10 DEF vars
  <2> QED
    BY <2>1, <2>2, <2>3, <2>4, <2>5, <2>6, <2>7, <2>8, <2>9, <2>10 DEF Next
<1> QED
  BY <1>1, <1>2, PTL DEF Spec
-----------------------------------------------------------------------------
(***************************************************************************)
(* How late a stale row can still be somewhere, after the deactivation:    *)
(* a request that read the row before it holds it for its own age; what it *)
(* wrote to Redis lives Ttl from then; an answer of Redis is held for the  *)
(* age of the request that asked; what that wrote to an LRU lives Hydrate. *)
(***************************************************************************)
StaleInv ==
  /\ ~ Revoked => since = 0
  /\ redis =>
     /\ \A r \in Requests :
          /\ pc[r] \in {"put_local", "put_backend"} => since <= age[r]
          /\ pc[r] = "fill" => since <= Ttl + MaxDelay + age[r]
     /\ \A g \in Gateways : local[g] > 0 => since + local[g] <= AcceptedAtMost
     /\ \A h \in Homes :
          backend[h] > 0 => h = "redis" /\ since + backend[h] <= Ttl + MaxDelay

LEMMA StaleStep ==
  ASSUME TypeOK, StaleInv, [Next]_vars
  PROVE  StaleInv'
<1> SUFFICES ASSUME redis
             PROVE  StaleInv'
  BY DEF StaleInv, TypeOK, Revoked, Next, LookUp, AskBackend, Fill, ReadDb, SetLocal,
         SetBackend, Disconnect, DropFromLru, Restart, Generate, Deactivate, Tick,
         vars, key
<1> USE DEF TypeOK, CacheTypeOK, StaleInv, InFlight, Ended, Goto, cache, key, run,
            AcceptedAtMost, Revoked
<1>0. \A g \in Gateways : Home(g) = "redis"
  BY DEF Home
<1>1. ASSUME NEW r \in Requests, NEW g \in Gateways, LookUp(r, g)
      PROVE  StaleInv'
  BY <1>1 DEF LookUp
<1>2. ASSUME NEW r \in Requests, AskBackend(r)
      PROVE  StaleInv'
  <2>1. gateway[r] \in Gateways
    BY <1>2 DEF AskBackend
  <2>2. backend["redis"] \in Nat /\ age[r] \in Nat
    BY DEF Homes
  <2>3. HitBackend(gateway[r]) => since <= Ttl + MaxDelay
    BY <1>0, <2>1, <2>2 DEF HitBackend, Homes
  <2>4. /\ pc' = [pc EXCEPT ![r] = "db"] \/
           (HitBackend(gateway[r]) /\ pc' = [pc EXCEPT ![r] = "fill"])
        /\ UNCHANGED <<redis, cache, key, gateway, age>>
    BY <1>2 DEF AskBackend
  <2> HIDE DEF HitBackend
  <2> QED
    BY <2>2, <2>3, <2>4
<1>3. ASSUME NEW r \in Requests, Fill(r)
      PROVE  StaleInv'
  BY <1>3 DEF Fill, FillLocal
<1>4. ASSUME NEW r \in Requests, ReadDb(r)
      PROVE  StaleInv'
  BY <1>4 DEF ReadDb
<1>5. ASSUME NEW r \in Requests, SetLocal(r)
      PROVE  StaleInv'
  BY <1>5 DEF SetLocal, PutLocal
<1>6. ASSUME NEW r \in Requests, SetBackend(r)
      PROVE  StaleInv'
  <2>1. gateway[r] \in Gateways /\ since <= age[r]
    BY <1>6 DEF SetBackend
  <2>2. \/ backend' = backend
        \/ backend' = [backend EXCEPT !["redis"] = Ttl]
    BY <1>0, <1>6, <2>1 DEF SetBackend, PutBackend
  <2> QED
    BY <1>6, <2>1, <2>2 DEF SetBackend, Homes
<1>7. ASSUME NEW r \in Requests, Disconnect(r)
      PROVE  StaleInv'
  BY <1>7 DEF Disconnect
<1>8. ASSUME NEW g \in Gateways, DropFromLru(g)
      PROVE  StaleInv'
  BY <1>8 DEF DropFromLru, Evict
<1>9. CASE Generate \/ Deactivate
  BY <1>9 DEF Generate, Deactivate
<1>10. CASE Tick
  BY <1>10 DEF Tick, CacheElapse, Elapse, Homes
<1>11. ASSUME NEW g \in Gateways, Restart(g)
       PROVE  StaleInv'
  BY <1>11 DEF Restart, Forget
<1>12. CASE UNCHANGED vars
  BY <1>12 DEF vars
<1> QED
  BY <1>1, <1>2, <1>3, <1>4, <1>5, <1>6, <1>7, <1>8, <1>9, <1>10, <1>11, <1>12 DEF Next

LEMMA StaleBounded == Spec => [](TypeOK /\ StaleInv)
<1>1. Init => StaleInv
  BY DEF Init, CacheInit, StaleInv, Homes
<1>2. TypeOK /\ StaleInv /\ [Next]_vars => StaleInv'
  BY StaleStep
<1> QED
  BY <1>1, <1>2, TypeCorrect, PTL DEF Spec

\* With a shared Redis, a deactivated key is accepted nowhere once AcceptedAtMost
\* has passed.
THEOREM RevocationBounded == Spec => RevocationTakesEffect
<1>1. TypeOK /\ StaleInv /\ [Next]_vars
      => [\A r \in Requests :
            Accepts(r) /\ redis => ~ Revoked \/ since <= AcceptedAtMost]_vars
  <2> SUFFICES ASSUME TypeOK, StaleInv, Next, redis,
                      NEW r \in Requests, Accepts(r)
               PROVE  since <= AcceptedAtMost
    BY DEF vars
  <2> USE DEF TypeOK, CacheTypeOK, StaleInv, Accepts, Goto, AcceptedAtMost
  <2>1. \/ \E g \in Gateways : LookUp(r, g)
        \/ AskBackend(r)
        \/ Fill(r)
        \/ SetBackend(r)
    BY DEF Next, LookUp, AskBackend, Fill, ReadDb, SetLocal, SetBackend, Disconnect,
       Generate, Deactivate, DropFromLru, Evict, Restart, Tick, run
  <2>2. ASSUME NEW g \in Gateways, LookUp(r, g)
        PROVE  since <= AcceptedAtMost
    BY <2>2 DEF LookUp, HitLocal
  <2>3. ~ AskBackend(r)
    BY DEF AskBackend
  <2>4. CASE Fill(r)
    BY <2>4 DEF Fill
  <2>5. CASE SetBackend(r)
    BY <2>5 DEF SetBackend
  <2> QED
    BY <2>1, <2>2, <2>3, <2>4, <2>5
<1> QED
  BY <1>1, StaleBounded, PTL DEF Spec, RevocationTakesEffect

\* With a shared Redis, every cached copy of the row dies out in time.
THEOREM StaleEntriesDieOut == Spec => []EntriesDieOut
<1>1. TypeOK /\ StaleInv => EntriesDieOut
  BY DEF StaleInv, EntriesDieOut, HitLocal
<1> QED
  BY <1>1, StaleBounded, PTL
-----------------------------------------------------------------------------
(***************************************************************************)
(* Without Redis: on a gateway restarted after the deactivation there is   *)
(* no entry, and no request that could write one.                          *)
(***************************************************************************)
ForgottenInv ==
  /\ ~ Revoked => restarted = {}
  /\ \A r \in Requests : pc[r] = "fill" => redis
  /\ ~ redis =>
     /\ \A g \in restarted : local[g] = 0 /\ backend[g] = 0
     /\ \A r \in Requests :
          pc[r] \in {"put_local", "put_backend"} => gateway[r] \notin restarted

LEMMA ForgottenStep ==
  ASSUME TypeOK, ForgottenInv, [Next]_vars
  PROVE  ForgottenInv'
<1> USE DEF TypeOK, CacheTypeOK, ForgottenInv, InFlight, Ended, Goto, cache, key, run,
            Revoked, Homes
<1>0. ~ redis => \A g \in Gateways : Home(g) = g
  BY DEF Home
<1>1. ASSUME NEW r \in Requests, NEW g \in Gateways, LookUp(r, g)
      PROVE  ForgottenInv'
  BY <1>1 DEF LookUp
<1>2. ASSUME NEW r \in Requests, AskBackend(r) \/ Disconnect(r)
      PROVE  ForgottenInv'
  BY <1>2 DEF AskBackend, Disconnect
<1>3. ASSUME NEW r \in Requests, Fill(r)
      PROVE  ForgottenInv'
  BY <1>3 DEF Fill
<1>4. ASSUME NEW r \in Requests, ReadDb(r)
      PROVE  ForgottenInv'
  BY <1>4 DEF ReadDb
<1>5. ASSUME NEW r \in Requests, SetLocal(r)
      PROVE  ForgottenInv'
  BY <1>5 DEF SetLocal, PutLocal
<1>6. ASSUME NEW r \in Requests, SetBackend(r)
      PROVE  ForgottenInv'
  <2>1. ~ redis => backend' = [backend EXCEPT ![gateway[r]] = Ttl]
    BY <1>0, <1>6 DEF SetBackend, PutBackend
  <2>2. UNCHANGED <<redis, local, key, gateway, age>> /\ pc' = [pc EXCEPT ![r] = "accepted"]
    BY <1>6 DEF SetBackend
  <2>3. ~ redis => gateway[r] \notin restarted
    BY <1>6 DEF SetBackend
  <2> QED
    BY <2>1, <2>2, <2>3
<1>7. ASSUME NEW g \in Gateways, DropFromLru(g)
      PROVE  ForgottenInv'
  BY <1>7 DEF DropFromLru, Evict
<1>8. ASSUME NEW g \in Gateways, Restart(g)
      PROVE  ForgottenInv'
  BY <1>8 DEF Restart, Forget
<1>9. CASE Generate \/ Deactivate
  BY <1>9 DEF Generate, Deactivate
<1>10. CASE Tick
  BY <1>10 DEF Tick, CacheElapse, Elapse
<1>11. CASE UNCHANGED vars
  BY <1>11 DEF vars
<1> QED
  BY <1>1, <1>2, <1>3, <1>4, <1>5, <1>6, <1>7, <1>8, <1>9, <1>10, <1>11 DEF Next

LEMMA Forgotten == Spec => [](TypeOK /\ ForgottenInv)
<1>1. Init => ForgottenInv
  BY DEF Init, ForgottenInv
<1>2. TypeOK /\ ForgottenInv /\ [Next]_vars => ForgottenInv'
  BY ForgottenStep
<1> QED
  BY <1>1, <1>2, TypeCorrect, PTL DEF Spec

\* Without Redis, a deactivated key is accepted only by gateways that have been up
\* since before the deactivation.
THEOREM ForgottenOnRestart == Spec => RestartForgets
<1>1. TypeOK /\ ForgottenInv /\ [Next]_vars
      => [\A r \in Requests :
            Accepts(r) /\ ~ redis /\ Revoked => gateway'[r] \notin restarted]_vars
  <2> SUFFICES ASSUME TypeOK, ForgottenInv, Next, ~ redis, Revoked,
                      NEW r \in Requests, Accepts(r)
               PROVE  gateway'[r] \notin restarted
    BY DEF vars
  <2> USE DEF TypeOK, CacheTypeOK, ForgottenInv, Accepts, Goto
  <2>1. \/ \E g \in Gateways : LookUp(r, g)
        \/ AskBackend(r)
        \/ Fill(r)
        \/ SetBackend(r)
    BY DEF Next, LookUp, AskBackend, Fill, ReadDb, SetLocal, SetBackend, Disconnect,
       Generate, Deactivate, DropFromLru, Evict, Restart, Tick, run
  <2>2. ASSUME NEW g \in Gateways, LookUp(r, g)
        PROVE  gateway'[r] \notin restarted
    BY <2>2 DEF LookUp, HitLocal
  <2>3. CASE AskBackend(r)
    <3>1. HitBackend(gateway[r]) /\ gateway[r] \in Gateways /\ gateway' = gateway
      BY <2>3 DEF AskBackend
    <3>2. Home(gateway[r]) = gateway[r]
      BY DEF Home
    <3> QED
      BY <3>1, <3>2 DEF HitBackend, Homes
  <2>4. CASE Fill(r)
    BY <2>4 DEF Fill
  <2>5. CASE SetBackend(r)
    BY <2>5 DEF SetBackend
  <2> QED
    BY <2>1, <2>2, <2>3, <2>4, <2>5
<1> QED
  BY <1>1, Forgotten, PTL DEF Spec, RestartForgets
=============================================================================
