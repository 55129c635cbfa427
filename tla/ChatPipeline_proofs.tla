-------------------------- MODULE ChatPipeline_proofs --------------------------
(***************************************************************************)
(* What ChatPipeline keeps for any number of requests, gateways and asks,  *)
(* with Redis and without, and however often the gateways crash.           *)
(***************************************************************************)
EXTENDS ChatPipeline, TLAPS

\* A request has an answer, of its own or from the cache, exactly where the handler
\* has got one, and only those that are not streamed come to the cache.
Places ==
  \A r \in Requests :
    /\ pc[r] = "new" => ask[r] = NoAsk /\ gateway[r] = NoGateway
    /\ pc[r] \in {"lookup", "backend", "fill"} => ~ ask[r].stream
    /\ pc[r] \in {"new", "auth", "hooks", "lookup", "backend", "calling", "rejected", "failed"} =>
         answer[r] = Nobody
    /\ pc[r] = "fill" => answer[r] \notin {r, Nobody}
    /\ pc[r] \in Storing => Called(r) /\ ~ ask[r].stream

\* q may be in the cache under k.
Sound(q, k) == q # Nobody => Called(q) /\ ~ ask[q].stream /\ KeyOf(q) = k

CachesSound ==
  /\ \A g \in Gateways, k \in CacheKeys : Sound(local[g][k], k)
  /\ \A h \in Homes, k \in CacheKeys : Sound(backend[h][k], k)

\* An entry, or the task that writes it, is for an answer upstream gave to this very
\* request, not streamed, and sent.
ChargedWhenServed ==
  \A r \in Requests :
    /\ entries[r] + (IF r \in tasks THEN 1 ELSE 0) <= 1
    /\ entries[r] > 0 \/ r \in tasks => pc[r] = "served" /\ Called(r) /\ ~ ask[r].stream

CallsCharged ==
  ~ redis =>
    \A q \in Requests :
      Called(q) /\ ~ ask[q].stream /\ q \notin lost =>
        entries[q] = 1 \/ q \in tasks \/ pc[q] \in Storing

\* Gateway g may have q's answer in its memory, when there is no Redis.
Fresh(q, g) == q # Nobody => gateway[q] = g /\ q \notin lost

\* A crash leaves no handler, and without Redis no answer, behind.
CrashesForget ==
  /\ \A r \in lost : pc[r] \in Ended
  /\ ~ redis =>
       /\ \A r \in Requests : pc[r] # "fill"
       /\ \A g \in Gateways, k \in CacheKeys : Fresh(local[g][k], g)
       /\ \A g \in Gateways, k \in CacheKeys : Fresh(backend[g][k], g)
       /\ \A k \in CacheKeys : backend[Redis][k] = Nobody

IInv ==
  /\ TypeOK
  /\ Places
  /\ CachesSound
  /\ ServedUnderOwnKey
  /\ ChargedWhenServed
  /\ CallsCharged
  /\ CrashesForget

\* The cache key of a request that has arrived is one of CacheKeys.
LEMMA KeyOfArrived ==
  ASSUME TypeOK, NEW r \in Requests, pc[r] # "new"
  PROVE  KeyOf(r) \in CacheKeys /\ gateway[r] \in Gateways /\ Home(r) \in Homes
BY DEF TypeOK, KeyOf, KeyFor, CacheKeys, Home, Homes

\* Counting keeps the counters what they are.
LEMMA CountType ==
  ASSUME TypeOK, NEW r \in Requests, pc[r] # "new", NEW fields, Count(r, fields)
  PROVE  metrics' \in [Gateways -> [total : Nat, streaming : Nat]]
<1>1. gateway[r] \in Gateways /\ metrics \in [Gateways -> [total : Nat, streaming : Nat]]
  BY DEF TypeOK
<1>2. DOMAIN metrics[gateway[r]] = {"total", "streaming"}
  BY <1>1
<1> DEFINE c == metrics[gateway[r]]
           up == [f \in {"total", "streaming"} |-> IF f \in fields THEN c[f] + 1 ELSE c[f]]
<1>3. up \in [total : Nat, streaming : Nat]
  <2>1. c \in [total : Nat, streaming : Nat]
    BY <1>1
  <2>2. up = [total |-> IF "total" \in fields THEN c.total + 1 ELSE c.total,
              streaming |-> IF "streaming" \in fields THEN c.streaming + 1 ELSE c.streaming]
    OBVIOUS
  <2> QED
    BY <2>1, <2>2
<1>4. metrics' = [metrics EXCEPT ![gateway[r]] = up]
  BY <1>2 DEF Count
<1> QED
  BY <1>1, <1>3, <1>4

\* Every step keeps the types.
LEMMA TypeStep == TypeOK /\ [Next]_vars => TypeOK'
<1> SUFFICES ASSUME TypeOK, [Next]_vars PROVE TypeOK'
  OBVIOUS
<1> USE DEF TypeOK, From, To, caches
<1>1. ASSUME NEW r \in Requests, NEW g \in Gateways, NEW a \in Asks, Arrive(r, g, a)
      PROVE  TypeOK'
  BY <1>1 DEF Arrive, Asking
<1>2. ASSUME NEW r \in Requests, Authenticate(r) PROVE TypeOK'
  BY <1>2 DEF Authenticate, Asking, Ended
<1>3. ASSUME NEW r \in Requests, PreCallHooks(r) PROVE TypeOK'
  <2>1. metrics' \in [Gateways -> [total : Nat, streaming : Nat]]
    BY <1>3, CountType DEF PreCallHooks
  <2> QED
    BY <1>3, <2>1 DEF PreCallHooks, Asking, Ended
<1>4. ASSUME NEW r \in Requests, LookUp(r) PROVE TypeOK'
  <2>1. metrics' \in [Gateways -> [total : Nat, streaming : Nat]]
    BY <1>4, CountType DEF LookUp
  <2> QED
    BY <1>4, <2>1, KeyOfArrived DEF LookUp, Asking, Ended
<1>5. ASSUME NEW r \in Requests, AskBackend(r) PROVE TypeOK'
  <2> DEFINE found == backend[Home(r)][KeyOf(r)]
  <2>1. KeyOf(r) \in CacheKeys /\ Home(r) \in Homes
    BY <1>5, KeyOfArrived DEF AskBackend
  <2>2. found \in Requests \union {Nobody}
    BY <2>1
  <2>3. metrics' \in [Gateways -> [total : Nat, streaming : Nat]]
    BY <1>5, CountType DEF AskBackend
  <2>4. answer' \in [Requests -> Requests \union {Nobody}]
    BY <1>5, <2>2 DEF AskBackend
  <2>5. \E place \in {"fill", "served", "calling"} : To(r, place)
    BY <1>5 DEF AskBackend
  <2> QED
    BY <1>5, <2>3, <2>4, <2>5 DEF AskBackend, Asking, Ended
<1>6. ASSUME NEW r \in Requests, Fill(r) PROVE TypeOK'
  <2>1. metrics' \in [Gateways -> [total : Nat, streaming : Nat]]
    BY <1>6, CountType DEF Fill
  <2> QED
    BY <1>6, <2>1, KeyOfArrived DEF Fill, Ended
<1>7. ASSUME NEW r \in Requests, Call(r) PROVE TypeOK'
  <2>1. answer' \in [Requests -> Requests \union {Nobody}]
    BY <1>7 DEF Call
  <2>2. \E place \in {"served", "set_local", "failed"} : To(r, place)
    BY <1>7 DEF Call
  <2> QED
    BY <1>7, <2>1, <2>2 DEF Call, Storing, Ended
<1>8. ASSUME NEW r \in Requests, StoreLocal(r) PROVE TypeOK'
  BY <1>8, KeyOfArrived DEF StoreLocal, Storing
<1>9. ASSUME NEW r \in Requests, StoreBackend(r) PROVE TypeOK'
  <2>1. KeyOf(r) \in CacheKeys /\ Home(r) \in Homes
    BY <1>9, KeyOfArrived DEF StoreBackend
  <2>2. CASE UNCHANGED backend
    BY <1>9, <2>2 DEF StoreBackend, Storing
  <2>3. CASE backend' = [backend EXCEPT ![Home(r)][KeyOf(r)] = answer[r]]
    <3>1. answer[r] \in Requests \union {Nobody}
      OBVIOUS
    <3>2. backend' \in [Homes -> [CacheKeys -> Requests \union {Nobody}]]
      BY <2>1, <2>3, <3>1
    <3> QED
      BY <1>9, <3>2 DEF StoreBackend, Storing
  <2> QED
    BY <1>9, <2>2, <2>3 DEF StoreBackend, Storing
<1>10. ASSUME NEW r \in Requests, Reply(r) PROVE TypeOK'
  BY <1>10 DEF Reply, Ended
<1>11. ASSUME NEW r \in Requests, PostCallHooks(r) PROVE TypeOK'
  BY <1>11 DEF PostCallHooks
<1>12. ASSUME NEW r \in Requests, Disconnect(r) PROVE TypeOK'
  BY <1>12 DEF Disconnect, Ended
<1>13. ASSUME NEW g \in Gateways, NEW k \in CacheKeys, ForgetLocal(g, k) PROVE TypeOK'
  BY <1>13 DEF ForgetLocal
<1>14. ASSUME NEW k \in CacheKeys, ForgetBackend(k) PROVE TypeOK'
  BY <1>14 DEF ForgetBackend
<1>15. ASSUME NEW g \in Gateways, Restart(g) PROVE TypeOK'
  <2>1. local' \in [Gateways -> [CacheKeys -> Requests \union {Nobody}]]
    BY <1>15 DEF Restart, Empty
  <2>2. backend' \in [Homes -> [CacheKeys -> Requests \union {Nobody}]]
    BY <1>15 DEF Restart, Empty
  <2>3. metrics' \in [Gateways -> [total : Nat, streaming : Nat]]
    BY <1>15 DEF Restart, NoneCounted
  <2>4. entries' \in [Requests -> Nat] /\ tasks' \subseteq Requests /\ lost' \subseteq Requests
    BY <1>15 DEF Restart, On
  <2>5. pc' \in [Requests -> {"new"} \union Asking \union Storing \union Ended]
    BY <1>15 DEF Restart, Ended
  <2>6. \A r \in Requests : pc'[r] # "new" => pc[r] # "new"
    BY <1>15 DEF Restart, Asking, Storing
  <2> QED
    BY <1>15, <2>1, <2>2, <2>3, <2>4, <2>5, <2>6 DEF Restart
<1>16. CASE UNCHANGED vars
  BY <1>16 DEF vars
<1> QED
  BY <1>1, <1>2, <1>3, <1>4, <1>5, <1>6, <1>7, <1>8, <1>9, <1>10, <1>11, <1>12,
     <1>13, <1>14, <1>15, <1>16 DEF Next, Handle

\* What the caches have for a request that has no answer is the answer of another
\* one, with the same key.
LEMMA HitIsSound ==
  ASSUME IInv, NEW r \in Requests, pc[r] # "new", answer[r] = Nobody,
         NEW found \in {local[gateway[r]][KeyOf(r)], backend[Home(r)][KeyOf(r)]}, found # Nobody
  PROVE  /\ found \in Requests \ {r}
         /\ Called(found) /\ ~ ask[found].stream /\ KeyOf(found) = KeyOf(r)
<1>1. KeyOf(r) \in CacheKeys /\ gateway[r] \in Gateways /\ Home(r) \in Homes
  BY KeyOfArrived DEF IInv
<1>2. found \in Requests
  BY <1>1 DEF IInv, TypeOK
<1>3. Sound(found, KeyOf(r))
  BY <1>1 DEF IInv, CachesSound
<1> QED
  BY <1>2, <1>3, NamesAssumption DEF Sound, Called

\* A request that has an answer of its own keeps it, and what it asked for.
AnswersStay == \A q \in Requests : Called(q) => Called(q)' /\ ask'[q] = ask[q]

\* No step changes the answer an upstream call gave.
LEMMA AnswersKept == IInv /\ [Next]_vars => AnswersStay
<1> SUFFICES ASSUME IInv, [Next]_vars PROVE AnswersStay
  OBVIOUS
<1> USE DEF IInv, TypeOK, Places, Called, From, To, caches, AnswersStay
<1>1. ASSUME NEW r \in Requests, NEW g \in Gateways, NEW a \in Asks, Arrive(r, g, a)
      PROVE  AnswersStay
  BY <1>1, NamesAssumption DEF Arrive
<1>2. ASSUME NEW r \in Requests, Authenticate(r) PROVE AnswersStay
  BY <1>2, NamesAssumption DEF Authenticate
<1>3. ASSUME NEW r \in Requests, PreCallHooks(r) PROVE AnswersStay
  BY <1>3, NamesAssumption DEF PreCallHooks
<1>4. ASSUME NEW r \in Requests, LookUp(r) PROVE AnswersStay
  BY <1>4, NamesAssumption DEF LookUp
<1>5. ASSUME NEW r \in Requests, AskBackend(r) PROVE AnswersStay
  BY <1>5, NamesAssumption DEF AskBackend
<1>6. ASSUME NEW r \in Requests, Fill(r) PROVE AnswersStay
  BY <1>6, NamesAssumption DEF Fill
<1>7. ASSUME NEW r \in Requests, Call(r) PROVE AnswersStay
  BY <1>7, NamesAssumption DEF Call
<1>8. ASSUME NEW r \in Requests, StoreLocal(r) PROVE AnswersStay
  BY <1>8, NamesAssumption DEF StoreLocal
<1>9. ASSUME NEW r \in Requests, StoreBackend(r) PROVE AnswersStay
  BY <1>9, NamesAssumption DEF StoreBackend
<1>10. ASSUME NEW r \in Requests, Reply(r) PROVE AnswersStay
  BY <1>10, NamesAssumption DEF Reply
<1>11. ASSUME NEW r \in Requests, PostCallHooks(r) PROVE AnswersStay
  BY <1>11, NamesAssumption DEF PostCallHooks
<1>12. ASSUME NEW r \in Requests, Disconnect(r) PROVE AnswersStay
  BY <1>12, NamesAssumption DEF Disconnect
<1>13. ASSUME NEW g \in Gateways, NEW k \in CacheKeys, ForgetLocal(g, k)
      PROVE  AnswersStay
  BY <1>13, NamesAssumption DEF ForgetLocal
<1>14. ASSUME NEW k \in CacheKeys, ForgetBackend(k) PROVE AnswersStay
  BY <1>14, NamesAssumption DEF ForgetBackend
<1>15. ASSUME NEW g \in Gateways, Restart(g) PROVE AnswersStay
  BY <1>15 DEF Restart
<1>16. CASE UNCHANGED vars
  BY <1>16 DEF vars
<1> QED
  BY <1>1, <1>2, <1>3, <1>4, <1>5, <1>6, <1>7, <1>8, <1>9, <1>10, <1>11, <1>12,
     <1>13, <1>14, <1>15, <1>16 DEF Next, Handle

\* A handler has an answer, and the right kind of answer, wherever it is.
LEMMA PlacesStep == IInv /\ [Next]_vars => Places'
<1> SUFFICES ASSUME IInv, [Next]_vars PROVE Places'
  OBVIOUS
<1> USE DEF IInv, TypeOK, Places, Called, From, To, caches, Storing
<1>1. ASSUME NEW r \in Requests, NEW g \in Gateways, NEW a \in Asks, Arrive(r, g, a)
      PROVE  Places'
  BY <1>1, NamesAssumption DEF Arrive
<1>2. ASSUME NEW r \in Requests, Authenticate(r) PROVE Places'
  BY <1>2, NamesAssumption DEF Authenticate
<1>3. ASSUME NEW r \in Requests, PreCallHooks(r) PROVE Places'
  BY <1>3, NamesAssumption DEF PreCallHooks
<1>4. ASSUME NEW r \in Requests, LookUp(r) PROVE Places'
  BY <1>4, HitIsSound, NamesAssumption DEF LookUp
<1>5. ASSUME NEW r \in Requests, AskBackend(r) PROVE Places'
  BY <1>5, HitIsSound, NamesAssumption DEF AskBackend
<1>6. ASSUME NEW r \in Requests, Fill(r) PROVE Places'
  BY <1>6, NamesAssumption DEF Fill
<1>7. ASSUME NEW r \in Requests, Call(r) PROVE Places'
  BY <1>7, NamesAssumption DEF Call
<1>8. ASSUME NEW r \in Requests, StoreLocal(r) PROVE Places'
  BY <1>8, NamesAssumption DEF StoreLocal
<1>9. ASSUME NEW r \in Requests, StoreBackend(r) PROVE Places'
  BY <1>9, NamesAssumption DEF StoreBackend
<1>10. ASSUME NEW r \in Requests, Reply(r) PROVE Places'
  BY <1>10, NamesAssumption DEF Reply
<1>11. ASSUME NEW r \in Requests, PostCallHooks(r) PROVE Places'
  BY <1>11, NamesAssumption DEF PostCallHooks
<1>12. ASSUME NEW r \in Requests, Disconnect(r) PROVE Places'
  BY <1>12, NamesAssumption DEF Disconnect
<1>13. ASSUME NEW g \in Gateways, NEW k \in CacheKeys, ForgetLocal(g, k) PROVE Places'
  BY <1>13, NamesAssumption DEF ForgetLocal
<1>14. ASSUME NEW k \in CacheKeys, ForgetBackend(k) PROVE Places'
  BY <1>14, NamesAssumption DEF ForgetBackend
<1>15. ASSUME NEW g \in Gateways, Restart(g) PROVE Places'
  BY <1>15 DEF Restart, Asking
<1>16. CASE UNCHANGED vars
  BY <1>16 DEF vars
<1> QED
  BY <1>1, <1>2, <1>3, <1>4, <1>5, <1>6, <1>7, <1>8, <1>9, <1>10, <1>11, <1>12,
     <1>13, <1>14, <1>15, <1>16 DEF Next, Handle

\* What may be in the cache may stay there.
LEMMA SoundStays ==
  IInv /\ [Next]_vars =>
    \A q \in Requests \union {Nobody}, k \in CacheKeys : Sound(q, k) => Sound(q, k)'
BY AnswersKept DEF AnswersStay, Sound, Called, KeyOf

\* What a handler puts into the cache may be there.
LEMMA AnswerIsSound ==
  ASSUME IInv, NEW r \in Requests, pc[r] \in {"fill"} \union Storing
  PROVE  answer[r] \in Requests /\ KeyOf(r) \in CacheKeys /\ Sound(answer[r], KeyOf(r))
<1>1. KeyOf(r) \in CacheKeys /\ answer[r] \in Requests \union {Nobody}
  BY KeyOfArrived DEF IInv, TypeOK, Storing
<1>2. CASE pc[r] = "fill"
  BY <1>1, <1>2 DEF IInv, Places, ServedUnderOwnKey, Sound
<1>3. CASE pc[r] \in Storing
  BY <1>1, <1>3 DEF IInv, Places, Called, Sound
<1> QED
  BY <1>2, <1>3

\* The caches keep only what may be in them.
LEMMA CachesStep == IInv /\ [Next]_vars => CachesSound'
<1> SUFFICES ASSUME IInv, [Next]_vars PROVE CachesSound'
  OBVIOUS
<1>1. \A g \in Gateways, k \in CacheKeys :
        local'[g][k] \in Requests \union {Nobody} /\ Sound(local'[g][k], k)
  <2>1. \A g \in Gateways, k \in CacheKeys :
          local[g][k] \in Requests \union {Nobody} /\ Sound(local[g][k], k) /\ Sound(Nobody, k)
    BY DEF IInv, TypeOK, CachesSound, Sound
  <2>2. CASE UNCHANGED local
    BY <2>1, <2>2
  <2>3. ASSUME NEW r \in Requests, Fill(r) \/ StoreLocal(r)
        PROVE  \A g \in Gateways, k \in CacheKeys :
                 local'[g][k] \in Requests \union {Nobody} /\ Sound(local'[g][k], k)
    <3>1. answer[r] \in Requests /\ Sound(answer[r], KeyOf(r))
      BY <2>3, AnswerIsSound DEF Fill, StoreLocal, From, Storing
    <3>2. local' = [local EXCEPT ![gateway[r]][KeyOf(r)] = answer[r]]
      BY <2>3 DEF Fill, StoreLocal
    <3> QED
      BY <2>1, <3>1, <3>2 DEF IInv, TypeOK
  <2>4. ASSUME NEW h \in Gateways, NEW x \in CacheKeys, ForgetLocal(h, x)
        PROVE  \A g \in Gateways, k \in CacheKeys :
                 local'[g][k] \in Requests \union {Nobody} /\ Sound(local'[g][k], k)
    BY <2>1, <2>4 DEF ForgetLocal, IInv, TypeOK
  <2>5. ASSUME NEW h \in Gateways, Restart(h)
        PROVE  \A g \in Gateways, k \in CacheKeys :
                 local'[g][k] \in Requests \union {Nobody} /\ Sound(local'[g][k], k)
    BY <2>1, <2>5 DEF Restart, Empty, IInv, TypeOK
  <2> QED
    BY <2>2, <2>3, <2>4, <2>5
    DEF Next, Handle, vars, caches, Arrive, Authenticate, PreCallHooks, LookUp, AskBackend,
        Call, StoreBackend, Reply, PostCallHooks, Disconnect, ForgetBackend
<1>2. \A h \in Homes, k \in CacheKeys :
        backend'[h][k] \in Requests \union {Nobody} /\ Sound(backend'[h][k], k)
  <2>1. \A h \in Homes, k \in CacheKeys :
          backend[h][k] \in Requests \union {Nobody} /\ Sound(backend[h][k], k) /\ Sound(Nobody, k)
    BY DEF IInv, TypeOK, CachesSound, Sound
  <2>2. CASE UNCHANGED backend
    BY <2>1, <2>2
  <2>3. ASSUME NEW r \in Requests, StoreBackend(r), ~ UNCHANGED backend
        PROVE  \A h \in Homes, k \in CacheKeys :
                 backend'[h][k] \in Requests \union {Nobody} /\ Sound(backend'[h][k], k)
    <3>1. answer[r] \in Requests /\ Sound(answer[r], KeyOf(r))
      BY <2>3, AnswerIsSound DEF StoreBackend, From, Storing
    <3>2. backend' = [backend EXCEPT ![Home(r)][KeyOf(r)] = answer[r]]
      BY <2>3 DEF StoreBackend
    <3> QED
      BY <2>1, <3>1, <3>2 DEF IInv, TypeOK
  <2>4. ASSUME NEW x \in CacheKeys, ForgetBackend(x)
        PROVE  \A h \in Homes, k \in CacheKeys :
                 backend'[h][k] \in Requests \union {Nobody} /\ Sound(backend'[h][k], k)
    BY <2>1, <2>4 DEF ForgetBackend, IInv, TypeOK, Homes
  <2>5. ASSUME NEW x \in Gateways, Restart(x)
        PROVE  \A h \in Homes, k \in CacheKeys :
                 backend'[h][k] \in Requests \union {Nobody} /\ Sound(backend'[h][k], k)
    BY <2>1, <2>5 DEF Restart, Empty, IInv, TypeOK, Homes
  <2> QED
    BY <2>2, <2>3, <2>4, <2>5
    DEF Next, Handle, vars, caches, Arrive, Authenticate, PreCallHooks, LookUp, AskBackend,
        Fill, Call, StoreLocal, Reply, PostCallHooks, Disconnect, ForgetLocal
<1> QED
  BY <1>1, <1>2, SoundStays DEF CachesSound, Sound, Called

\* What a request got from the cache stays an answer to its own question.
LEMMA OwnKeyStep == IInv /\ [Next]_vars => ServedUnderOwnKey'
<1> SUFFICES ASSUME IInv, [Next]_vars, NEW r \in Requests,
                    NEW q, q = answer'[r], q \notin {r, Nobody}
             PROVE  Called(q)' /\ ~ ask'[q].stream /\ KeyOf(q)' = KeyOf(r)'
  BY DEF ServedUnderOwnKey
<1>1. q = answer'[r] /\ q \notin {r, Nobody}
  OBVIOUS
<1>2. /\ q \in Requests /\ Called(q) /\ ~ ask[q].stream
      /\ KeyOf(q) = KeyOf(r) /\ ask'[r] = ask[r]
  <2>1. CASE answer'[r] = answer[r]
    <3>1. pc[r] # "new"
      BY <2>1 DEF IInv, Places
    <3>2. ask'[r] = ask[r]
      BY <3>1
      DEF Next, Handle, vars, From, Arrive, Authenticate, PreCallHooks, LookUp, AskBackend, Fill,
          Call, StoreLocal, StoreBackend, Reply, PostCallHooks, Disconnect, ForgetLocal,
          ForgetBackend, Restart, IInv, TypeOK
    <3> QED
      BY <1>1, <2>1, <3>2 DEF IInv, TypeOK, ServedUnderOwnKey
  <2>2. ASSUME NEW p \in Requests, LookUp(p) \/ AskBackend(p) \/ Call(p), answer'[r] # answer[r]
        PROVE  /\ q \in Requests /\ Called(q) /\ ~ ask[q].stream
               /\ KeyOf(q) = KeyOf(r) /\ ask'[r] = ask[r]
    <3>1. p = r /\ pc[r] \in {"lookup", "backend", "calling"} /\ ask'[r] = ask[r]
      BY <2>2 DEF LookUp, AskBackend, Call, From, IInv, TypeOK
    <3>2. answer[r] = Nobody
      BY <3>1 DEF IInv, Places
    <3>3. q \in {local[gateway[r]][KeyOf(r)], backend[Home(r)][KeyOf(r)]}
      BY <1>1, <2>2, <3>1 DEF LookUp, AskBackend, Call, IInv, TypeOK
    <3> QED
      BY <1>1, <3>1, <3>2, <3>3, HitIsSound
  <2> QED
    BY <2>1, <2>2
    DEF Next, Handle, vars, caches, From, Arrive, Authenticate, PreCallHooks, Fill, StoreLocal,
        StoreBackend, Reply, PostCallHooks, Disconnect, ForgetLocal, ForgetBackend, Restart
<1>3. Called(q)' /\ ask'[q] = ask[q]
  BY <1>2, AnswersKept DEF AnswersStay
<1> QED
  BY <1>1, <1>2, <1>3 DEF Called, KeyOf

\* A charged request was served, and is not charged again.
LEMMA ChargedStep == IInv /\ [Next]_vars => ChargedWhenServed'
<1> SUFFICES ASSUME IInv, [Next]_vars PROVE ChargedWhenServed'
  OBVIOUS
<1> USE DEF IInv, TypeOK, Places, ChargedWhenServed, Called, From, To, caches, Storing
<1>1. ASSUME NEW r \in Requests, NEW g \in Gateways, NEW a \in Asks, Arrive(r, g, a)
      PROVE  ChargedWhenServed'
  BY <1>1, NamesAssumption DEF Arrive
<1>2. ASSUME NEW r \in Requests, Authenticate(r) PROVE ChargedWhenServed'
  BY <1>2, NamesAssumption DEF Authenticate
<1>3. ASSUME NEW r \in Requests, PreCallHooks(r) PROVE ChargedWhenServed'
  BY <1>3, NamesAssumption DEF PreCallHooks
<1>4. ASSUME NEW r \in Requests, LookUp(r) PROVE ChargedWhenServed'
  BY <1>4, NamesAssumption DEF LookUp
<1>5. ASSUME NEW r \in Requests, AskBackend(r) PROVE ChargedWhenServed'
  BY <1>5, NamesAssumption DEF AskBackend
<1>6. ASSUME NEW r \in Requests, Fill(r) PROVE ChargedWhenServed'
  BY <1>6, NamesAssumption DEF Fill
<1>7. ASSUME NEW r \in Requests, Call(r) PROVE ChargedWhenServed'
  BY <1>7, NamesAssumption DEF Call
<1>8. ASSUME NEW r \in Requests, StoreLocal(r) PROVE ChargedWhenServed'
  BY <1>8, NamesAssumption DEF StoreLocal
<1>9. ASSUME NEW r \in Requests, StoreBackend(r) PROVE ChargedWhenServed'
  BY <1>9, NamesAssumption DEF StoreBackend
<1>10. ASSUME NEW r \in Requests, Reply(r) PROVE ChargedWhenServed'
  BY <1>10, NamesAssumption DEF Reply
<1>11. ASSUME NEW r \in Requests, PostCallHooks(r) PROVE ChargedWhenServed'
  BY <1>11, NamesAssumption DEF PostCallHooks
<1>12. ASSUME NEW r \in Requests, Disconnect(r) PROVE ChargedWhenServed'
  BY <1>12, NamesAssumption DEF Disconnect
<1>13. ASSUME NEW g \in Gateways, NEW k \in CacheKeys, ForgetLocal(g, k)
      PROVE  ChargedWhenServed'
  BY <1>13, NamesAssumption DEF ForgetLocal
<1>14. ASSUME NEW k \in CacheKeys, ForgetBackend(k) PROVE ChargedWhenServed'
  BY <1>14, NamesAssumption DEF ForgetBackend
<1>15. ASSUME NEW g \in Gateways, Restart(g) PROVE ChargedWhenServed'
  <2>1. \A r \in Requests : entries'[r] \in {0, entries[r]} /\ (r \in tasks' => r \in tasks)
    BY <1>15 DEF Restart
  <2>2. \A r \in Requests : pc[r] = "served" => pc'[r] = "served"
    BY <1>15 DEF Restart, Asking
  <2> QED
    BY <1>15, <2>1, <2>2 DEF Restart
<1>16. CASE UNCHANGED vars
  BY <1>16 DEF vars
<1> QED
  BY <1>1, <1>2, <1>3, <1>4, <1>5, <1>6, <1>7, <1>8, <1>9, <1>10, <1>11, <1>12,
     <1>13, <1>14, <1>15, <1>16 DEF Next, Handle

\* Without Redis an answer is on its way to the spend queue until it is there.
LEMMA CallsStep == IInv /\ [Next]_vars => CallsCharged'
<1> SUFFICES ASSUME IInv, [Next]_vars PROVE CallsCharged'
  OBVIOUS
<1> USE DEF IInv, TypeOK, Places, ChargedWhenServed, CallsCharged, Called, From, To, caches, Storing
<1>1. ASSUME NEW r \in Requests, NEW g \in Gateways, NEW a \in Asks, Arrive(r, g, a)
      PROVE  CallsCharged'
  BY <1>1, NamesAssumption DEF Arrive
<1>2. ASSUME NEW r \in Requests, Authenticate(r) PROVE CallsCharged'
  BY <1>2, NamesAssumption DEF Authenticate
<1>3. ASSUME NEW r \in Requests, PreCallHooks(r) PROVE CallsCharged'
  BY <1>3, NamesAssumption DEF PreCallHooks
<1>4. ASSUME NEW r \in Requests, LookUp(r) PROVE CallsCharged'
  BY <1>4, HitIsSound, NamesAssumption DEF LookUp
<1>5. ASSUME NEW r \in Requests, AskBackend(r) PROVE CallsCharged'
  BY <1>5, HitIsSound, NamesAssumption DEF AskBackend
<1>6. ASSUME NEW r \in Requests, Fill(r) PROVE CallsCharged'
  BY <1>6, NamesAssumption DEF Fill
<1>7. ASSUME NEW r \in Requests, Call(r) PROVE CallsCharged'
  BY <1>7, NamesAssumption DEF Call
<1>8. ASSUME NEW r \in Requests, StoreLocal(r) PROVE CallsCharged'
  BY <1>8, NamesAssumption DEF StoreLocal
<1>9. ASSUME NEW r \in Requests, StoreBackend(r) PROVE CallsCharged'
  BY <1>9, NamesAssumption DEF StoreBackend
<1>10. ASSUME NEW r \in Requests, Reply(r) PROVE CallsCharged'
  BY <1>10, NamesAssumption DEF Reply
<1>11. ASSUME NEW r \in Requests, PostCallHooks(r) PROVE CallsCharged'
  BY <1>11, NamesAssumption DEF PostCallHooks
<1>12. ASSUME NEW r \in Requests, Disconnect(r) PROVE CallsCharged'
  BY <1>12, NamesAssumption DEF Disconnect
<1>13. ASSUME NEW g \in Gateways, NEW k \in CacheKeys, ForgetLocal(g, k)
      PROVE  CallsCharged'
  BY <1>13, NamesAssumption DEF ForgetLocal
<1>14. ASSUME NEW k \in CacheKeys, ForgetBackend(k) PROVE CallsCharged'
  BY <1>14, NamesAssumption DEF ForgetBackend
<1>15. ASSUME NEW g \in Gateways, Restart(g) PROVE CallsCharged'
  <2>1. \A q \in Requests : q \notin lost' =>
          entries'[q] = entries[q] /\ pc'[q] = pc[q] /\ (q \in tasks => q \in tasks')
    BY <1>15 DEF Restart
  <2> QED
    BY <1>15, <2>1 DEF Restart
<1>16. CASE UNCHANGED vars
  BY <1>16 DEF vars
<1> QED
  BY <1>1, <1>2, <1>3, <1>4, <1>5, <1>6, <1>7, <1>8, <1>9, <1>10, <1>11, <1>12,
     <1>13, <1>14, <1>15, <1>16 DEF Next, Handle

\* What only the arrival of a request, or a crash, changes.
LEMMA Frame ==
  ASSUME IInv, [Next]_vars
  PROVE  /\ redis' = redis
         /\ \A q \in Requests : pc[q] # "new" => gateway'[q] = gateway[q]
         /\ (\E g \in Gateways : Restart(g)) \/ UNCHANGED lost
<1>1. ASSUME NEW r \in Requests, Handle(r) PROVE UNCHANGED <<redis, gateway, lost>>
  BY <1>1
  DEF Handle, From, Authenticate, PreCallHooks, LookUp, AskBackend, Fill, Call, StoreLocal,
      StoreBackend, Reply
<1>2. ASSUME NEW r \in Requests, NEW g \in Gateways, NEW a \in Asks, Arrive(r, g, a)
      PROVE  /\ UNCHANGED <<redis, lost>>
             /\ \A q \in Requests : pc[q] # "new" => gateway'[q] = gateway[q]
  BY <1>2 DEF Arrive, IInv, TypeOK
<1>3. ASSUME NEW r \in Requests, PostCallHooks(r) \/ Disconnect(r)
      PROVE  UNCHANGED <<redis, gateway, lost>>
  BY <1>3 DEF PostCallHooks, Disconnect
<1>4. ASSUME NEW g \in Gateways, Restart(g) PROVE UNCHANGED <<redis, gateway>>
  BY <1>4 DEF Restart
<1>5. ASSUME NEW k \in CacheKeys, ForgetBackend(k) \/ \E g \in Gateways : ForgetLocal(g, k)
      PROVE  UNCHANGED <<redis, gateway, lost>>
  BY <1>5 DEF ForgetBackend, ForgetLocal
<1>6. CASE UNCHANGED vars
  BY <1>6 DEF vars
<1> QED
  BY <1>1, <1>2, <1>3, <1>4, <1>5, <1>6 DEF Next

\* Memory holds only what its gateway got since it started.
LEMMA CrashesStep == IInv /\ [Next]_vars => CrashesForget'
<1> SUFFICES ASSUME IInv, [Next]_vars PROVE CrashesForget'
  OBVIOUS
<1>1. \A r \in lost' : pc'[r] \in Ended
  <2>1. ASSUME NEW g \in Gateways, Restart(g) PROVE \A r \in lost' : pc'[r] \in Ended
    <3>1. \A r \in lost : pc[r] \in Ended /\ pc'[r] = pc[r]
      BY <2>1 DEF Restart, IInv, TypeOK, CrashesForget, Ended, Asking, Storing
    <3>2. \A r \in On(g) : pc[r] # "new"
      BY NamesAssumption DEF On, IInv, Places
    <3>3. \A r \in On(g) : pc'[r] \in Ended
      BY <2>1, <3>2 DEF Restart, On, IInv, TypeOK, Ended
    <3>4. lost' = lost \union On(g)
      BY <2>1 DEF Restart
    <3> QED
      BY <3>1, <3>3, <3>4
  <2>2. CASE UNCHANGED <<pc, lost>>
    BY <2>2 DEF IInv, CrashesForget
  <2>3. ASSUME NEW r \in Requests, pc[r] \notin Ended, UNCHANGED lost,
               NEW place, To(r, place)
        PROVE  \A q \in lost' : pc'[q] \in Ended
    BY <2>3 DEF To, IInv, TypeOK, CrashesForget
  <2>4. ASSUME NEW r \in Requests, Handle(r)
        PROVE  pc[r] \notin Ended /\ UNCHANGED lost /\ \E place : To(r, place)
    BY <2>4
    DEF Handle, From, Ended, Authenticate, PreCallHooks, LookUp, AskBackend, Fill, Call,
        StoreLocal, StoreBackend, Reply
  <2>5. ASSUME NEW r \in Requests, Disconnect(r) \/ \E g \in Gateways, a \in Asks : Arrive(r, g, a)
        PROVE  pc[r] \notin Ended /\ UNCHANGED lost /\ \E place : To(r, place)
    BY <2>5 DEF Disconnect, Arrive, Ended
  <2>6. ASSUME NEW r \in Requests, PostCallHooks(r) PROVE UNCHANGED <<pc, lost>>
    BY <2>6 DEF PostCallHooks
  <2>7. ASSUME NEW k \in CacheKeys, ForgetBackend(k) \/ \E g \in Gateways : ForgetLocal(g, k)
        PROVE  UNCHANGED <<pc, lost>>
    BY <2>7 DEF ForgetBackend, ForgetLocal
  <2> QED
    BY <2>1, <2>2, <2>3, <2>4, <2>5, <2>6, <2>7 DEF Next, vars
<1>2. ASSUME ~ redis' PROVE \A r \in Requests : pc'[r] # "fill"
  <2>1. ~ redis /\ \A r \in Requests : pc[r] # "fill"
    BY <1>2, Frame DEF IInv, CrashesForget
  <2>2. ASSUME NEW r \in Requests, Handle(r) PROVE \E place : place # "fill" /\ To(r, place)
    BY <2>1, <2>2
    DEF Handle, Authenticate, PreCallHooks, LookUp, AskBackend, Fill, Call, StoreLocal,
        StoreBackend, Reply
  <2>3. ASSUME NEW r \in Requests, Disconnect(r) \/ \E g \in Gateways, a \in Asks : Arrive(r, g, a)
        PROVE  \E place : place # "fill" /\ To(r, place)
    BY <2>3 DEF Disconnect, Arrive
  <2>4. ASSUME NEW g \in Gateways, Restart(g) PROVE \A r \in Requests : pc'[r] # "fill"
    BY <2>1, <2>4 DEF Restart
  <2>5. ASSUME NEW r \in Requests, NEW place, place # "fill", To(r, place)
        PROVE  \A q \in Requests : pc'[q] # "fill"
    BY <2>1, <2>5 DEF To, IInv, TypeOK
  <2>6. ASSUME NEW r \in Requests, PostCallHooks(r) PROVE UNCHANGED pc
    BY <2>6 DEF PostCallHooks
  <2>7. ASSUME NEW k \in CacheKeys, ForgetBackend(k) \/ \E g \in Gateways : ForgetLocal(g, k)
        PROVE  UNCHANGED pc
    BY <2>7 DEF ForgetBackend, ForgetLocal
  <2> QED
    BY <2>1, <2>2, <2>3, <2>4, <2>5, <2>6, <2>7 DEF Next, vars
<1>3. ASSUME ~ redis, NEW g \in Gateways, NEW q \in Requests \union {Nobody}, Fresh(q, g),
             q # Nobody => Called(q), ~ \E h \in Gateways : Restart(h)
      PROVE  Fresh(q, g)'
  <2>1. q # Nobody => gateway'[q] = gateway[q]
    BY <1>3, Frame, NamesAssumption DEF IInv, Places, Called
  <2>2. UNCHANGED lost
    BY <1>3, Frame
  <2> QED
    BY <1>3, <2>1, <2>2 DEF Fresh
<1>4. ASSUME NEW r \in Requests, StoreLocal(r) \/ StoreBackend(r)
      PROVE  /\ answer[r] = r /\ r # Nobody /\ gateway[r] \in Gateways /\ KeyOf(r) \in CacheKeys
             /\ Fresh(r, gateway[r])
  BY <1>4, KeyOfArrived, NamesAssumption
  DEF StoreLocal, StoreBackend, From, IInv, Places, Called, Storing, Ended, CrashesForget, Fresh
<1>5. ASSUME ~ redis'
      PROVE  \A g \in Gateways, k \in CacheKeys : Fresh(local[g][k], g)' /\ Fresh(backend[g][k], g)'
  <2> SUFFICES ASSUME NEW g \in Gateways, NEW k \in CacheKeys
               PROVE  Fresh(local[g][k], g)' /\ Fresh(backend[g][k], g)'
    OBVIOUS
  <2>1. ~ redis
    BY <1>5, Frame
  <2>2. /\ Fresh(local[g][k], g) /\ Fresh(backend[g][k], g)
        /\ local[g][k] \in Requests \union {Nobody} /\ backend[g][k] \in Requests \union {Nobody}
        /\ local[g][k] # Nobody => Called(local[g][k])
        /\ backend[g][k] # Nobody => Called(backend[g][k])
    BY <2>1 DEF IInv, TypeOK, CrashesForget, CachesSound, Sound, Homes
  <2>3. ASSUME NEW h \in Gateways, Restart(h) PROVE Fresh(local[g][k], g)' /\ Fresh(backend[g][k], g)'
    <3>1. CASE g = h
      BY <2>3, <3>1 DEF Restart, Empty, Fresh, IInv, TypeOK, Homes
    <3>2. CASE g # h
      BY <2>2, <2>3, <3>2 DEF Restart, On, Fresh, IInv, TypeOK, Homes
    <3> QED
      BY <3>1, <3>2
  <2>4. ASSUME ~ \E h \in Gateways : Restart(h)
        PROVE  local'[g][k] \in {local[g][k], Nobody} \union {r \in Requests : r = answer[r] /\ Fresh(r, g)}
    <3>1. ASSUME NEW r \in Requests, StoreLocal(r)
          PROVE  local'[g][k] \in {local[g][k]} \union {q \in Requests : q = answer[q] /\ Fresh(q, g)}
      <4>1. local' = [local EXCEPT ![gateway[r]][KeyOf(r)] = r]
        BY <1>4, <3>1 DEF StoreLocal
      <4> QED
        BY <1>4, <3>1, <4>1 DEF IInv, TypeOK
    <3>2. ASSUME NEW h \in Gateways, NEW x \in CacheKeys, ForgetLocal(h, x)
          PROVE  local'[g][k] \in {local[g][k], Nobody}
      BY <3>2 DEF ForgetLocal, IInv, TypeOK
    <3>3. \A r \in Requests : ~ Fill(r)
      BY <2>1 DEF Fill, From, IInv, CrashesForget
    <3>4. CASE UNCHANGED local
      BY <3>4
    <3> QED
      BY <2>4, <3>1, <3>2, <3>3, <3>4
      DEF Next, Handle, vars, caches, Arrive, Authenticate, PreCallHooks, LookUp, AskBackend, Call,
          StoreBackend, Reply, PostCallHooks, Disconnect, ForgetBackend
  <2>5. ASSUME ~ \E h \in Gateways : Restart(h)
        PROVE  backend'[g][k] \in {backend[g][k], Nobody} \union {r \in Requests : r = answer[r] /\ Fresh(r, g)}
    <3>1. ASSUME NEW r \in Requests, StoreBackend(r)
          PROVE  backend'[g][k] \in {backend[g][k]} \union {q \in Requests : q = answer[q] /\ Fresh(q, g)}
      <4>1. backend' = [backend EXCEPT ![gateway[r]][KeyOf(r)] = r]
        BY <1>4, <2>1, <3>1 DEF StoreBackend, Home
      <4> QED
        BY <1>4, <3>1, <4>1 DEF IInv, TypeOK, Homes
    <3>2. ASSUME NEW x \in CacheKeys, ForgetBackend(x)
          PROVE  backend'[g][k] \in {backend[g][k], Nobody}
      BY <3>2 DEF ForgetBackend, IInv, TypeOK, Homes
    <3>3. CASE UNCHANGED backend
      BY <3>3
    <3> QED
      BY <2>5, <3>1, <3>2, <3>3
      DEF Next, Handle, vars, caches, Arrive, Authenticate, PreCallHooks, LookUp, AskBackend, Fill,
          Call, StoreLocal, Reply, PostCallHooks, Disconnect, ForgetLocal
  <2>6. CASE ~ \E h \in Gateways : Restart(h)
    <3>1. /\ Fresh(local'[g][k], g) /\ local'[g][k] \in Requests \union {Nobody}
          /\ local'[g][k] # Nobody => Called(local'[g][k])
      BY <2>2, <2>4, <2>6 DEF Called, Fresh
    <3>2. /\ Fresh(backend'[g][k], g) /\ backend'[g][k] \in Requests \union {Nobody}
          /\ backend'[g][k] # Nobody => Called(backend'[g][k])
      BY <2>2, <2>5, <2>6 DEF Called, Fresh
    <3>3. \A q \in Requests \union {Nobody} :
            Fresh(q, g) /\ (q # Nobody => Called(q)) =>
              (q # Nobody => gateway'[q] = g /\ q \notin lost')
      BY <1>3, <2>1, <2>6 DEF Fresh
    <3> QED
      BY <3>1, <3>2, <3>3 DEF Fresh
  <2> QED
    BY <2>3, <2>6
<1>6. ASSUME ~ redis' PROVE \A k \in CacheKeys : backend'[Redis][k] = Nobody
  <2>1. ~ redis /\ \A k \in CacheKeys : backend[Redis][k] = Nobody
    BY <1>6, Frame DEF IInv, CrashesForget
  <2>2. ASSUME NEW r \in Requests, StoreBackend(r)
        PROVE  \A k \in CacheKeys : backend'[Redis][k] = backend[Redis][k]
    BY <1>4, <2>1, <2>2, NamesAssumption DEF StoreBackend, Home, IInv, TypeOK, Homes
  <2>3. ASSUME NEW h \in Gateways, Restart(h)
        PROVE  \A k \in CacheKeys : backend'[Redis][k] = backend[Redis][k]
    BY <2>3, NamesAssumption DEF Restart, IInv, TypeOK, Homes
  <2>4. CASE UNCHANGED backend
    BY <2>1, <2>4
  <2> QED
    BY <2>1, <2>2, <2>3, <2>4
    DEF Next, Handle, vars, caches, Arrive, Authenticate, PreCallHooks, LookUp, AskBackend, Fill,
        Call, StoreLocal, Reply, PostCallHooks, Disconnect, ForgetLocal, ForgetBackend
<1> QED
  BY <1>1, <1>2, <1>5, <1>6 DEF CrashesForget

\* The invariant holds in every reachable state.
LEMMA Invariance == Spec => []IInv
<1>1. Init => IInv
  BY NamesAssumption
  DEF Init, IInv, TypeOK, Places, CachesSound, Sound, ServedUnderOwnKey, ChargedWhenServed,
      CallsCharged, CrashesForget, Fresh, Empty, NoneCounted, Homes, Called, Storing
<1>2. IInv /\ [Next]_vars => IInv'
  BY TypeStep, PlacesStep, CachesStep, OwnKeyStep, ChargedStep, CallsStep, CrashesStep DEF IInv
<1> QED
  BY <1>1, <1>2, PTL DEF Spec

\* The pipeline's variables keep their types.
THEOREM TypeCorrect == Spec => []TypeOK
BY Invariance, PTL DEF IInv

\* A client is sent what upstream answered to its own request, or to an unstreamed
\* one with the same cache key.
THEOREM OwnAnswersOnly == Spec => []ServedUnderOwnKey
BY Invariance, PTL DEF IInv

\* Nobody pays twice, and nobody pays for an answer that came from the cache, was
\* streamed, failed, or was never sent.
THEOREM NobodyPaysTwice == Spec => []ChargedAtMostOnce
<1>1. IInv => ChargedAtMostOnce
  BY DEF IInv, ChargedWhenServed, ChargedAtMostOnce, Called
<1> QED
  BY <1>1, Invariance, PTL

\* Without Redis no answer is used unpaid: a crash loses spend entries only together
\* with the cached answers they are for.
THEOREM NothingForFree == Spec => []AnswersAreCharged
<1>1. IInv => AnswersAreCharged
  <2> SUFFICES ASSUME IInv, ~ redis, NEW q \in Requests,
                      (Called(q) /\ ~ ask[q].stream /\ q \notin lost) \/ Cached(q)
               PROVE  entries[q] = 1 \/ q \in tasks \/ pc[q] \in Storing
    BY DEF AnswersAreCharged
  <2>1. Called(q) /\ ~ ask[q].stream
    BY NamesAssumption DEF IInv, CachesSound, Sound, Cached
  <2>2. q \notin lost
    BY NamesAssumption DEF IInv, CrashesForget, Fresh, Cached, Homes
  <2> QED
    BY <2>1, <2>2 DEF IInv, CallsCharged
<1> QED
  BY <1>1, Invariance, PTL

\* Every step is a step of SharedAnswers, or one that does not show there.
LEMMA PromiseStep == IInv /\ [Next]_vars => [Promise!Next]_<<ask, answer>>
<1> SUFFICES ASSUME IInv, [Next]_vars PROVE [Promise!Next]_<<ask, answer>>
  OBVIOUS
<1>1. ASSUME NEW r \in Requests, NEW g \in Gateways, NEW a \in Asks, Arrive(r, g, a)
      PROVE  Promise!Ask(r, a)
  BY <1>1 DEF Arrive, Promise!Ask, IInv, Places
<1>2. ASSUME NEW r \in Requests, LookUp(r) \/ AskBackend(r), ~ UNCHANGED answer
      PROVE  \E q \in Requests : Promise!Share(r, q)
  <2>1. pc[r] \in {"lookup", "backend"} /\ UNCHANGED ask
    BY <1>2 DEF LookUp, AskBackend, From
  <2>2. Promise!Waits(r) /\ ~ ask[r].stream
    BY <2>1, NamesAssumption DEF IInv, TypeOK, Places, Promise!Waits
  <2>3. PICK q \in {local[gateway[r]][KeyOf(r)], backend[Home(r)][KeyOf(r)]} :
          q # Nobody /\ answer' = [answer EXCEPT ![r] = q]
    BY <1>2, <2>2 DEF LookUp, AskBackend, IInv, TypeOK, Promise!Waits
  <2>4. q \in Requests /\ answer[q] = q /\ ~ ask[q].stream /\ KeyOf(q) = KeyOf(r)
    BY <2>1, <2>2, <2>3, HitIsSound DEF Promise!Waits, Called
  <2> QED
    BY <2>1, <2>2, <2>3, <2>4 DEF Promise!Share, KeyOf
<1>3. ASSUME NEW r \in Requests, Call(r), ~ UNCHANGED answer
      PROVE  Promise!Answer(r)
  BY <1>3, NamesAssumption DEF Call, From, IInv, TypeOK, Places, Promise!Answer, Promise!Waits
<1>4. CASE UNCHANGED <<ask, answer>>
  BY <1>4
<1> QED
  BY <1>1, <1>2, <1>3, <1>4
  DEF Next, Handle, vars, From, Promise!Next, Authenticate, PreCallHooks, LookUp, AskBackend, Fill,
      Call, StoreLocal, StoreBackend, Reply, PostCallHooks, Disconnect, ForgetLocal, ForgetBackend,
      Restart

\* The handler with its caches, disconnects and crashes implements SharedAnswers.
THEOREM Implementation == Spec => ImplementsSharedAnswers
<1>1. Init => Promise!Init
  BY DEF Init, Promise!Init
<1> QED
  BY <1>1, PromiseStep, Invariance, PTL DEF Spec, Promise!Spec, ImplementsSharedAnswers

================================================================================
