----------------------------- MODULE ChatPipeline ------------------------------
(***************************************************************************)
(* chat_completions (gateway/src/routes/chat.rs) from the request to the   *)
(* answer, with the response cache (gateway/src/cache.rs), the spend entry *)
(* CostTracker writes (tokencamp-core/src/hooks/cost_tracker.rs) and the   *)
(* counters the handler keeps (gateway/src/metrics.rs).                    *)
(*                                                                         *)
(* What authenticate, the rate limiter, the Router and the retry loop do   *)
(* is in KeyAuth, RateLimiter and Dispatch: here each is one step with     *)
(* every outcome it can have.  An answer is named by the request whose     *)
(* upstream call produced it.                                              *)
(*                                                                         *)
(* The handler is a future: where it awaits Redis, PostgreSQL or upstream  *)
(* the server drops it when the client disconnects.  The post-call hooks   *)
(* run in a task of their own, which only the end of the process drops.  A *)
(* gateway may crash and start again: what it kept in memory is empty then.*)
(***************************************************************************)
EXTENDS Integers, FiniteSets, Sequences, SequencesExt

CONSTANTS
  Requests,   \* runs of chat_completions
  Gateways,   \* the gateways, one DualCache each
  Asks,       \* ChatRequests
  Nobody      \* no request

NoGateway == "none"
Redis == "redis"

NoAsk == [model |-> "none", messages |-> <<>>, options |-> <<>>, stream |-> FALSE]

ASSUME NamesAssumption ==
  Nobody \notin Requests /\ {NoGateway, Redis} \cap Gateways = {} /\ NoAsk \notin Asks

ASSUME RequestsAssumption == IsFiniteSet(Requests)

\* A ChatRequest is a record of its model, messages, options (temperature and
\* max_tokens, those that are there) and stream.  Texts are sequences of words.
Words(message) == <<message.role>> \o message.content

\* What cache_key hashes: every text it is made of, one after the other, with
\* nothing in between.
CacheKey(ask) ==
  <<ask.model>> \o FlattenSeq([i \in DOMAIN ask.messages |-> Words(ask.messages[i])])
    \o ask.options

KeyFor == [ask \in Asks |-> CacheKey(ask)]
CacheKeys == {KeyFor[ask] : ask \in Asks}

VARIABLES
  redis,      \* is redis.url configured?
  pc,         \* where each run of chat_completions is
  gateway,    \* the gateway it runs on
  ask,        \* what it asks for
  answer,     \* the answer it has, Nobody before
  local,      \* the answers in the LRU of each gateway
  backend,    \* the answers in Redis, or in the HashMap of each gateway
  tasks,      \* post-call hooks spawned and not yet run
  entries,    \* spend:queue: the number of entries for each request
  metrics,    \* requests_total and requests_streaming of each gateway
  lost        \* the requests that came to a gateway before it last crashed

caches == <<local, backend>>
vars == <<redis, pc, gateway, ask, answer, caches, tasks, entries, metrics, lost>>

Homes == Gateways \union {Redis}

\* Where the backend entries of r's gateway are.
Home(r) == IF redis THEN Redis ELSE gateway[r]

\* Before upstream answered, and after.
Asking == {"auth", "hooks", "lookup", "backend", "fill", "calling"}
Storing == {"set_local", "set_backend", "stored"}
Ended == {"served", "rejected", "failed", "gone"}

TypeOK ==
  /\ redis \in BOOLEAN
  /\ pc \in [Requests -> {"new"} \union Asking \union Storing \union Ended]
  /\ gateway \in [Requests -> Gateways \union {NoGateway}]
  /\ ask \in [Requests -> Asks \union {NoAsk}]
  /\ \A r \in Requests : pc[r] # "new" => gateway[r] \in Gateways /\ ask[r] \in Asks
  /\ answer \in [Requests -> Requests \union {Nobody}]
  /\ local \in [Gateways -> [CacheKeys -> Requests \union {Nobody}]]
  /\ backend \in [Homes -> [CacheKeys -> Requests \union {Nobody}]]
  /\ tasks \subseteq Requests
  /\ entries \in [Requests -> Nat]
  /\ metrics \in [Gateways -> [total : Nat, streaming : Nat]]
  /\ lost \subseteq Requests

Empty == [k \in CacheKeys |-> Nobody]
NoneCounted == [total |-> 0, streaming |-> 0]

Init ==
  /\ redis \in BOOLEAN
  /\ pc = [r \in Requests |-> "new"]
  /\ gateway = [r \in Requests |-> NoGateway]
  /\ ask = [r \in Requests |-> NoAsk]
  /\ answer = [r \in Requests |-> Nobody]
  /\ local = [g \in Gateways |-> Empty]
  /\ backend = [h \in Homes |-> Empty]
  /\ tasks = {}
  /\ entries = [r \in Requests |-> 0]
  /\ metrics = [g \in Gateways |-> NoneCounted]
  /\ lost = {}

KeyOf(r) == KeyFor[ask[r]]

\* A step of r's handler from one place to another.
From(r, place) == pc[r] = place /\ UNCHANGED <<redis, gateway, ask, entries, lost>>
To(r, place) == pc' = [pc EXCEPT ![r] = place]

\* The counters of r's gateway go up.
Count(r, fields) ==
  metrics' = [metrics EXCEPT ![gateway[r]] =
                [f \in DOMAIN @ |-> IF f \in fields THEN @[f] + 1 ELSE @[f]]]
-----------------------------------------------------------------------------
Arrive(r, g, a) ==
  /\ pc[r] = "new"
  /\ To(r, "auth")
  /\ gateway' = [gateway EXCEPT ![r] = g]
  /\ ask' = [ask EXCEPT ![r] = a]
  /\ UNCHANGED <<redis, answer, caches, tasks, entries, metrics, lost>>

Authenticate(r) ==
  /\ From(r, "auth")
  /\ To(r, "hooks") \/ To(r, "rejected")
  /\ UNCHANGED <<answer, caches, tasks, metrics>>

PreCallHooks_CountsStreamsApart(r) ==
  /\ From(r, "hooks")
  /\ \/ /\ To(r, IF ask[r].stream THEN "calling" ELSE "lookup")
        /\ Count(r, IF ask[r].stream THEN {"streaming"} ELSE {"total"})
     \/ /\ To(r, "rejected")
        /\ UNCHANGED metrics
  /\ UNCHANGED <<answer, caches, tasks>>

PreCallHooks_LooksUpStreams(r) ==
  /\ From(r, "hooks")
  /\ \/ /\ To(r, "lookup")
        /\ Count(r, IF ask[r].stream THEN {"total", "streaming"} ELSE {"total"})
     \/ /\ To(r, "rejected")
        /\ UNCHANGED metrics
  /\ UNCHANGED <<answer, caches, tasks>>

\* The pre-call hooks, and the counters of the requests they let through.  Streamed
\* answers are not looked up in the cache.
PreCallHooks(r) ==
  /\ From(r, "hooks")
  /\ \/ /\ To(r, IF ask[r].stream THEN "calling" ELSE "lookup")
        /\ Count(r, IF ask[r].stream THEN {"total", "streaming"} ELSE {"total"})
     \/ /\ To(r, "rejected")
        /\ UNCHANGED metrics
  /\ UNCHANGED <<answer, caches, tasks>>

\* rc.get: the LRU.  A hit is the answer: no hook hears of it, and the request is
\* counted a second time.
LookUp(r) ==
  LET found == local[gateway[r]][KeyOf(r)]
  IN  /\ From(r, "lookup")
      /\ answer' = [answer EXCEPT ![r] = found]
      /\ \/ found = Nobody /\ To(r, "backend") /\ UNCHANGED metrics
         \/ found # Nobody /\ To(r, "served") /\ Count(r, {"total"})
      /\ UNCHANGED <<caches, tasks>>

\* rc.get: the backend.  A failed GET counts as a miss.
AskBackend(r) ==
  LET found == backend[Home(r)][KeyOf(r)]
  IN  /\ From(r, "backend")
      /\ \/ /\ found # Nobody
            /\ answer' = [answer EXCEPT ![r] = found]
            /\ \/ redis /\ To(r, "fill") /\ UNCHANGED metrics
               \/ ~ redis /\ To(r, "served") /\ Count(r, {"total"})
         \/ /\ found = Nobody \/ redis
            /\ To(r, "calling")
            /\ UNCHANGED <<answer, metrics>>
      /\ UNCHANGED <<caches, tasks>>

\* rc.get: what Redis answered goes into the LRU, and the hit is counted.
Fill(r) ==
  /\ From(r, "fill")
  /\ local' = [local EXCEPT ![gateway[r]][KeyOf(r)] = answer[r]]
  /\ To(r, "served")
  /\ Count(r, {"total"})
  /\ UNCHANGED <<answer, backend, tasks>>

Call_StoresStreams(r) ==
  /\ From(r, "calling")
  /\ \/ /\ answer' = [answer EXCEPT ![r] = r]
        /\ To(r, "set_local")
     \/ /\ UNCHANGED answer
        /\ To(r, "failed")
  /\ UNCHANGED <<caches, tasks, metrics>>

\* resolve_provider, and the call with its retries.  A stream is returned as it
\* is, before it has begun: it is neither cached nor given to a hook.
Call(r) ==
  /\ From(r, "calling")
  /\ \/ /\ answer' = [answer EXCEPT ![r] = r]
        /\ To(r, IF ask[r].stream THEN "served" ELSE "set_local")
     \/ /\ UNCHANGED answer
        /\ To(r, "failed")
  /\ UNCHANGED <<caches, tasks, metrics>>

StoreLocal_SpawnsFirst(r) ==
  /\ From(r, "set_local")
  /\ local' = [local EXCEPT ![gateway[r]][KeyOf(r)] = answer[r]]
  /\ To(r, "set_backend")
  /\ tasks' = tasks \union {r}
  /\ UNCHANGED <<answer, backend, metrics>>

\* rc.set: the LRU.
StoreLocal(r) ==
  /\ From(r, "set_local")
  /\ local' = [local EXCEPT ![gateway[r]][KeyOf(r)] = answer[r]]
  /\ To(r, "set_backend")
  /\ UNCHANGED <<answer, backend, tasks, metrics>>

\* rc.set: the backend.  A failed SETEX is ignored.
StoreBackend(r) ==
  /\ From(r, "set_backend")
  /\ \/ backend' = [backend EXCEPT ![Home(r)][KeyOf(r)] = answer[r]]
     \/ redis /\ UNCHANGED backend
  /\ To(r, "stored")
  /\ UNCHANGED <<answer, local, tasks, metrics>>

\* tokio::spawn of the post-call hooks, and the answer.
Reply(r) ==
  /\ From(r, "stored")
  /\ tasks' = tasks \union {r}
  /\ To(r, "served")
  /\ UNCHANGED <<answer, caches, metrics>>

\* CostTracker::async_post_call_hook; a failed RPUSH is ignored.
PostCallHooks(r) ==
  /\ r \in tasks
  /\ tasks' = tasks \ {r}
  /\ \/ entries' = [entries EXCEPT ![r] = @ + 1]
     \/ redis /\ UNCHANGED entries
  /\ UNCHANGED <<redis, pc, gateway, ask, answer, caches, metrics, lost>>

Disconnect_Anywhere(r) ==
  /\ pc[r] \in Asking \union Storing
  /\ To(r, "gone")
  /\ UNCHANGED <<redis, gateway, ask, answer, caches, tasks, entries, metrics, lost>>

Disconnect_Refunds(r) ==
  /\ pc[r] \in {"auth", "calling", "stored"}
  /\ To(r, "gone")
  /\ entries' = [entries EXCEPT ![r] = @ - 1]
  /\ UNCHANGED <<redis, gateway, ask, answer, caches, tasks, metrics, lost>>

\* The client disconnects where the handler is suspended: a task that is not
\* waiting runs on to its next await, and DualCache awaits nothing but Redis.
Disconnect(r) ==
  /\ \/ pc[r] \in {"auth", "calling"}
     \/ redis /\ pc[r] \in {"hooks", "backend", "fill", "set_backend", "stored"}
  /\ To(r, "gone")
  /\ UNCHANGED <<redis, gateway, ask, answer, caches, tasks, entries, metrics, lost>>

\* An LRU entry expires, or makes room for another one.
ForgetLocal(g, k) ==
  /\ local[g][k] # Nobody
  /\ local' = [local EXCEPT ![g][k] = Nobody]
  /\ UNCHANGED <<redis, pc, gateway, ask, answer, backend, tasks, entries, metrics, lost>>

\* A Redis key expires.  The entries of a HashMap do not.
ForgetBackend(k) ==
  /\ backend[Redis][k] # Nobody
  /\ backend' = [backend EXCEPT ![Redis][k] = Nobody]
  /\ UNCHANGED <<redis, pc, gateway, ask, answer, local, tasks, entries, metrics, lost>>

On(g) == {r \in Requests : gateway[r] = g}

\* The process ends and starts again: main builds an empty DualCache and new Metrics.
\* The handlers and the spawned hooks are gone with it; what is in Redis stays.
Restart(g) ==
  /\ pc' = [r \in Requests |->
              IF r \in On(g) /\ pc[r] \in Asking \union Storing THEN "gone" ELSE pc[r]]
  /\ tasks' = tasks \ On(g)
  /\ local' = [local EXCEPT ![g] = Empty]
  /\ backend' = [backend EXCEPT ![g] = Empty]
  /\ entries' = [r \in Requests |-> IF r \in On(g) /\ ~ redis THEN 0 ELSE entries[r]]
  /\ metrics' = [metrics EXCEPT ![g] = NoneCounted]
  /\ lost' = lost \union On(g)
  /\ UNCHANGED <<redis, gateway, ask, answer>>

\* What the handler does by itself.
Handle(r) ==
  \/ Authenticate(r) \/ PreCallHooks(r)
  \/ LookUp(r) \/ AskBackend(r) \/ Fill(r)
  \/ Call(r)
  \/ StoreLocal(r) \/ StoreBackend(r) \/ Reply(r)

Next ==
  \/ \E r \in Requests :
       \/ \E g \in Gateways, a \in Asks : Arrive(r, g, a)
       \/ Handle(r)
       \/ PostCallHooks(r)
       \/ Disconnect(r)
  \/ \E g \in Gateways : Restart(g)
  \/ \E k \in CacheKeys : ForgetBackend(k) \/ \E g \in Gateways : ForgetLocal(g, k)

Spec == Init /\ [][Next]_vars
-----------------------------------------------------------------------------
\* The request got its answer from an upstream call of its own.
Called(r) == answer[r] = r

\* An answer that is given to a client comes from an upstream call that succeeded,
\* for a request that was not streamed and has the same cache key, whoever of the
\* two clients is still there: no interleaving of rc.get, rc.set, their two cache
\* layers and disconnects hands out anything else.
ServedUnderOwnKey ==
  \A r \in Requests :
    answer[r] \notin {r, Nobody} =>
      /\ Called(answer[r])
      /\ ~ ask[answer[r]].stream
      /\ KeyOf(answer[r]) = KeyOf(r)

\* The detached hooks, the cache and the client who may leave at any await never make a
\* request be paid for twice, nor paid for when the cache answered it.  Whether streams
\* and failed calls get an entry is left open: in the code they do not, while
\* docs/adr/014-streaming.md:71 and the comment at chat.rs:66 want one when a stream has
\* ended, and async_on_error_hook (cost_tracker.rs:63), which nothing calls, one for an
\* error.
ChargedAtMostOnce ==
  \A r \in Requests :
    /\ entries[r] + (IF r \in tasks THEN 1 ELSE 0) <= 1
    /\ entries[r] > 0 \/ r \in tasks => answer[r] \in {r, Nobody}

Cached(q) ==
  \/ \E g \in Gateways, k \in CacheKeys : local[g][k] = q
  \/ \E h \in Homes, k \in CacheKeys : backend[h][k] = q

\* Without Redis, an answer the cache hands out, and every answer upstream gave to a
\* request that is not streamed, has its entry in the spend queue, or will get it,
\* until the gateway crashes: between rc.set and tokio::spawn the handler cannot be
\* dropped.  A crash takes the entries, but it takes the cached answers with them.
AnswersAreCharged ==
  ~ redis =>
    \A q \in Requests :
      (Called(q) /\ ~ ask[q].stream /\ q \notin lost) \/ Cached(q) =>
        entries[q] = 1 \/ q \in tasks \/ pc[q] \in Storing

Among(requests, places) == {r \in requests : pc[r] \in places}
Counted == {"lookup", "backend", "fill", "calling", "served", "failed"} \union Storing

\* Between two starts of a gateway its counters miss no request that passed the
\* pre-call hooks, whatever became of it, and count no other one twice than those the
\* cache answered.  docs/adr/016-observability.md:23 and the HELP text at metrics.rs:25
\* call requests_total the number of requests: the code counts a cached answer a second
\* time (chat.rs:41) and a rejected request never, and both are left open here.
CountersAddUp ==
  \A g \in Gateways :
    LET here == On(g) \ lost
        streams == {r \in here : ask[r].stream}
        hits == {r \in Among(here, {"served"}) : ~ Called(r)}
    IN  /\ metrics[g].total
             \in Cardinality(Among(here, Counted))..(Cardinality(here) + Cardinality(hits))
        /\ metrics[g].streaming
             \in Cardinality(Among(streams, Counted))..Cardinality(streams)

\* What clients may be told: their own answer, or one that upstream gave to somebody
\* who asked for the same key, and no other answer afterwards.  Caches, disconnects
\* and crashes do not show.
Promise == INSTANCE SharedAnswers
ImplementsSharedAnswers == Promise!Spec

\* gateway/src/cache.rs:4, "Response cache for identical LLM prompts": a cached
\* answer is given only to a request for the same model with the same messages.
IdenticalPromptsOnly ==
  \A r \in Requests :
    answer[r] \notin {r, Nobody} =>
      /\ ask[answer[r]].model = ask[r].model
      /\ ask[answer[r]].messages = ask[r].messages
================================================================================
