------------------------------- MODULE Dispatch --------------------------------
(***************************************************************************)
(* From the model a client asks for to the upstream call: resolve_provider *)
(* (gateway/src/main.rs), select_deployment and filter_cooldown of the     *)
(* Router, and the retry loop and circuit breaker of RetryWithCooldown,    *)
(* which chat_completions and anthropic_messages enter afterwards.  The    *)
(* handlers of embeddings, images and audio resolve a provider in the same *)
(* way, and then make a single call, past the loop and the breaker.        *)
(*                                                                         *)
(* The Router and the handlers share one CooldownManager and name          *)
(* deployments for it: the Router by the provider and model of an entry,   *)
(* the handlers by the word "resolved" and the model.                      *)
(***************************************************************************)
EXTENDS Router, FiniteSets

CONSTANTS
  Requests, NumRetries, RetryAfter, AllowedFails, CooldownTime,
  Configs,   \* configurations: strategy, model_list, fallbacks and providers
  Asks       \* what clients ask for: a model, the tags of extra._tags, and whether
             \* the handler is one that proxies

DeploymentId(prefix, model) == <<prefix, model>>
RouterId(e) == DeploymentId(e.provider, e.model_name)
HandlerId(model) == DeploymentId("resolved", model)

ListedEntries == UNION {{c.model_list[i] : i \in 1..Len(c.model_list)} : c \in Configs}

DeploymentIds ==
  {RouterId(e) : e \in ListedEntries} \union {HandlerId(a.model) : a \in Asks}

\* As RetryWithCooldown assumes.
ASSUME RequestsAssumption == IsFiniteSet(Requests)

ASSUME SettingsAssumption ==
  /\ NumRetries \in Nat
  /\ AllowedFails \in Nat
  /\ CooldownTime \in Nat
  /\ \A n \in 0..NumRetries : RetryAfter * 2^n \in Nat

\* No provider of the configuration is called "resolved".  Only the order of prices
\* matters, so a price is its rank.
ASSUME ConfigsAssumption ==
  /\ \A c \in Configs :
       /\ c.model_list \in Seq(ListedEntries)
       /\ \A model \in DOMAIN c.fallbacks : Len(c.fallbacks[model]) \in Nat
  /\ \A e \in ListedEntries : e.provider # "resolved" /\ e.prompt_price \in Nat

VARIABLES
  pc, deployment, attempt, lastErr, timer, failures, cooling, tripped,
  config,      \* Config, read once at start
  stage,       \* where each request is on its way to the retry loop
  asked,       \* what it asks for
  unchecked,   \* the candidates filter_cooldown has still to look at
  available,   \* those it kept
  entry        \* the entry the request goes to, 0 before

loopVars == <<pc, deployment, attempt, lastErr, timer, failures, cooling, tripped>>
routeVars == <<stage, asked, unchecked, available, entry>>
vars == <<loopVars, routeVars, config>>

Loop == INSTANCE RetryWithCooldown
          WITH Deployments <- DeploymentIds, NoDeployment <- DeploymentId("none", "none")

NoAsk == [model |-> "none", tags |-> {}, proxied |-> FALSE]

Positions == 1..Len(config.model_list)

TypeOK ==
  /\ Loop!TypeOK
  /\ config \in Configs
  /\ stage \in [Requests -> {"new", "filtering", "unchosen", "routed", "proxied",
                          "rejected", "over"}]
  /\ asked \in [Requests -> Asks \union {NoAsk}]
  /\ unchecked \in [Requests -> SUBSET Positions]
  /\ available \in [Requests -> SUBSET Positions]
  /\ entry \in [Requests -> Positions \union {0}]

Init ==
  /\ Loop!Init
  /\ config \in Configs
  /\ stage = [r \in Requests |-> "new"]
  /\ asked = [r \in Requests |-> NoAsk]
  /\ unchecked = [r \in Requests |-> {}]
  /\ available = [r \in Requests |-> {}]
  /\ entry = [r \in Requests |-> 0]

CandidatesOf(r) == Candidates(config.model_list, asked[r].model)

CoolingDown_HandlersId(i) == Loop!IsCoolingDown(HandlerId(config.model_list[i].model_name))

CoolingDown(i) == Loop!IsCoolingDown(RouterId(config.model_list[i]))
-----------------------------------------------------------------------------
Reject(r) ==
  /\ stage' = [stage EXCEPT ![r] = "rejected"]
  /\ UNCHANGED <<loopVars, entry>>

\* A provider that is configured, and that the gateway speaks to.
Supported(i) ==
  config.model_list[i].provider \in config.providers \intersect {"openai", "anthropic"}

\* The handler goes on: into the retry loop with deployment d, or to its own call.
Proceed(r, a, d) ==
  \/ /\ ~ a.proxied
     /\ stage' = [stage EXCEPT ![r] = "routed"]
     /\ Loop!Begin(r, d)
  \/ /\ a.proxied
     /\ stage' = [stage EXCEPT ![r] = "proxied"]
     /\ UNCHANGED loopVars

Route_RouterId(r, a, i) ==
  \/ /\ Supported(i)
     /\ entry' = [entry EXCEPT ![r] = i]
     /\ Proceed(r, a, RouterId(config.model_list[i]))
  \/ ~ Supported(i) /\ Reject(r)

Route_ByProvider(r, a, i) ==
  \/ /\ Supported(i)
     /\ entry' = [entry EXCEPT ![r] = i]
     /\ Proceed(r, a, HandlerId(config.model_list[i].provider))
  \/ ~ Supported(i) /\ Reject(r)

\* The end of resolve_provider.
Route(r, a, i) ==
  \/ /\ Supported(i)
     /\ entry' = [entry EXCEPT ![r] = i]
     /\ Proceed(r, a, HandlerId(a.model))
  \/ ~ Supported(i) /\ Reject(r)

\* The start of resolve_provider.  Only several candidates go through the Router.
Accept(r) ==
  /\ stage[r] = "new"
  /\ \E a \in Asks :
       LET candidates == Candidates(config.model_list, a.model)
       IN  /\ asked' = [asked EXCEPT ![r] = a]
           /\ \/ /\ candidates = {}
                 /\ Reject(r)
                 /\ UNCHANGED unchecked
              \/ \E i \in candidates :
                   /\ candidates = {i}
                   /\ Route(r, a, i)
                   /\ UNCHANGED unchecked
              \/ /\ \E i, j \in candidates : i # j
                 /\ stage' = [stage EXCEPT ![r] = "filtering"]
                 /\ unchecked' = [unchecked EXCEPT ![r] = candidates]
                 /\ UNCHANGED <<loopVars, entry>>
  /\ UNCHANGED <<config, available>>

Filter_Stuck(r) ==
  /\ stage[r] = "filtering"
  /\ \E i \in First(unchecked[r], LAMBDA j : TRUE) :
       available' = IF CoolingDown(i) THEN available
                    ELSE [available EXCEPT ![r] = @ \union {i}]
  /\ UNCHANGED <<loopVars, config, stage, asked, unchecked, entry>>

\* One round of filter_cooldown: one call of is_cooling_down.
Filter(r) ==
  /\ stage[r] = "filtering"
  /\ \E i \in First(unchecked[r], LAMBDA j : TRUE) :
       /\ unchecked' = [unchecked EXCEPT ![r] = @ \ {i}]
       /\ available' = IF CoolingDown(i) THEN available
                       ELSE [available EXCEPT ![r] = @ \union {i}]
  /\ UNCHANGED <<loopVars, config, stage, asked, entry>>

\* The strategy chooses among what is left.  simple_shuffle divides by the number
\* of entries: with none the handler's task panics, and goes no further.
Choose(r) ==
  LET list == config.model_list
      picks == Selected(config.strategy, list, available[r], asked[r].tags)
  IN  /\ stage[r] = "filtering"
      /\ unchecked[r] = {}
      /\ \/ \E pick \in picks : \E i \in Matching(list, available[r], pick) :
              Route(r, asked[r], i)
         \/ /\ picks = {}
            /\ config.strategy # "simple_shuffle"
            /\ stage' = [stage EXCEPT ![r] = "unchosen"]
            /\ UNCHANGED <<loopVars, entry>>
      /\ UNCHANGED <<config, asked, unchecked, available>>

\* The fallback models of the first available entry's model, which is the model
\* asked for; none at all when nothing is available.
FallbackModels(r) ==
  IF available[r] # {} /\ asked[r].model \in DOMAIN config.fallbacks
    THEN config.fallbacks[asked[r].model] ELSE <<>>

\* The entry a fallback model leads to, unless it cools down.  What
\* select_deployment searches is the list of candidates it was given.
FallbackEntries(r, model) ==
  {i \in First(CandidatesOf(r), LAMBDA j : config.model_list[j].model_name = model) :
     ~ CoolingDown(i)}

\* The first fallback model that leads somewhere, or NoAvailableDeployment, which
\* resolve_provider reports as ModelNotFound.  The models are asked about one after
\* the other, but no handler ever marks the ids asked about.
FallBack(r) ==
  LET models == FallbackModels(r)
      usable == First(1..Len(models), LAMBDA k : FallbackEntries(r, models[k]) # {})
  IN  /\ stage[r] = "unchosen"
      /\ \/ \E k \in usable : \E i \in FallbackEntries(r, models[k]) :
              Route(r, asked[r], i)
         \/ usable = {} /\ Reject(r)
      /\ UNCHANGED <<config, asked, unchecked, available>>

\* The one call of a handler that proxies: upstream's answer and any error go to the
\* client with status 200, or nothing does, if the client has gone.
Proxy(r) ==
  /\ stage[r] = "proxied"
  /\ stage' = [stage EXCEPT ![r] = "over"]
  /\ UNCHANGED <<loopVars, config, asked, unchecked, available, entry>>

Resolve(r) == Accept(r) \/ Filter(r) \/ Choose(r) \/ FallBack(r)

\* A request in the retry loop goes on, or time passes.
Serve ==
  /\ (\E r \in Requests : Loop!Serve(r)) \/ Loop!Tick
  /\ UNCHANGED <<routeVars, config>>

Next == (\E r \in Requests : Resolve(r) \/ Proxy(r)) \/ Serve

\* As in RetryWithCooldown.  Resolving a provider waits for nothing but the
\* CooldownManager's lock, and a proxied call is bounded by the 60 s of the same client.
\* (usage_based also reads two keys of the cache per entry: with Redis nothing bounds
\* these reads, and nothing here is said of it.)
Fairness ==
  /\ Loop!Fairness
  /\ \A r \in Requests : WF_vars(Filter(r) \/ Choose(r) \/ FallBack(r) \/ Proxy(r))

Spec == Init /\ [][Next]_vars /\ Fairness
-----------------------------------------------------------------------------
\* The Router never hands an empty list to its strategy: simple_shuffle would
\* panic on it.  What protects it is that the ids the handlers mark are never the
\* ids the Router asks about.
NeverChoosesFromNothing ==
  \A r \in Requests :
    stage[r] = "filtering" /\ unchecked[r] = {} => available[r] # {}

\* A request for which the strategy has a choice goes to an entry of its model, of the
\* provider the strategy would choose if nothing cooled down, whatever other requests
\* did in between (that the breaker has no say is the other side of
\* SkipsCoolingDeployments).  Nothing is said of a request the strategy has no choice
\* for: router/mod.rs:54, docs/adr/011-resilience-patterns.md:43-47 and
\* docs/specs/2026-05-31-v0.3-production-mvp.md:392-400 send it to another model, and the
\* code looks for that model among the entries of the first one only.
RoutedAsConfigured ==
  \A r \in Requests :
    LET list == config.model_list
        S == CandidatesOf(r)
        wanted == Selected(config.strategy, list, S, asked[r].tags)
    IN  stage[r] \in {"routed", "proxied"} /\ wanted # {} =>
          /\ entry[r] \in S
          /\ \E pick \in wanted : list[pick].provider = list[entry[r]].provider

\* A model is reported as not found only because of what the configuration says of
\* it: nobody serves it, the entry the strategy wants (or any that a fallback may
\* take) has a provider the gateway does not speak to, or the strategy looks for
\* tags no entry has and no fallback leads back to the model.  It never depends on
\* what other requests did, what failed or what cools down, and only tag_based ever
\* gets to the fallbacks.
RejectedByConfiguration ==
  \A r \in Requests :
    stage[r] = "rejected" =>
      LET list == config.model_list
          S == CandidatesOf(r)
          wanted == Selected(config.strategy, list, S, asked[r].tags)
          models == IF asked[r].model \in DOMAIN config.fallbacks
                      THEN config.fallbacks[asked[r].model] ELSE <<>>
      IN  \/ S = {}
          \/ \E i \in S :
               /\ ~ Supported(i)
               /\ wanted = {} \/ \E pick \in wanted : list[pick].provider = list[i].provider
          \/ /\ config.strategy = "tag_based" /\ wanted = {}
             /\ \A k \in 1..Len(models) : models[k] # asked[r].model

\* A request that was accepted is answered: rejected, proxied, or through the retry
\* loop.
EveryRequestAnswered ==
  \A r \in Requests :
    stage[r] # "new" ~> stage[r] \in {"rejected", "over"} \/ pc[r] \in Loop!Ended

\* An entry that cools down for failures of its own: the retry loop marked its model,
\* and allowed_fails requests or more were sent to this very entry and failed, each on a
\* 429, 5xx or timeout, while no request for the model succeeded or went elsewhere.
RestsForItsOwnFailures(i) ==
  LET id == HandlerId(config.model_list[i].model_name)
      judged == {q \in Requests :
                   deployment[q] = id /\ pc[q] \in {"served", "unparsed", "marking", "failed"}}
  IN  /\ Loop!IsCoolingDown(id)
      /\ \A q \in judged :
           entry[q] = i /\ pc[q] = "failed" /\ Loop!IsRetryable(lastErr[q])
      /\ Cardinality(judged) >= AllowedFails

\* docs/adr/011-resilience-patterns.md:50-52: a deployment that failed allowed_fails
\* times in a row cools down, and select_deployment skips it.
SkipsCoolingDeployments ==
  [][\A r \in Requests : \A i \in available'[r] \ available[r] :
       ~ RestsForItsOwnFailures(i)]_vars
================================================================================
