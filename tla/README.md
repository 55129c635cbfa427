# TLA+ models of tokencamp

tokencamp is an LLM gateway in Rust: it takes OpenAI- and Anthropic-style requests,
authenticates them, limits their rate, picks a configured deployment of the model, calls the
provider with retries behind a circuit breaker, and answers, streaming or not. It is two crates,
`src/gateway` (axum server) and `src/tokencamp-core` (cache, handler, hooks, strategies, provider
adapters, streaming), and a command line client.

This directory holds TLA+ modules for the parts whose correctness depends on interleavings,
time or failures, TLC configurations that check them on small instances, and theorems about
them proved with TLAPS. `PROJECT.json` lists the runs, the lines of code each definition
stands for, and the hazards each property is about.

## 1. Inventory

| component | state | operations | interacts with |
|---|---|---|---|
| retry loop (`routes/chat.rs` `retry_with_cooldown`, `routes/messages.rs`) | attempt, last error, a sleep, per request | call, back off, give up | handler, CooldownManager |
| circuit breaker (`router/cooldown.rs`) | failure counters and expiries, one mutex | `record_failure`, `record_success`, `mark`, `is_cooling_down` | retry loop, Router |
| routing (`main.rs` `resolve_provider`, `router/mod.rs`, `router_strategy/`) | configuration; statistics nobody updates | filter, choose, fall back | CooldownManager |
| rate limiter (`hooks/parallel_request_limiter.rs`) | counters in DualCache | two `incr`/`expire`/check rounds per request | DualCache, Redis |
| DualCache (`cache/mod.rs`) | LRU per gateway, Redis or a HashMap behind it | `get`, `set`, `incr`, `expire`, `del` | Redis |
| key authentication (`routes/chat.rs` `authenticate`) | the key's row, cached | look up, read PostgreSQL, fill | DualCache, PostgreSQL |
| keys (`admin/keys.rs`, `db/mod.rs`) | rows of `api_keys` | generate, deactivate, list | PostgreSQL |
| SSE stream (`streaming.rs`) | buffer, chunks so far | `poll_next` | reqwest byte stream, response task |
| chat pipeline (`chat_completions`) | one request | hooks, metrics, response cache, call, post hooks | all of the above |
| response cache (`gateway/src/cache.rs`) | answers by request hash | get, set | DualCache |
| spend queue (`hooks/cost_tracker.rs`) | a list in Redis, or in memory | post-call push | DualCache |
| metrics (`metrics.rs`) | counters of one process | increment, export | pipeline |
| embeddings, images, audio (`routes/embeddings.rs`, `routes/media.rs`) | none | resolve a provider, one call | routing, handler |
| handler (`handler.rs`) | a reqwest client, 60 s timeout | `complete`, `complete_raw`, `complete_stream_owned` | adapters, provider |
| adapters (`provider/`) | none | transform requests, responses, chunks | handler |
| configuration, health checker, secrets, error mapping, CLI | see `PROJECT.json` | | |

What is hard about it:

- **Concurrency.** Every request is a tokio task. The tasks share the CooldownManager (each call
  takes the mutex once, but a failure is two calls), the DualCache (its two layers are never
  touched under one lock) and Redis (every command is a suspension point, and several gateways
  share it).
- **Cancellation.** axum drops the future of a client that disconnects, at any await: between
  `incr` and `expire`, during a backoff sleep, between the two layers of a cache write.
- **Time.** Backoff, cooldown, 60 s windows whose counters live 90 s, rows cached 300 s in one
  layer and 60 s in the other, and no expiry at all in the in-memory backend.
- **Failure.** A Redis command may fail before or after it took effect; an upstream call may be
  refused, time out or break in the middle of a stream.
- **Restarts.** Without Redis everything a gateway knows is in its process: cached rows and answers,
  rate counters, spend entries, metrics, the breaker. A crash takes all of them at once, or leaves
  Redis with the half of a request's work that was done.
- **Polling.** A `Stream` that returns `Pending` must leave somebody to wake it.
- **Bytes.** The end of an SSE event is looked for in a decoded copy of the buffer and cut out of the
  buffer itself; where bytes do not decode, the two have different lengths.
- **Names.** Two parts that share a map must agree on its keys.

The properties that make each part correct are in section 3; `PROJECT.json` "hazards" has every
hazard with its line, and a note where no property covers it yet.

## 2. Modules

| module | models | composed with |
|---|---|---|
| `RetryWithCooldown` | retry loop of both handlers, in-memory CooldownManager | `Dispatch` and `UpstreamCall` instantiate it |
| `Breaker` | abstract: what a circuit breaker does to a deployment | `RetryWithCooldown` implements it, and so do `UpstreamCall` and `Dispatch` |
| `UpstreamCall` | one call: `HttpHandler` and what the adapters make of a response | `RetryWithCooldown`, which it implements |
| `WindowQuota` | abstract: grants, and a quota per key and window | `RateLimiter` implements it |
| `RateLimiter` | `async_pre_call_hook` over `incr`/`expire` of DualCache, both backends, restarts | |
| `DualCache` | one key of the cache on every gateway, as operators | `KeyAuth` extends it |
| `KeyAuth` | `authenticate` for a PostgreSQL key, its creation, deactivation, restarts | |
| `SseStream` | `StreamWrapper`, the upstream body and the response task | |
| `Router` | strategies and selection, as operators on `model_list` | `Dispatch` extends it |
| `Dispatch` | `resolve_provider`, `select_deployment`, `filter_cooldown`, then the loop, or the single call of the embeddings, image and audio handlers | `Router`, `RetryWithCooldown` |
| `SharedAnswers` | abstract: whose answer a client may be given | `ChatPipeline` implements it |
| `ChatPipeline` | `chat_completions` from request to answer, response cache, spend entry, counters, crashes | takes the others by their outcomes |
| `MC*` | instances of these for TLC | |
| `*_proofs` | theorems about these, for TLAPS | |

### How state and actions correspond to the code

**RetryWithCooldown.** A request is a run of the handler from its first upstream call. `pc`
names the suspension points and the calls on the mutex: `calling` (await of the handler),
`sleeping` (backoff), `failing` (before `record_failure`), `marking` (between its result and
`mark`). `failures` and `cooling` are the two maps of `CooldownState`; an expiry `Instant` is kept
as the time left, and an absent entry is 0. Errors are kept up to what `is_retryable` tells apart.
`Disconnect` is allowed where the future is suspended and nowhere else: with the in-memory
backend, the mutex calls never yield, so a handler that has recorded a failure goes on to mark.
The jitter of `retry_delay` only lengthens the sleep; `Wake` may be late anyway.
`tripped` is a history variable.
For `Breaker`, a request has been judged once its failure or success is recorded, `streak` is the
failure counter, `due` the marks between `record_failure` and `mark`, and `resting` the time left of a
cooldown. The Redis backend of CooldownManager is left out: `main` builds
the in-memory one whatever the configuration says (main.rs:142).

**UpstreamCall.** `RetryWithCooldown` sees a call as one step with any outcome. Here it has the
awaits of `handler.rs`: `Send` (transform_request, which can only fail on an API key that fits in no
header, then `send`), `Respond` (status and headers), `Read` (the body), and `Lose` (connection lost, or
the client's 60 s over) at each of them. `TransformResponse`, `RawResponse` and `Streams` say what
each method and adapter makes of a response: a status, and a body that is an answer, other JSON, or no
JSON. `refused` counts the calls of a request that upstream answered with 429 or 5xx. Whether such a call, or
one that was lost, was carried out all the same is not known to the gateway, and not modelled. A stream's
body is `SseStream`; the Messages mode of the anthropic adapter is never built (main.rs:92).

**RateLimiter.** A request reads the clock once (`ReadClock`), and then for `tpm` and for `rpm`
increments, sets the expiry and compares. The four awaits are four places of `pc`. `ticket` is the
value `INCR` returned. Both counters count requests, the `tpm` one too. `redis`, chosen in `Init`,
is the backend: with Redis `IncrFails` is a lost command or a lost answer, `ExpireAndCheck` ignores a
lost `EXPIRE`, as the code does, clients may disconnect, and `Tick` drops the counters whose time has
come. In memory none of that happens, and `Restart` begins a new `life` with no counters; the life is
part of a counter's key, and `born` is the life a request runs in. One gateway counts in memory here:
several without Redis share nothing.

**DualCache, KeyAuth.** An entry is the time left until it expires, in each gateway's LRU
(`local`) and behind it (`backend`: one shared Redis, or a HashMap per gateway which time does not
touch; `redis` is chosen in `Init`). `get` and `set` are split where the code releases one layer before
it touches the other. The value is always the active row, since `find_key_by_hash` returns no other and
`None` is not cached. `Generate` is `generate_key`: the row may be there although the administrator never
learned the key (`issued`). `Deactivate` touches no cache: `del` has no caller. `DropFromLru` is the
LRU making room, `Restart` a process that begins again with empty caches. `since` counts ticks after the
deactivation, `restarted` the gateways that were restarted after it.

**SseStream.** The body is a sequence of events of two units each, so that a network chunk can
end inside an event or hold several. An event has the kind `anthropic_chunk_to_openai` looks at, and
may be `garbled`: hold bytes that are not UTF-8. `PollBytes` is a poll whose byte stream is ready: it
drains at most one event and, with nothing for the client, wakes its own task. `Overshoot` is how much
more than the event is drained when its decoded copy was longer; the front of the buffer is then
`Torn`, and `Readings` are what a damaged event can be taken for. When the copy ends behind the buffer,
`drain` panics (`PollPanics`). `PollPending` leaves the waker with the byte stream.
`woken`/`registered` are the task's state in the tokio scheduler. `ChunkOf` is the transformer; no kind
gives the client `[DONE]`, and the texts are left out.

**Router, Dispatch.** Entries of `model_list` are named by position, lists made by filtering it are
sets of positions, and a strategy is an operator that returns the set of its possible choices.
The statistics of `lowest_latency` and `usage_based` are constants: nothing calls `track_success` or
`track_failure`. `Filter` is one round of `filter_cooldown`, one mutex call each, so a mark can fall
between two of them. `Route` is the end of `resolve_provider` and the entry into the retry loop, with
the deployment id the handler makes up. Ids are pairs here and strings joined with a colon in the
code, so that in the code a provider configured as `resolved` (`ConfigsAssumption`), or a colon in a name,
could make two of them equal. `usage_based` reads the cache inside `resolve_provider`, where with Redis it
waits; it is modelled by what it chooses only.
A request with `proxied` is one of the embeddings, image and audio handlers: `Proceed` takes it past the
loop and the breaker to `Proxy`, its one call, whose answer or error is sent with status 200 either way.

**ChatPipeline.** Authentication, hooks, routing and the retry loop are one step each, with every outcome
they can have. What is modelled step by step is what follows from their order: the two layers of
`rc.get` and `rc.set` (`LookUp`, `AskBackend`, `Fill`; `StoreLocal`, `StoreBackend`), each with its Redis
await, the early return of a hit, and the task `tokio::spawn` starts (`tasks`). An answer is named by the
request whose call produced it, so the properties can ask whose answer a client got. Entries expire at
any time. `redis` is chosen in `Init`: without it DualCache never suspends, and the handler cannot
be dropped there. `entries` counts what CostTracker pushed for a request, `metrics` the two counters the
handler keeps, increased in the step the code increases them in (`Count`). `Restart` is the end of a
gateway's process at any point: its handlers, its spawned tasks, its LRU and counters are gone, and
without Redis its answers and spend entries. `lost` remembers which requests came before it.
`CacheKey` is what `cache_key` hashes, with texts as sequences of words; the hash is taken to be
injective.

## 3. What is checked

Passing runs (TLC, all reachable states):

| run | instance | shows |
|---|---|---|
| `retry` | 3 requests, 1 deployment, 1 retry, breaker at 2, cooldown 2 ticks | `ThresholdTrips`: no interleaving of failures, successes and disconnects loses a cooldown. `CoolsOnlyAfterAllowedFails`: retries and disconnected clients do not count. `FailsOnlyWhenExhausted`. `EveryRequestEnds`. `ImplementsBreaker`: the loops are a `Breaker`, one verdict per request, and a success ends neither a mark on its way nor a cooldown. `Breaker` lets a streak end with the cooldown it led to, or outlive it. |
| `limiter` | 3 requests, 1 key, tpm 2 and rpm 1, window 2 ticks, TTL 3, delay 1, 2 windows, both backends, 1 restart | `AdmittedWithinLimits`: no window admits more than a limit, in each life of a gateway that counts in memory. `LimitedOnlyWhenFull`: a 429 means that as many requests as the limit have come in the same window, whatever became of them: nobody is refused for another window, key or life. `BurstsBounded`: across the border of two windows at most twice the limit passes. The limiter refines `WindowQuota` (`ImplementsQuota`). |
| `key_auth` | 2 gateways, with and without Redis, 3 runs of `authenticate`, row cached 5 ticks, hydrated 1, delay 1, any restarts | With Redis, `RevocationTakesEffect`: a deactivated key is refused after Ttl + Hydrate + 2 MaxDelay, and `EntriesDieOut`: cached copies die out in that time. Without, `RestartForgets`: only a gateway that has run since before the deactivation accepts it. |
| `upstream_call` | 2 requests, 6 kinds of call, 1 retry, breaker at 2 | `ImplementsLoop`: the steps of a call implement the one step of the loop, its fairness included. `RepeatedOnlyIfRefused`: a request is sent again only after a 429 or 5xx, never after an answer that was lost, late or unreadable; of a stream of the openai adapter, which is opened in vain in every attempt, it says nothing. `OnlyAnswersForgive`: a deployment's failures are forgotten only for a 200, and which bodies count as an answer for which call. `RefusalsRetried`: a refusal (429, 5xx) that the route can tell from an unreadable answer ends a request only with its retries used. |
| `pipeline` | 3 requests, 2 gateways, with and without Redis, any crashes, 2 conversations and a streamed request; symmetry | `ServedUnderOwnKey`: an answer from the cache is one upstream gave under the same key. `ChargedAtMostOnce`: no request has two spend entries, or one for an answer from the cache. `AnswersAreCharged`: without Redis no answer is used without its spend entry, streams apart. `CountersAddUp`: a gateway's counters miss no request it let through and count none twice, those the cache answered apart. `ImplementsSharedAnswers`: caches, disconnects and crashes do not show in whose answer a client gets. |
| `sse` | every body of up to 4 events over 5 events, every chunking | `DeliveredInOrder`, `KeepsUpWithUpstream`, and what follows for the whole answer, `SpacedEventsArrive`: events that come in network chunks of their own all arrive. `DamageGoesForward`: bytes that do not decode harm their own event and later ones only. `EndsWithUpstream`: no lost wake-up. |
| `dispatch` | 2 requests, 2 model lists, 4 strategies, tags, fallbacks, proxied handlers | `NeverChoosesFromNothing`. `RoutedAsConfigured`: where the strategy has a choice, to an entry of the model, of a provider the strategy may choose, breaker or not. `RejectedByConfiguration`: a model is reported as not found only for what the configuration says of it. `EveryRequestAnswered`. |

Runs in which TLC refutes what the repository says (`PROJECT.json` "findings" quotes it):

| run | the counterexample |
|---|---|
| `key_cached_forever` | without Redis a key row is never read again: a deactivated key stays valid |
| `stream_loses_events` | two events in the last network chunk: the second is dropped |
| `cooldown_not_skipped` | handlers mark `resolved:<model>`, the Router asks for `<provider>:<model>`: the one deployment that failed is offered to the next request while the cooldown it earned is running |
| `cache_mixes_prompts` | two conversations whose texts run together have one cache key |
| `transient_not_retried` | a network timeout ends the request at its first attempt (`HttpError` is not retryable) |

There are more places where the code departs from a document. The models do what the code does there. They
have no run of their own, since each is a single line to compare with a sentence, which needs no
interleaving to be seen; but no property asserts the code's side against the document either: the
properties that come near are worded so that they hold whichever of the two is right.

- A failure counter outlives the cooldown, so that one more failure trips the breaker again; adr/011:56 and
  :63 clear it when the cooldown ends. `Breaker` allows both (`TimePasses`), and `ThresholdTrips` holds for
  both.
- Every error counts against the deployment, a client's 4xx too (adr/011:60). `Breaker` allows both
  (`Excuse`), and `CoolsOnlyAfterAllowedFails`, which counts failures of any kind, holds for both.
- A request that makes a limit full is admitted (`>`), where spec v0.3 (`docs/specs/2026-05-31-v0.3-
  production-mvp.md`:221, 224) refuses it (`>=`); the code increments and checks `tpm` before it touches
  `rpm`, where the spec increments both before either check (:215-216); counters live 90 s, not 60
  (:217-218). `AdmittedWithinLimits` bounds from above and `LimitedOnlyWhenFull` from below, both so that
  either comparison satisfies them. How many slots are spent on requests that are then refused is in no
  property.
- A fallback model is searched among the requested model's entries only; router/mod.rs:54, adr/011:43-47
  and spec v0.3 section 8.3 (:392-400) go to the other model. `FallbackEntries` is the code;
  `RoutedAsConfigured` says nothing of requests for which the strategy has no choice.
- Of two entries of one provider, the first is called whichever was selected (router/mod.rs:44). `Matching`
  is the code; `RoutedAsConfigured` speaks of the provider only.
- Streams get no spend entry, while adr/014:71 has CostTracker write one after the stream, and the comment
  at chat.rs:66 has the hooks run then; `async_on_error_hook` is never called. `ChargedAtMostOnce` allows an
  entry for a stream or a failed call, and `AnswersAreCharged` does not ask for one.
- A cache hit is counted twice in `requests_total` (chat.rs:41), and a request the hooks reject not at all;
  adr/016:23 and the HELP text at metrics.rs:25 call it the number of requests. `CountersAddUp` leaves both
  open. Of the other counters, `errors_total`, `rate_limited_total` and `active_connections` are never
  changed.
- A client that leaves while the answer is written to Redis is not charged (adr/009:11), and no spend
  entry has a cost: `model_pricing` is `None` in every `AuthContext` (chat.rs:133, 148, 163).

What the code does, and no document asks for or forbids:

- a stream is a success of its deployment when it is opened, whatever becomes of it, and a raw answer before
  it is parsed; `OnlyAnswersForgive` says so;
- a stream of the openai adapter is opened, answered with 200, given up as a timeout and opened again, up to
  `num_retries` times (handler.rs:138); `RepeatedOnlyIfRefused` leaves these out;
- an event that was damaged may be taken for an empty chunk, without an error (`Readings`);
- gateways without Redis each count a key's requests on their own, and again from 0 after a restart.

(429 and 5xx whose body is no JSON are retried everywhere but on the chat route; that is against
adr/011:32, and part of `transient_not_retried`.)

`RepeatedOnlyIfRefused` and `transient_not_retried` pull in opposite directions: retrying timeouts as the
document asks breaks the first, as the mutant `IsRetryable_Network` shows: upstream may have carried out a
call whose answer never came, and it would be made again. The first is no promise that a call is carried out
at most once: a gateway behind the provider may answer 502 or 504 for work that was done, and the loop repeats
every 5xx, as adr/011:32 asks.

`RoutedAsConfigured` and `NeverChoosesFromNothing` are the other side of `cooldown_not_skipped`:
because the two ids never meet, the breaker cannot change a route, and `simple_shuffle`, which
divides by the length of its list, never sees an empty one. Joining the ids without guarding the
empty list breaks the second; the mutant `Route_RouterId` shows that.

### Bounds, and why they are enough

- `retry`: two requests make a streak that reaches `allowed_fails`, and the third succeeds (resets) or
  fails between any two of their steps. Deployments do not interact, so one is enough; `dispatch` has
  several. One retry gives a first, a middle and a last attempt of the guard `attempt < num_retries`.
- `upstream_call`: a call is independent of other requests but for the breaker, which takes two failures.
  One retry gives an attempt that may be followed by another and one that may not. Error bodies matter
  only as JSON or not; `complete_raw` does not look at the adapter.
- `pipeline`: one request answers, a second reads what it stored on the same or the other gateway, a third
  stores another answer under the key in between. Keys are independent, and one more request than keys
  makes two meet. Crashes are not bounded.
- `limiter`: one limit is reached by two requests and exceeded by three; requests fall in both windows
  and late ones increment a counter of the previous window. Keys share nothing but time. The delay
  bound is section 4's assumption, at its limit: Window + MaxDelay = CounterTtl. Lives share nothing, so
  two of them (`MaxRestarts` = 1) show everything a restart can do to a window.
- `key_auth`: a revoked key survives longest when one gateway caches late and another hydrates from
  that copy; two gateways and three requests do both. The bound adds up the longest wait of each, which
  these instances do not reach together (they come within one or two ticks of it). Ticks are 60 s: 300 s, 60 s.
- `sse`: four events and arbitrary chunks cover an event that spans chunks, a chunk of several events, a
  silent event before and after a data event, an unfinished tail, and a garbled event that tears the
  next one, which may itself be garbled. Events end with `\n\n`, the only end the code looks for: a body
  that ends its events with CRLF, from which it extracts none, is no value of `Bodies`, and neither is one where
  what is left of a torn event forms a new `\n\n` with the newline that follows.
- `dispatch`: two deployments of one model, of different providers or of the same, plus a model with one,
  one whose provider is unsupported and one that nobody serves.

`Horizon`, `MaxRestarts`, `MaxDelay` and the sizes of the sets are the only bounds the code does not have.
The largest run has 1.4 million distinct states (`sse`).

### Fairness

- `RetryWithCooldown`, `Dispatch`: an upstream call returns (the reqwest client is built with a 60 s
  timeout, handler.rs:23), a handler that can run is polled (tokio), and time passes. `Begin` is not
  fair: a client need not send anything. `Disconnect` is not fair either. `Proxy` is fair for the same
  reason as a call in the loop: it uses the same client with the same timeout. Resolving a provider
  waits for the CooldownManager's lock only, but for `usage_based`, which awaits the cache twice per entry: with
  Redis nothing bounds that, so `EveryRequestAnswered` is not claimed there, and the run leaves the strategy
  out.
- `UpstreamCall`: a call is sent (`Send`), and the 60 s end it (`Lose`) if nothing else does, whatever it was
  waiting for; upstream owes no response and no body (`Respond` and `Read` are not fair). `Continue` and
  `Tick` are fair as in the loop. That the loop's own fairness follows is checked as part of `ImplementsLoop`; a
  client whose timeout ended with the headers would break it (mutant `Lose_UntilHeaders`).
- `SseStream`: a woken task is polled. The upstream side is not fair: the property is about bodies
  upstream did end. A client that stops reading without closing blocks the task; that is outside the
  model, like the TCP window behind it.
- `RateLimiter`, `KeyAuth` and `ChatPipeline` have safety properties only.

## 4. What is proved

For every value of the constants, under the assumptions each module names:

| module | theorems | argument |
|---|---|---|
| `RetryWithCooldown_proofs` | `TypeCorrect`, `CooldownNeverLost`, `FailureIsFinal`, `CooldownIsEarned`, `BreakerImplemented` | Stated as lemmas about `Steps`, the specification without its fairness, so that the modules that instantiate the loop can use them. `CountsFailedRequests`: a counter is at most the number of *distinct* requests recorded as failed on that deployment. It is needed because `CoolsOnlyAfterAllowedFails` says nothing of a counter that has not reached the threshold yet. Recording a failure adds one request to a finite set, and so one to its cardinality. `BreakerImplemented`: a step that records a verdict is `Succeed` or `Fail`, `Mark` is `Rest`, `Tick` is `TimePasses`, all else stutters. |
| `UpstreamCall_proofs` | `CallsImplementLoop`, `CallsKeepTheLoopSafe`, `CallsImplementBreaker`, `TypeCorrect`, `RepeatsRefusalsOnly`, `ForgivenForAnswers`, `RefusedToTheEnd` | every step maps to a step of the loop or a stutter, so the loop's types, its safety theorems and its refinement of `Breaker` carry over (see below). `Backed`: a request has as many refusals behind it as repetitions, and one more when it sleeps before the next or is reading the body of a refusal; for no body makes a retryable error of an answer that was none (`RetriedOutcomes`). `CountersFollow`: a counter falls only in a step that serves a request to its deployment. `RefusedToTheEnd`: `RefusalsRetried` is inductive, since `Read` and `Respond` end a call that was refused with a retryable error, which fails a request only in its last attempt. |
| `ChatPipeline_proofs` | `TypeCorrect`, `OwnAnswersOnly`, `NobodyPaysTwice`, `NothingForFree`, `Implementation` | `CachesSound`: what either layer holds under a key was answered by upstream to an unstreamed request with that key, which is past its call. `Places` ties a request's place to the answer it has, `ChargedWhenServed` an entry or its task to a request that was served by a call of its own, `CallsCharged` a call that was answered to its entry, its task, or its way there, and `CrashesForget` says that what a crash lost is in no cache of that gateway. The refinement follows: a hit is `Share`, by `CachesSound`; a call is `Answer`; all else stutters. |
| `ChatPipelineCounters_proofs` | `CountersRight` | `ExactlyCounted` says what the counters are, not only between what: every request past the hooks once, a hit again. A step of a handler moves one request between the sets it counts (`Moves`, `Effect`), so their sizes change by one at most (`OneMoves`); a crash empties those of its gateway. `ExactlyEnough`: the bounds of `CountersAddUp` follow. |
| `RateLimiter_proofs` | `TypeCorrect`, `LimitsKept`, `LimitedLate`, `BurstsKept`, `QuotaImplemented` | `Tickets`: requests of one key, window and life hold distinct tickets, all at most the counter, as long as one of them may still increment; the counter lives that long because Window + MaxDelay <= CounterTtl. Admitted requests therefore hold distinct tickets in 1..limit, and the refinement follows: a step that admits is a grant within the quota, any other stutters. `LimitedLate` is the other direction: `Explained` says that a counter never exceeds the number of requests that have incremented it (`Spenders`), so a ticket beyond the limit has that many requests behind it. `BurstsKept`: a stretch of a window's length lies in two windows (`TwoWindows`). |
| `KeyAuth_proofs` | `TypeCorrect`, `RevocationBounded`, `StaleEntriesDieOut`, `ForgottenOnRestart` | with Redis, bounds on `since + backend`, `since + local`, and on how long ago a request in flight read the row or Redis; the bound is false without it. Without, `ForgottenInv`: nothing on a restarted gateway still knows the row. |
| `SseStream_proofs` | `TypeCorrect`, `OrderKept`, `CleanEventsKept`, `KeepsUp`, `SpacedBodiesArrive` | what was delivered is ordered and lies in the drained prefix; the front is torn, or a poll panics, only behind a garbled event, so up to the first one every event is read as it is. `SpacedBodiesArrive` joins them: a response that ended with its body has read all of it (`ReadToTheEnd`), has kept up, and so has taken every event |
| `Dispatch_proofs` | `RouterSeesNoCooldown`, `TypeCorrect`, `StrategyHasAChoice`, `BreakerIsInert`, `BreakerRejectsNothing`, `DispatchImplementsLoop`, `DispatchKeepsTheLoopSafe`, `DispatchImplementsBreaker` | `NothingCools`: only ids that begin with `resolved` are ever marked, and no provider has that name (`ConfigsAssumption`). Then `filter_cooldown` keeps every candidate, and `Routing` ties the entry a request has to the strategies' operators. The types of the loop carry over because every step is one of its steps or a stutter (`ResolveEntersLoop`); with the fairness of `Dispatch`, which contains that of the loop, this is `DispatchImplementsLoop`. `BreakerRejectsNothing`: a rejected request found no candidate, an unsupported provider, or, with `tag_based`, no tags and no fallback that leads back to its model; that a set of positions has a least element, which the strategies need, is well-founded induction on the naturals. |

The loop's theorems are proved once. `UpstreamCall_proofs` and `Dispatch_proofs` instantiate
`RetryWithCooldown_proofs` with the parameters their own `Loop` has (`LoopProofs`), show that the two
instances have the same initial states and steps (`SameSteps`) and that the assumptions of the
instance are theirs (`SameSettings`), and prove that their own steps are steps of the loop. What the loop
keeps then holds behind the Router, and with calls that take several steps.

Assumptions: `SettingsAssumption` (in `RetryWithCooldown`, `UpstreamCall` and `Dispatch`: settings are natural
numbers, and so is the backoff of every attempt; none is bounded), `DelayAssumption` (Window + MaxDelay <= CounterTtl:
60 s + 30 s <= 90 s, where the 30 s are *not* enforced by the code: a Redis command has no timeout there),
`LimitAssumption`, `TimeAssumption`, `AuthAssumption` and `BodiesAssumption` (constants have their types),
`CacheAssumption`, `NamesAssumption` and `CallsAssumption` (the names used for "none" and for Redis are
nobody's), `ConfigsAssumption` (no provider is called `resolved`, model and fallback lists are finite, prices
can be ranked), and `RequestsAssumption` (in a run there are finitely many requests).

Every invariant and every safety part of an action property or refinement that a run checks is proved.
Only model-checked: the liveness properties (`EveryRequestEnds`, `EndsWithUpstream`,
`EveryRequestAnswered`, the fairness in `ImplementsLoop` of `UpstreamCall`, whose proof needs ENABLED) and the violations.
Liveness under fairness, and induction over data, are beyond the provers used.

## 5. What is not modelled, and why

- Code that is never reached: the Redis backend of CooldownManager (main.rs:142 builds the in-memory
  one), the strategies' trackers and `track_success`/`track_failure`, `build_full_response`,
  `DualCache::del`, `EncryptedSecretManager`, the Messages mode of the anthropic adapter.
  `delete_key` has no route in `main.rs`; `KeyAuth` has its effect, which an `UPDATE` has too.
- Code that changes nothing: `create_deployment` and `delete_deployment` answer with success,
  `list_keys` and `list_models` read, the health checker logs, `spend:queue` is drained by nobody.
- Fields of messages, answers and chunks, and so the adapters' transformations beyond their outcome: that
  the anthropic adapter drops the `extra` fields of a request and reads only the first content block,
  that it adds token counts cut to 32 bits (anthropic.rs:119), that limits read from PostgreSQL are cut
  to `u32` (chat.rs:131). They are conversions of single values, without state or order.
- Configuration: `resolve_env_vars` substitutes once, before anything runs. What it yields is in the
  constants (`Configs`, limits, settings).
- The requests the embeddings and media handlers build (they send every provider an
  `Authorization: Bearer` header), error texts, the export format of the metrics, the CLI.

## 6. Plan

Done: the retry loop and breaker, the upstream call under it, the limiter, keys and their cache, streams
with their chunks and damaged bytes, routing and the proxied handlers, the pipeline with its response
cache, spend entries, counters and crashes; the abstract quota, cache and breaker, all proved to be
implemented. Left, in order of importance:

1. The transformations of the anthropic adapter as pure operators (messages into a system prompt and
   turns, stop reasons, usage), checked over bounded inputs; `${VAR}` substitution likewise.
2. If their code comes into use: the Redis backend of CooldownManager against the in-memory one, and the
   strategies' statistics (`lowest_latency`, `usage_based`) as they are updated and read.
3. Liveness of the pipeline: today each wait is bounded in its own module, and the composition is not
   checked as one.
