--------------------------- MODULE RetryWithCooldown ---------------------------
(***************************************************************************)
(* The retry loop every upstream call goes through, and the circuit        *)
(* breaker it feeds: retry_with_cooldown of gateway/src/routes/chat.rs,    *)
(* the same loop written out in gateway/src/routes/messages.rs, and the    *)
(* in-memory backend of CooldownManager (gateway/src/router/cooldown.rs).  *)
(*                                                                         *)
(* Each element of Requests is one run of a handler, from its first        *)
(* upstream call on.  The handlers run concurrently and share only the     *)
(* CooldownManager, one Mutex<CooldownState> that every call locks once,   *)
(* so each call on it is one atomic step.  record_failure and mark are     *)
(* two calls: anything may happen between them.                            *)
(*                                                                         *)
(* Time is counted down: cooling[d] is the time left until the Instant     *)
(* stored for d (0 when there is none or it has passed) and timer[r] the   *)
(* time left of r's sleep.                                                 *)
(***************************************************************************)
EXTENDS Naturals, FiniteSets

CONSTANTS
  Requests,       \* runs of a handler
  Deployments,    \* the deployment_id strings handed to the CooldownManager
  NoDeployment,   \* a request that has none yet
  NumRetries,     \* router_settings.num_retries
  RetryAfter,     \* router_settings.retry_after, in ticks
  AllowedFails,   \* router_settings.allowed_fails
  CooldownTime    \* router_settings.cooldown_time, in ticks

\* retry_delay: exponential in the attempt.  Its jitter only lets the sleep end
\* later, which Wake allows anyway.
RetryDelay(n) == RetryAfter * 2^n

ASSUME SettingsAssumption ==
  /\ NumRetries \in Nat
  /\ AllowedFails \in Nat
  /\ CooldownTime \in Nat
  /\ \A n \in 0..NumRetries : RetryDelay(n) \in Nat

ASSUME RequestsAssumption == IsFiniteSet(Requests)

NoError == "none"

\* ProviderError, up to what the loop tells apart.  "throttled" is status 429,
\* "server" 500..599, "client" any other status; "transport" is HttpError and
\* "unreadable" SerializationError.
Errors == {"throttled", "server", "timeout", "client", "transport", "unreadable"}

IsRetryable_Network(e) == e \in {"throttled", "server", "timeout", "transport"}

IsRetryable(e) == e \in {"throttled", "server", "timeout"}

VARIABLES
  pc,           \* where each handler is
  deployment,   \* its deployment_id
  attempt,      \* the loop's attempt
  lastErr,      \* last_err
  timer,        \* what is left of its backoff sleep
  failures,     \* CooldownState.failures, 0 for an absent key
  cooling,      \* CooldownState.cooldowns, as time left
  tripped       \* history: marked since the failure counter was last reset

calls == <<pc, deployment, attempt, lastErr, timer>>
vars == <<calls, failures, cooling, tripped>>

Running == {"calling", "sleeping", "failing", "marking"}
Ended == {"served", "unparsed", "failed", "gone"}

TypeOK ==
  /\ pc \in [Requests -> {"new"} \union Running \union Ended]
  /\ deployment \in [Requests -> Deployments \union {NoDeployment}]
  /\ \A r \in Requests : pc[r] # "new" => deployment[r] \in Deployments
  /\ attempt \in [Requests -> 0..NumRetries]
  /\ lastErr \in [Requests -> Errors \union {NoError}]
  /\ timer \in [Requests -> Nat]
  /\ failures \in [Deployments -> Nat]
  /\ cooling \in [Deployments -> 0..CooldownTime]
  /\ tripped \in [Deployments -> BOOLEAN]

Init ==
  /\ pc = [r \in Requests |-> "new"]
  /\ deployment = [r \in Requests |-> NoDeployment]
  /\ attempt = [r \in Requests |-> 0]
  /\ lastErr = [r \in Requests |-> NoError]
  /\ timer = [r \in Requests |-> 0]
  /\ failures = [d \in Deployments |-> 0]
  /\ cooling = [d \in Deployments |-> 0]
  /\ tripped = [d \in Deployments |-> FALSE]

\* is_cooling_down: expiry > now.
IsCoolingDown(d) == cooling[d] > 0
-----------------------------------------------------------------------------
\* The handler enters the loop with attempt 0 and calls upstream.
Begin(r, d) ==
  /\ pc[r] = "new"
  /\ pc' = [pc EXCEPT ![r] = "calling"]
  /\ deployment' = [deployment EXCEPT ![r] = d]
  /\ UNCHANGED <<attempt, lastErr, timer, failures, cooling, tripped>>

Answered_EndsCooldown(r) ==
  /\ pc[r] = "calling"
  /\ \E end \in {"served", "unparsed"} : pc' = [pc EXCEPT ![r] = end]
  /\ failures' = [failures EXCEPT ![deployment[r]] = 0]
  /\ tripped' = [tripped EXCEPT ![deployment[r]] = FALSE]
  /\ cooling' = [cooling EXCEPT ![deployment[r]] = 0]
  /\ UNCHANGED <<deployment, attempt, lastErr, timer>>

\* Ok(val): record_success removes the counter, and leaves the cooldown alone.
\* anthropic_messages parses the body only after that, so the client may still
\* get an error.
Answered(r) ==
  /\ pc[r] = "calling"
  /\ \E end \in {"served", "unparsed"} : pc' = [pc EXCEPT ![r] = end]
  /\ failures' = [failures EXCEPT ![deployment[r]] = 0]
  /\ tripped' = [tripped EXCEPT ![deployment[r]] = FALSE]
  /\ UNCHANGED <<deployment, attempt, lastErr, timer, cooling>>

MayRetry_LastAttemptLost(r, e) == IsRetryable(e) /\ attempt[r] + 1 < NumRetries

MayRetry_OneTooMany(r, e) == IsRetryable(e) /\ attempt[r] <= NumRetries

\* The guard of the loop's second arm.
MayRetry(r, e) == IsRetryable(e) /\ attempt[r] < NumRetries

Retry_CountsEveryAttempt(r, e) ==
  /\ pc[r] = "calling"
  /\ MayRetry(r, e)
  /\ pc' = [pc EXCEPT ![r] = "sleeping"]
  /\ lastErr' = [lastErr EXCEPT ![r] = e]
  /\ timer' = [timer EXCEPT ![r] = RetryDelay(attempt[r])]
  /\ failures' = [failures EXCEPT ![deployment[r]] = @ + 1]
  /\ UNCHANGED <<deployment, attempt, cooling, tripped>>

\* Err(e) on a retryable error with attempts left: sleep.
Retry(r, e) ==
  /\ pc[r] = "calling"
  /\ MayRetry(r, e)
  /\ pc' = [pc EXCEPT ![r] = "sleeping"]
  /\ lastErr' = [lastErr EXCEPT ![r] = e]
  /\ timer' = [timer EXCEPT ![r] = RetryDelay(attempt[r])]
  /\ UNCHANGED <<deployment, attempt, failures, cooling, tripped>>

Wake_SameAttempt(r) ==
  /\ pc[r] = "sleeping"
  /\ timer[r] = 0
  /\ pc' = [pc EXCEPT ![r] = "calling"]
  /\ UNCHANGED <<deployment, attempt, lastErr, timer, failures, cooling, tripped>>

\* The sleep is over (tokio never wakes early, but may wake late).
Wake(r) ==
  /\ pc[r] = "sleeping"
  /\ timer[r] = 0
  /\ pc' = [pc EXCEPT ![r] = "calling"]
  /\ attempt' = [attempt EXCEPT ![r] = @ + 1]
  /\ UNCHANGED <<deployment, lastErr, timer, failures, cooling, tripped>>

\* Err(e) otherwise: break.
GiveUp(r, e) ==
  /\ pc[r] = "calling"
  /\ ~ MayRetry(r, e)
  /\ pc' = [pc EXCEPT ![r] = "failing"]
  /\ lastErr' = [lastErr EXCEPT ![r] = e]
  /\ UNCHANGED <<deployment, attempt, timer, failures, cooling, tripped>>

RecordFailure_StrictThreshold(r) ==
  LET d == deployment[r]
      count == failures[d] + 1
  IN  /\ pc[r] = "failing"
      /\ failures' = [failures EXCEPT ![d] = count]
      /\ pc' = [pc EXCEPT ![r] = IF count > AllowedFails THEN "marking" ELSE "failed"]
      /\ UNCHANGED <<deployment, attempt, lastErr, timer, cooling, tripped>>

\* record_failure, and the comparison of the count it returned with allowed_fails.
RecordFailure(r) ==
  LET d == deployment[r]
      count == failures[d] + 1
  IN  /\ pc[r] = "failing"
      /\ failures' = [failures EXCEPT ![d] = count]
      /\ pc' = [pc EXCEPT ![r] = IF count >= AllowedFails THEN "marking" ELSE "failed"]
      /\ UNCHANGED <<deployment, attempt, lastErr, timer, cooling, tripped>>

\* mark: the expiry becomes now + cooldown_time, whatever it was.
Mark(r) ==
  LET d == deployment[r]
  IN  /\ pc[r] = "marking"
      /\ cooling' = [cooling EXCEPT ![d] = CooldownTime]
      /\ tripped' = [tripped EXCEPT ![d] = TRUE]
      /\ pc' = [pc EXCEPT ![r] = "failed"]
      /\ UNCHANGED <<deployment, attempt, lastErr, timer, failures>>

\* The client disconnects and the server drops the handler's future.  That can
\* happen only where the future is suspended: in the upstream call and in the
\* sleep.  The in-memory CooldownManager never suspends.
Disconnect(r) ==
  /\ pc[r] \in {"calling", "sleeping"}
  /\ pc' = [pc EXCEPT ![r] = "gone"]
  /\ UNCHANGED <<deployment, attempt, lastErr, timer, failures, cooling, tripped>>

\* One tick of the clock, while anything waits for it.
Elapse(t) == IF t = 0 THEN 0 ELSE t - 1

Tick ==
  /\ \/ \E r \in Requests : timer[r] > 0
     \/ \E d \in Deployments : cooling[d] > 0
  /\ timer' = [r \in Requests |-> Elapse(timer[r])]
  /\ cooling' = [d \in Deployments |-> Elapse(cooling[d])]
  /\ UNCHANGED <<pc, deployment, attempt, lastErr, failures, tripped>>

\* What an upstream call may come back with.
UpstreamReturns(r) ==
  \/ Answered(r)
  \/ \E e \in Errors : Retry(r, e) \/ GiveUp(r, e)

\* A handler in the loop takes a step.
Serve(r) ==
  \/ UpstreamReturns(r)
  \/ Wake(r)
  \/ RecordFailure(r)
  \/ Mark(r)
  \/ Disconnect(r)

Next ==
  \/ \E r \in Requests : Serve(r) \/ \E d \in Deployments : Begin(r, d)
  \/ Tick

\* An upstream call returns: the client of HttpHandler has a 60 s timeout.  The
\* runtime polls every ready handler, and time passes.
Fairness ==
  /\ \A r \in Requests :
       WF_vars(UpstreamReturns(r)) /\ WF_vars(Wake(r) \/ RecordFailure(r) \/ Mark(r))
  /\ WF_vars(Tick)

Spec == Init /\ [][Next]_vars /\ Fairness
-----------------------------------------------------------------------------
\* The requests to d whose failure has been recorded.
FailedOn(d) == {r \in Requests : deployment[r] = d /\ pc[r] \in {"marking", "failed"}}

\* When the failure counter of a deployment has reached allowed_fails, the
\* deployment has been marked since the counter was last reset, or a handler is
\* about to mark it: no interleaving of failures, successes and disconnects loses
\* the cooldown between record_failure and mark.
ThresholdTrips ==
  \A d \in Deployments :
    failures[d] > 0 /\ failures[d] >= AllowedFails =>
      \/ tripped[d]
      \/ \E r \in Requests : deployment[r] = d /\ pc[r] = "marking"

\* A deployment cools down only after allowed_fails different requests to it have
\* failed: the retries of one request, and the requests whose client went away,
\* count for nothing.
CoolsOnlyAfterAllowedFails ==
  \A d \in Deployments :
    IsCoolingDown(d) => Cardinality(FailedOn(d)) >= AllowedFails

\* A request is reported as failed, and counted against its deployment, only when
\* its last error was final or every retry had been used; last_err is then
\* set, so that the Timeout of unwrap_or is never reported.
FailsOnlyWhenExhausted ==
  \A r \in Requests :
    pc[r] \in {"failing", "marking", "failed"} =>
      /\ lastErr[r] # NoError
      /\ IsRetryable(lastErr[r]) => attempt[r] = NumRetries

\* What the handlers have told the CooldownManager, for Breaker.
Among(states) == {r \in Requests : pc[r] \in states}

Promise == INSTANCE Breaker WITH
  judged <- Among({"served", "unparsed", "marking", "failed"}),
  streak <- failures,
  due <- {<<r, deployment[r]>> : r \in Among({"marking"})},
  resting <- cooling,
  excused <- {r \in Requests : lastErr[r] = "client"}

\* The loop and the CooldownManager implement Breaker: retries, backoffs and
\* disconnects are invisible to it, a request counts once however many calls it made,
\* and a success that comes between a failure and its mark, or during a cooldown,
\* undoes neither.  Breaker does not say whether a streak survives the cooldown it
\* led to, or whether a client's own errors count: both are so here, and docs/adr/
\* 011-resilience-patterns.md:56 and :60 say they should not be.
ImplementsBreaker == Promise!Spec

\* Every request that reaches upstream ends, whatever upstream answers.
EveryRequestEnds ==
  \A r \in Requests : pc[r] \in Running ~> pc[r] \in Ended
=============================================================================
