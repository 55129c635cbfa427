----------------------------- MODULE UpstreamCall ------------------------------
(***************************************************************************)
(* What one upstream call of RetryWithCooldown consists of: complete,      *)
(* complete_raw and complete_stream_owned of tokencamp-core/src/handler.rs *)
(* with the transform_request, transform_response and chunk_transformer of *)
(* the two adapters resolve_provider builds: openai, and anthropic in its  *)
(* Chat mode.                                                              *)
(*                                                                         *)
(* The retry loop sees a call as one step with any outcome.  Here it is    *)
(* sent, gets its status and headers, and then its body, unless the        *)
(* connection is lost or the client's 60 s are over.                       *)
(***************************************************************************)
EXTENDS Naturals, FiniteSets

CONSTANTS
  Requests, Deployments, NoDeployment, NumRetries, RetryAfter, AllowedFails, CooldownTime,
  Calls,   \* the calls a request may make, as records of AllCalls
  NoCall   \* none yet

\* The HttpHandler method, the adapter, and whether the configured API key can be
\* put in a header.
AllCalls ==
  [method : {"complete", "raw", "stream"},
   adapter : {"openai", "anthropic"},
   keyFits : BOOLEAN]

ASSUME CallsAssumption == Calls \subseteq AllCalls /\ NoCall \notin AllCalls

\* A body is an "answer" of the provider, other "json", or "text" that is no JSON.
Responses ==
  [status : {"ok"}, body : {"answer", "json", "text"}]
    \union [status : {"throttled", "server", "client"}, body : {"json", "text"}]

\* A call that got no response: cut off by the client's timeout, or otherwise.
TimedOut == [status |-> "timeout", body |-> "none"]
Cut == [status |-> "cut", body |-> "none"]
NoResponse == [status |-> "none", body |-> "none"]

VARIABLES
  pc, deployment, attempt, lastErr, timer, failures, cooling, tripped,
  call,       \* the call each request makes, and makes again when it retries
  stage,      \* how far it is: "idle", "sent" or "reading" the body
  response,   \* what the last call got
  refused     \* history: how many of its calls upstream answered with 429 or 5xx

loopVars == <<pc, deployment, attempt, lastErr, timer, failures, cooling, tripped>>
callVars == <<call, stage, response, refused>>
vars == <<loopVars, callVars>>

Loop == INSTANCE RetryWithCooldown

\* As RetryWithCooldown assumes.
ASSUME RequestsAssumption == IsFiniteSet(Requests)

ASSUME SettingsAssumption ==
  /\ NumRetries \in Nat
  /\ AllowedFails \in Nat
  /\ CooldownTime \in Nat
  /\ \A n \in 0..NumRetries : Loop!RetryDelay(n) \in Nat

TypeOK ==
  /\ Loop!TypeOK
  /\ call \in [Requests -> Calls \union {NoCall}]
  /\ stage \in [Requests -> {"idle", "sent", "reading"}]
  /\ response \in [Requests -> Responses \union {TimedOut, Cut, NoResponse}]
  /\ refused \in [Requests -> Nat]
  /\ \A r \in Requests : pc[r] # "new" => call[r] \in Calls
  /\ \A r \in Requests : stage[r] # "idle" => pc[r] = "calling"
  /\ \A r \in Requests : stage[r] = "reading" => response[r] \in Responses

Init ==
  /\ Loop!Init
  /\ call = [r \in Requests |-> NoCall]
  /\ stage = [r \in Requests |-> "idle"]
  /\ response = [r \in Requests |-> NoResponse]
  /\ refused = [r \in Requests |-> 0]

TransformResponse_AnyJson(adapter, a) ==
  IF a.body = "text" THEN "unreadable" ELSE IF a.status = "ok" THEN "served" ELSE a.status

\* transform_response: an error status must come with JSON, and so must an answer.
\* openai wants all of a ModelResponse, anthropic fills in what is missing.
TransformResponse(adapter, a) ==
  IF a.body = "text" \/ (a.status = "ok" /\ adapter = "openai" /\ a.body # "answer")
    THEN "unreadable"
    ELSE IF a.status = "ok" THEN "served" ELSE a.status

RawResponse_ParsesFirst(a) ==
  IF a.body = "text" THEN "unreadable" ELSE IF a.status = "ok" THEN "served" ELSE a.status

\* complete_raw takes any error body, and leaves the parsing of an answer to
\* anthropic_messages.
RawResponse(a) ==
  IF a.status # "ok" THEN a.status ELSE IF a.body = "text" THEN "unparsed" ELSE "served"

\* complete_stream_owned with an error status: any body will do.
Outcome(c, a) ==
  CASE c.method = "complete" -> TransformResponse(c.adapter, a)
    [] c.method = "raw" -> RawResponse(a)
    [] c.method = "stream" -> a.status

\* chunk_transformer: openai has none.
Streams(c) == c.adapter = "anthropic"

\* complete_stream_owned opens such a stream and reports Timeout.
OpenedInVain(c) == c.method = "stream" /\ ~ Streams(c)

Ends_KeepsStage(r, outcome) ==
  /\ UNCHANGED stage
  /\ \/ Loop!Answered(r) /\ pc'[r] = outcome
     \/ outcome \in Loop!Errors /\ (Loop!Retry(r, outcome) \/ Loop!GiveUp(r, outcome))

\* An error upstream may get over, by its status.
Refuses(a) == a.status \in {"throttled", "server"}

\* The method returns to the retry loop.
Ends(r, outcome) ==
  /\ stage' = [stage EXCEPT ![r] = "idle"]
  /\ \/ Loop!Answered(r) /\ pc'[r] = outcome
     \/ outcome \in Loop!Errors /\ (Loop!Retry(r, outcome) \/ Loop!GiveUp(r, outcome))
-----------------------------------------------------------------------------
Begin(r, d, c) ==
  /\ Loop!Begin(r, d)
  /\ call' = [call EXCEPT ![r] = c]
  /\ UNCHANGED <<stage, response, refused>>

\* transform_request, then send.
Send(r) ==
  /\ pc[r] = "calling"
  /\ stage[r] = "idle"
  /\ \/ /\ call[r].keyFits
        /\ stage' = [stage EXCEPT ![r] = "sent"]
        /\ UNCHANGED loopVars
     \/ ~ call[r].keyFits /\ Ends(r, "unreadable")
  /\ response' = [response EXCEPT ![r] = NoResponse]
  /\ UNCHANGED <<call, refused>>

\* The status and headers.  A stream that was opened is the answer of the call, if
\* the adapter can transform it; everything else has a body to read.
Respond(r) ==
  /\ pc[r] = "calling"
  /\ stage[r] = "sent"
  /\ \E a \in Responses :
       /\ response' = [response EXCEPT ![r] = a]
       /\ refused' = IF Refuses(a) THEN [refused EXCEPT ![r] = @ + 1] ELSE refused
       /\ IF call[r].method = "stream" /\ a.status = "ok"
            THEN Ends(r, IF Streams(call[r]) THEN "served" ELSE "timeout")
            ELSE stage' = [stage EXCEPT ![r] = "reading"] /\ UNCHANGED loopVars
  /\ UNCHANGED call

\* All of the body has arrived.
Read(r) ==
  /\ pc[r] = "calling"
  /\ stage[r] = "reading"
  /\ Ends(r, Outcome(call[r], response[r]))
  /\ UNCHANGED <<call, response, refused>>

Lose_UntilHeaders(r) ==
  /\ pc[r] = "calling"
  /\ stage[r] = "sent"
  /\ \E a \in {TimedOut, Cut} : response' = [response EXCEPT ![r] = a]
  /\ Ends(r, "transport")
  /\ UNCHANGED <<call, refused>>

\* The connection is lost, or 60 s are over: the timeout of the client runs from the
\* send until all of the body is there.
Lose(r) ==
  /\ pc[r] = "calling"
  /\ stage[r] \in {"sent", "reading"}
  /\ \E a \in {TimedOut, Cut} : response' = [response EXCEPT ![r] = a]
  /\ Ends(r, "transport")
  /\ UNCHANGED <<call, refused>>

\* The handler is dropped where it is suspended: in a call, or in the backoff.
Disconnect(r) ==
  /\ stage[r] \in {"sent", "reading"} \/ pc[r] = "sleeping"
  /\ Loop!Disconnect(r)
  /\ stage' = [stage EXCEPT ![r] = "idle"]
  /\ response' = [response EXCEPT ![r] = NoResponse]
  /\ UNCHANGED <<call, refused>>

\* The rest of the retry loop.
Continue(r) ==
  /\ Loop!Wake(r) \/ Loop!RecordFailure(r) \/ Loop!Mark(r)
  /\ UNCHANGED callVars

Tick == Loop!Tick /\ UNCHANGED callVars

CallProceeds(r) == Send(r) \/ Respond(r) \/ Read(r) \/ Lose(r)

Next ==
  \/ \E r \in Requests :
       \/ \E d \in Deployments, c \in Calls : Begin(r, d, c)
       \/ CallProceeds(r) \/ Continue(r) \/ Disconnect(r)
  \/ Tick

\* A call is sent, and after 60 s it is over: neither upstream nor the network need
\* do anything.  The rest is as in RetryWithCooldown.
Fairness ==
  /\ \A r \in Requests : WF_vars(Send(r)) /\ WF_vars(Lose(r)) /\ WF_vars(Continue(r))
  /\ WF_vars(Tick)

Spec == Init /\ [][Next]_vars /\ Fairness
-----------------------------------------------------------------------------
\* A call made of these steps is the one step RetryWithCooldown makes of it, and
\* returns as RetryWithCooldown assumes: whatever upstream answers or fails to
\* answer, every method of HttpHandler ends with an outcome the loop handles, if
\* only because the timeout covers every stage of the call.
ImplementsLoop == Loop!Spec

\* Each time a request is sent again, upstream itself had refused it with 429 or 5xx:
\* a call whose answer was lost, came too late or could not be read may have been
\* carried out, and is not repeated.  So may one that was answered with 5xx, which is
\* repeated all the same.  Nothing is said of a stream of an adapter without a chunk
\* transformer: it is opened, given up and opened again in every attempt.  (That a
\* timeout is not repeated is against docs/adr/011-resilience-patterns.md:32; see
\* TransientErrorsRetried.)
RepeatedOnlyIfRefused ==
  \A r \in Requests :
    pc[r] # "new" /\ ~ OpenedInVain(call[r]) => attempt[r] <= refused[r]

\* The failures counted for a deployment are forgotten only when a call to it was
\* answered with 200, and only for an answer the adapter can read: openai takes no
\* other JSON for one, anthropic takes any.  A raw call counts before its body is
\* parsed, and a stream when it is opened, whatever comes of either later.
OnlyAnswersForgive ==
  [][\A d \in Deployments :
       failures'[d] < failures[d] =>
         \E r \in Requests :
           /\ deployment[r] = d
           /\ response'[r].status = "ok"
           /\ call[r].method = "complete" => response'[r].body # "text"
           /\ call[r].method = "complete" /\ call[r].adapter = "openai"
                => response'[r].body = "answer"
           /\ call[r].method = "stream" => Streams(call[r])]_vars

\* A request that upstream refused for now, with 429 or 5xx, is reported as failed only
\* when every retry had been used: with whatever body the refusal
\* comes on the routes of complete_raw and complete_stream_owned, and with a JSON
\* body on the chat route, where transform_response parses it first.
RefusalsRetried ==
  \A r \in Requests :
    /\ pc[r] \in {"failing", "marking", "failed"}
    /\ response[r].status \in {"throttled", "server"}
    /\ call[r].method = "complete" => response[r].body = "json"
    => attempt[r] = NumRetries

\* docs/adr/011-resilience-patterns.md:32: "可重试错误 (429, 5xx, 网络超时)", errors
\* that are retried are 429, 5xx and network timeouts, until num_retries is reached.
TransientErrorsRetried ==
  \A r \in Requests :
    /\ pc[r] \in {"failing", "marking", "failed"}
    /\ response[r].status \in {"throttled", "server", "timeout"}
    => attempt[r] = NumRetries
================================================================================
