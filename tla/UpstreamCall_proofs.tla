-------------------------- MODULE UpstreamCall_proofs --------------------------
(***************************************************************************)
(* Proofs about UpstreamCall, for any number of requests and deployments,  *)
(* any calls among AllCalls and every setting of the router.               *)
(***************************************************************************)
EXTENDS UpstreamCall, FiniteSetTheorems, TLAPS

USE SettingsAssumption, CallsAssumption

-----------------------------------------------------------------------------
\* A step of a call is a step of the retry loop, or none that the loop sees.
LEMMA StepImplementsLoop == [Next]_vars => [Loop!Next]_(Loop!vars)
<1> SUFFICES ASSUME [Next]_vars
             PROVE  [Loop!Next]_(Loop!vars)
  OBVIOUS
<1>1. ASSUME UNCHANGED loopVars
      PROVE  UNCHANGED Loop!vars
  BY <1>1 DEF loopVars, Loop!vars, Loop!calls
<1>2. ASSUME NEW r \in Requests, NEW o, Ends(r, o)
      PROVE  Loop!Next
  BY <1>2 DEF Ends, Loop!Next, Loop!Serve, Loop!UpstreamReturns
<1>3. ASSUME NEW r \in Requests, NEW d \in Deployments, NEW c \in Calls, Begin(r, d, c)
      PROVE  Loop!Next
  BY <1>3 DEF Begin, Loop!Next
<1>4. ASSUME NEW r \in Requests, Send(r)
      PROVE  [Loop!Next]_(Loop!vars)
  BY <1>1, <1>2, <1>4 DEF Send
<1>5. ASSUME NEW r \in Requests, Respond(r)
      PROVE  [Loop!Next]_(Loop!vars)
  <2>1. PICK a \in Responses :
          IF call[r].method = "stream" /\ a.status = "ok"
            THEN Ends(r, IF Streams(call[r]) THEN "served" ELSE "timeout")
            ELSE UNCHANGED loopVars
    BY <1>5 DEF Respond
  <2> QED
    BY <1>1, <1>2, <2>1
<1>6. ASSUME NEW r \in Requests, Read(r) \/ Lose(r)
      PROVE  Loop!Next
  BY <1>2, <1>6 DEF Read, Lose
<1>7. ASSUME NEW r \in Requests, Continue(r) \/ Disconnect(r)
      PROVE  Loop!Next
  BY <1>7 DEF Continue, Disconnect, Loop!Next, Loop!Serve
<1>8. CASE Tick
  BY <1>8 DEF Tick, Loop!Next
<1>9. CASE UNCHANGED vars
  BY <1>1, <1>9 DEF vars
<1> QED
  BY <1>3, <1>4, <1>5, <1>6, <1>7, <1>8, <1>9 DEF Next, CallProceeds

\* A handler's steps inside one upstream call are steps of the retry loop, or none
\* that it sees: the initial states and the steps of RetryWithCooldown.
THEOREM CallsImplementLoop == Spec => Loop!Init /\ [][Loop!Next]_(Loop!vars)
<1>1. Init => Loop!Init
  BY DEF Init
<1> QED
  BY <1>1, StepImplementsLoop, PTL DEF Spec

-----------------------------------------------------------------------------
(***************************************************************************)
(* What is proved of RetryWithCooldown holds here too.  LoopProofs is the  *)
(* same loop, with its theorems.                                           *)
(***************************************************************************)
LoopProofs == INSTANCE RetryWithCooldown_proofs

LEMMA SameInit == Loop!Init => LoopProofs!Init
  BY DEF Loop!Init, LoopProofs!Init, Loop!NoError, LoopProofs!NoError

LEMMA SameStep == [Loop!Next]_(Loop!vars) => [LoopProofs!Next]_(LoopProofs!vars)
  BY DEF Loop!Next, LoopProofs!Next, Loop!vars, LoopProofs!vars,
     Loop!calls, LoopProofs!calls, Loop!Serve, LoopProofs!Serve,
     Loop!UpstreamReturns, LoopProofs!UpstreamReturns, Loop!Begin, LoopProofs!Begin,
     Loop!Answered, LoopProofs!Answered, Loop!Retry, LoopProofs!Retry,
     Loop!GiveUp, LoopProofs!GiveUp, Loop!Wake, LoopProofs!Wake,
     Loop!RecordFailure, LoopProofs!RecordFailure, Loop!Mark, LoopProofs!Mark,
     Loop!Disconnect, LoopProofs!Disconnect, Loop!Tick, LoopProofs!Tick,
     Loop!Elapse, LoopProofs!Elapse, Loop!RetryDelay, LoopProofs!RetryDelay,
     Loop!MayRetry, LoopProofs!MayRetry, Loop!IsRetryable, LoopProofs!IsRetryable,
     Loop!Errors, LoopProofs!Errors

\* The assumptions of RetryWithCooldown.
LEMMA SameSettings ==
  /\ \A n \in 0..NumRetries : LoopProofs!RetryDelay(n) \in Nat
  /\ LoopProofs!IsFiniteSet(Requests)
  BY SettingsAssumption, RequestsAssumption
  DEF LoopProofs!RetryDelay, Loop!RetryDelay, LoopProofs!IsFiniteSet, IsFiniteSet

LEMMA SameSteps == Loop!Init /\ [][Loop!Next]_(Loop!vars) => LoopProofs!Steps
  BY SameInit, SameStep, PTL DEF LoopProofs!Steps

LEMMA LoopSafe ==
  LoopProofs!Steps => [](/\ Loop!ThresholdTrips
                        /\ Loop!FailsOnlyWhenExhausted
                        /\ Loop!CoolsOnlyAfterAllowedFails)
<1>1. LoopProofs!Steps => []LoopProofs!ThresholdTrips
  BY SameSettings, SettingsAssumption, LoopProofs!CooldownsKept
<1>2. LoopProofs!Steps => []LoopProofs!FailsOnlyWhenExhausted
  BY SameSettings, SettingsAssumption, LoopProofs!FailuresFinal
<1>3. LoopProofs!Steps => []LoopProofs!CoolsOnlyAfterAllowedFails
  BY SameSettings, SettingsAssumption, LoopProofs!CooldownsEarned
<1>4. LoopProofs!ThresholdTrips => Loop!ThresholdTrips
  BY DEF LoopProofs!ThresholdTrips, Loop!ThresholdTrips
<1>5. LoopProofs!FailsOnlyWhenExhausted => Loop!FailsOnlyWhenExhausted
  BY DEF Loop!FailsOnlyWhenExhausted, LoopProofs!FailsOnlyWhenExhausted,
     Loop!NoError, LoopProofs!NoError, Loop!IsRetryable, LoopProofs!IsRetryable
<1>6. LoopProofs!CoolsOnlyAfterAllowedFails => Loop!CoolsOnlyAfterAllowedFails
  BY DEF Loop!CoolsOnlyAfterAllowedFails, LoopProofs!CoolsOnlyAfterAllowedFails,
     Loop!IsCoolingDown, LoopProofs!IsCoolingDown, Loop!FailedOn, LoopProofs!FailedOn,
     Loop!Cardinality, LoopProofs!Cardinality
<1> QED
  BY <1>1, <1>2, <1>3, <1>4, <1>5, <1>6, PTL

LEMMA LoopBreaks == LoopProofs!Steps => Loop!ImplementsBreaker
<1> DEFINE verdicts == Loop!Among({"served", "unparsed", "marking", "failed"})
           dues == {<<r, deployment[r]>> : r \in Loop!Among({"marking"})}
<1>1. LoopProofs!Steps => LoopProofs!ImplementsBreaker
  BY SameSettings, SettingsAssumption, LoopProofs!BreakerSteps
<1>2. /\ verdicts = LoopProofs!Verdicts /\ dues = LoopProofs!Dues
      /\ verdicts' = LoopProofs!Verdicts' /\ dues' = LoopProofs!Dues'
  BY DEF Loop!Among, LoopProofs!Among, LoopProofs!Verdicts, LoopProofs!Dues
<1>3. LoopProofs!Promise!Init => Loop!Promise!Init
  BY <1>2 DEF Loop!Promise!Init, LoopProofs!Promise!Init, LoopProofs!Verdicts, LoopProofs!Dues
<1>4. [LoopProofs!Promise!Next]_<<LoopProofs!Verdicts, failures, LoopProofs!Dues, cooling>>
        => [Loop!Promise!Next]_<<verdicts, failures, dues, cooling>>
  BY <1>2
  DEF Loop!Promise!Next, LoopProofs!Promise!Next,
     Loop!Promise!Judge, LoopProofs!Promise!Judge,
     Loop!Promise!Succeed, LoopProofs!Promise!Succeed,
     Loop!Promise!Fail, LoopProofs!Promise!Fail,
     Loop!Promise!Excuse, LoopProofs!Promise!Excuse,
     Loop!Promise!Rest, LoopProofs!Promise!Rest,
     Loop!Promise!TimePasses, LoopProofs!Promise!TimePasses,
      LoopProofs!Verdicts, LoopProofs!Dues
<1> QED
  BY <1>1, <1>3, <1>4, PTL
  DEF Loop!ImplementsBreaker, LoopProofs!ImplementsBreaker,
     Loop!Promise!Spec, LoopProofs!Promise!Spec, LoopProofs!Verdicts, LoopProofs!Dues

\* The circuit breaker fed by calls that are sent, answered, read, lost and abandoned
\* step by step still keeps what RetryWithCooldown shows of it: no cooldown is lost,
\* none comes before allowed_fails requests have failed, and a request fails only
\* on a final error or with its retries used.
THEOREM CallsKeepTheLoopSafe ==
  Spec => [](/\ Loop!ThresholdTrips
             /\ Loop!FailsOnlyWhenExhausted
             /\ Loop!CoolsOnlyAfterAllowedFails)
  BY CallsImplementLoop, SameSteps, LoopSafe, PTL

\* And with it, Breaker.
THEOREM CallsImplementBreaker == Spec => Loop!ImplementsBreaker
  BY CallsImplementLoop, SameSteps, LoopBreaks, PTL

-----------------------------------------------------------------------------
\* A sleeping request has a retry left, as in RetryWithCooldown.
LoopTyped ==
  /\ Loop!TypeOK
  /\ \A r \in Requests : pc[r] = "sleeping" => attempt[r] < NumRetries

\* Every step of the retry loop keeps the types of its variables.
LEMMA LoopStepTyped == LoopTyped /\ [Loop!Next]_(Loop!vars) => LoopTyped'
<1>1. LoopTyped <=> LoopProofs!Typed
  BY DEF LoopTyped, LoopProofs!Typed, Loop!TypeOK, LoopProofs!TypeOK, Loop!Running, LoopProofs!Running,
     Loop!Ended, LoopProofs!Ended, Loop!Errors, LoopProofs!Errors,
     Loop!NoError, LoopProofs!NoError
<1>2. LoopTyped' <=> LoopProofs!Typed'
  BY DEF LoopTyped, LoopProofs!Typed, Loop!TypeOK, LoopProofs!TypeOK, Loop!Running, LoopProofs!Running,
     Loop!Ended, LoopProofs!Ended, Loop!Errors, LoopProofs!Errors,
     Loop!NoError, LoopProofs!NoError
<1>3. LoopProofs!Typed /\ [LoopProofs!Next]_(LoopProofs!vars) => LoopProofs!Typed'
  BY SameSettings, SettingsAssumption, LoopProofs!StepTyped
<1> QED
  BY <1>1, <1>2, <1>3, SameStep

CallTyped ==
  /\ call \in [Requests -> Calls \union {NoCall}]
  /\ stage \in [Requests -> {"idle", "sent", "reading"}]
  /\ response \in [Requests -> Responses \union {TimedOut, Cut, NoResponse}]
  /\ refused \in [Requests -> Nat]
  /\ \A r \in Requests : pc[r] # "new" => call[r] \in Calls
  /\ \A r \in Requests : stage[r] # "idle" => pc[r] = "calling"
  /\ \A r \in Requests : stage[r] = "reading" => response[r] \in Responses

Typed == LoopTyped /\ CallTyped

\* How a method of HttpHandler gives the loop its outcome o: the request is
\* answered, sleeps before another attempt, or gives up; it sleeps only if o is
\* worth a retry, and gives up only if it is not or none is left.
LEMMA EndsEffect ==
  ASSUME Typed, NEW r \in Requests, NEW o, Ends(r, o)
  PROVE  /\ pc[r] = "calling"
         /\ stage' = [stage EXCEPT ![r] = "idle"]
         /\ attempt' = attempt
         /\ \E p \in {"served", "unparsed", "sleeping", "failing"} :
              /\ pc' = [pc EXCEPT ![r] = p]
              /\ p = "sleeping" => o \in {"throttled", "server", "timeout"}
              /\ p = "failing" /\ o \in {"throttled", "server", "timeout"}
                   => attempt[r] = NumRetries
<1>1. CASE Loop!Answered(r)
  BY <1>1 DEF Ends, Loop!Answered
<1>2. CASE Loop!Retry(r, o)
  BY <1>2 DEF Ends, Loop!Retry, Loop!MayRetry, Loop!IsRetryable
<1>3. CASE Loop!GiveUp(r, o)
  BY <1>3 DEF Ends, Loop!GiveUp, Loop!MayRetry, Loop!IsRetryable, Typed, LoopTyped, Loop!TypeOK
<1> QED
  BY <1>1, <1>2, <1>3 DEF Ends

\* The steps of the loop outside a call.
LEMMA ContinueEffect ==
  ASSUME Typed, NEW r \in Requests, Continue(r)
  PROVE  /\ UNCHANGED callVars
         /\ \/ /\ pc[r] = "sleeping"
               /\ pc' = [pc EXCEPT ![r] = "calling"]
               /\ attempt' = [attempt EXCEPT ![r] = @ + 1]
            \/ /\ pc[r] \in {"failing", "marking"}
               /\ \E p \in {"marking", "failed"} : pc' = [pc EXCEPT ![r] = p]
               /\ attempt' = attempt
<1>1. CASE Loop!Wake(r)
  BY <1>1 DEF Continue, Loop!Wake
<1>2. CASE Loop!RecordFailure(r)
  BY <1>2 DEF Continue, Loop!RecordFailure
<1>3. CASE Loop!Mark(r)
  BY <1>3 DEF Continue, Loop!Mark
<1> QED
  BY <1>1, <1>2, <1>3 DEF Continue

LEMMA InitTyped == Init => Typed
BY DEF Init, Typed, LoopTyped, CallTyped, Loop!Init, Loop!TypeOK

\* Every step keeps the types of the call's variables.
LEMMA StepTyped == Typed /\ [Next]_vars => Typed'
<1> SUFFICES ASSUME Typed, [Next]_vars
             PROVE  Typed'
  OBVIOUS
<1>1. LoopTyped'
  BY StepImplementsLoop, LoopStepTyped DEF Typed
<1>2. /\ pc \in [Requests -> {"new"} \union Loop!Running \union Loop!Ended]
      /\ attempt \in [Requests -> 0..NumRetries]
  BY DEF Typed, LoopTyped, Loop!TypeOK
<1> USE DEF CallTyped
<1>3. ASSUME NEW r \in Requests, NEW d \in Deployments, NEW c \in Calls, Begin(r, d, c)
      PROVE  CallTyped'
  BY <1>2, <1>3 DEF Typed, Begin, Loop!Begin
<1>4. ASSUME NEW r \in Requests, Send(r)
      PROVE  CallTyped'
  <2>1. CASE UNCHANGED loopVars /\ stage' = [stage EXCEPT ![r] = "sent"]
    BY <1>2, <1>4, <2>1 DEF Typed, Send, loopVars
  <2>2. CASE Ends(r, "unreadable")
    BY <1>2, <1>4, <2>2, EndsEffect DEF Typed, Send
  <2> QED
    BY <1>4, <2>1, <2>2 DEF Send
<1>5. ASSUME NEW r \in Requests, Respond(r)
      PROVE  CallTyped'
  <2>1. PICK a \in Responses :
          /\ response' = [response EXCEPT ![r] = a]
          /\ refused' = IF Refuses(a) THEN [refused EXCEPT ![r] = @ + 1] ELSE refused
          /\ IF call[r].method = "stream" /\ a.status = "ok"
               THEN Ends(r, IF Streams(call[r]) THEN "served" ELSE "timeout")
               ELSE stage' = [stage EXCEPT ![r] = "reading"] /\ UNCHANGED loopVars
    BY <1>5 DEF Respond
  <2>2. refused' \in [Requests -> Nat]
    BY <2>1 DEF Typed
  <2>3. CASE UNCHANGED loopVars /\ stage' = [stage EXCEPT ![r] = "reading"]
    BY <1>2, <1>5, <2>1, <2>2, <2>3 DEF Typed, Respond, loopVars
  <2>4. CASE Ends(r, IF Streams(call[r]) THEN "served" ELSE "timeout")
    BY <1>2, <1>5, <2>1, <2>2, <2>4, EndsEffect DEF Typed, Respond
  <2> QED
    BY <2>1, <2>3, <2>4
<1>6. ASSUME NEW r \in Requests, Read(r)
      PROVE  CallTyped'
  BY <1>2, <1>6, EndsEffect DEF Typed, Read
<1>7. ASSUME NEW r \in Requests, Lose(r)
      PROVE  CallTyped'
  <2>1. refused' = refused
    BY <1>7 DEF Lose
  <2>2. PICK a \in {TimedOut, Cut} : response' = [response EXCEPT ![r] = a]
    BY <1>7 DEF Lose
  <2>3. PICK p \in {"served", "unparsed", "sleeping", "failing"} :
          pc' = [pc EXCEPT ![r] = p]
    BY <1>7, EndsEffect DEF Lose
  <2>4. stage' = [stage EXCEPT ![r] = "idle"] /\ pc[r] = "calling" /\ call' = call
    BY <1>7, EndsEffect DEF Lose
  <2> QED
    BY <1>2, <2>1, <2>2, <2>3, <2>4 DEF Typed
<1>8. ASSUME NEW r \in Requests, Continue(r)
      PROVE  CallTyped'
  BY <1>2, <1>8, ContinueEffect DEF Typed, callVars
<1>9. ASSUME NEW r \in Requests, Disconnect(r)
      PROVE  CallTyped'
  BY <1>2, <1>9 DEF Typed, Disconnect, Loop!Disconnect
<1>10. ASSUME Tick
       PROVE  CallTyped'
  BY <1>10 DEF Typed, Tick, Loop!Tick, callVars
<1>11. ASSUME UNCHANGED vars
       PROVE  CallTyped'
  BY <1>11 DEF Typed, vars, loopVars, callVars
<1> QED
  BY <1>1, <1>3, <1>4, <1>5, <1>6, <1>7, <1>8, <1>9, <1>10, <1>11
  DEF Typed, Next, CallProceeds

\* The variables of the loop and of the calls in it keep their types: no call is
\* left half done when the loop goes on.
THEOREM TypeCorrect == Spec => []TypeOK
<1>1. Typed => TypeOK
  BY DEF Typed, LoopTyped, CallTyped, TypeOK
<1> QED
  BY <1>1, InitTyped, StepTyped, PTL DEF Spec

-----------------------------------------------------------------------------
\* Upstream refused the call that r makes now, or made before it went to sleep.
JustRefused(r) ==
  pc[r] = "sleeping" \/ (stage[r] = "reading" /\ Refuses(response[r]))

\* The invariant: there is a refusal behind every repetition, and one more behind the
\* attempt that may be followed by another.
Backed ==
  \A r \in Requests :
    /\ pc[r] = "new" => attempt[r] = 0
    /\ pc[r] # "new" /\ ~ OpenedInVain(call[r]) =>
         /\ attempt[r] <= refused[r]
         /\ JustRefused(r) => attempt[r] + 1 <= refused[r]

\* The body of an answer never makes an error of it that is retried: only the status
\* of a refusal does.
LEMMA RetriedOutcomes ==
  ASSUME NEW c \in AllCalls, NEW a \in Responses,
         Outcome(c, a) \in {"throttled", "server", "timeout"}
  PROVE  Refuses(a)
  BY DEF Outcome, TransformResponse, RawResponse, AllCalls, Responses, Refuses

LEMMA StepBacked == Typed /\ Backed /\ [Next]_vars => Backed'
<1> SUFFICES ASSUME Typed, Backed, [Next]_vars, NEW q \in Requests
             PROVE  Backed!(q)'
  BY DEF Backed
<1>1. /\ pc \in [Requests -> {"new"} \union Loop!Running \union Loop!Ended]
      /\ attempt \in [Requests -> Nat]
      /\ CallTyped
  BY DEF Typed, LoopTyped, Loop!TypeOK
<1> USE DEF CallTyped, Backed, JustRefused
<1>2. ASSUME UNCHANGED <<pc[q], attempt[q], call[q], stage[q], response[q], refused[q]>>
      PROVE  Backed!(q)'
  BY <1>2 DEF OpenedInVain, Streams, Refuses
<1>3. ASSUME NEW r \in Requests, NEW d \in Deployments, NEW c \in Calls, Begin(r, d, c)
      PROVE  Backed!(q)'
  BY <1>1, <1>3 DEF Begin, Loop!Begin
<1>4. ASSUME NEW r \in Requests, Send(r)
      PROVE  Backed!(q)'
  <2>1. CASE UNCHANGED loopVars /\ stage' = [stage EXCEPT ![r] = "sent"]
    BY <1>1, <1>4, <2>1 DEF Send, loopVars
  <2>2. CASE Ends(r, "unreadable")
    BY <1>1, <1>4, <2>2, EndsEffect DEF Send
  <2> QED
    BY <1>4, <2>1, <2>2 DEF Send
<1>5. ASSUME NEW r \in Requests, Respond(r)
      PROVE  Backed!(q)'
  <2>1. PICK a \in Responses :
          /\ response' = [response EXCEPT ![r] = a]
          /\ refused' = IF Refuses(a) THEN [refused EXCEPT ![r] = @ + 1] ELSE refused
          /\ IF call[r].method = "stream" /\ a.status = "ok"
               THEN Ends(r, IF Streams(call[r]) THEN "served" ELSE "timeout")
               ELSE stage' = [stage EXCEPT ![r] = "reading"] /\ UNCHANGED loopVars
    BY <1>5 DEF Respond
  <2>2. CASE ~ (call[r].method = "stream" /\ a.status = "ok")
    BY <1>1, <1>5, <2>1, <2>2 DEF Respond, loopVars
  <2>3. CASE call[r].method = "stream" /\ a.status = "ok"
    <3>1. refused' = refused /\ call' = call /\ pc[r] = "calling"
      BY <1>5, <2>1, <2>3 DEF Respond, Refuses
    <3>2. CASE Streams(call[r])
      BY <1>1, <2>1, <2>3, <3>1, <3>2, EndsEffect
    <3>3. CASE ~ Streams(call[r])
      BY <1>1, <2>1, <2>3, <3>1, <3>3, EndsEffect DEF OpenedInVain
    <3> QED
      BY <3>2, <3>3
  <2> QED
    BY <2>2, <2>3
<1>6. ASSUME NEW r \in Requests, Read(r)
      PROVE  Backed!(q)'
  <2>1. call[r] \in AllCalls /\ response[r] \in Responses
    BY <1>1, <1>6 DEF Read
  <2>2. Outcome(call[r], response[r]) \in {"throttled", "server", "timeout"} => JustRefused(r)
    BY <1>6, <2>1, RetriedOutcomes DEF Read
  <2> QED
    BY <1>1, <1>6, <2>1, <2>2, EndsEffect DEF Read
<1>7. ASSUME NEW r \in Requests, Lose(r)
      PROVE  Backed!(q)'
  BY <1>1, <1>7, EndsEffect DEF Lose
<1>8. ASSUME NEW r \in Requests, Continue(r)
      PROVE  Backed!(q)'
  BY <1>1, <1>8, ContinueEffect DEF callVars
<1>9. ASSUME NEW r \in Requests, Disconnect(r)
      PROVE  Backed!(q)'
  BY <1>1, <1>9 DEF Disconnect, Loop!Disconnect
<1>10. ASSUME Tick
       PROVE  Backed!(q)'
  BY <1>2, <1>10 DEF Tick, Loop!Tick, callVars
<1>11. ASSUME UNCHANGED vars
       PROVE  Backed!(q)'
  BY <1>2, <1>11 DEF vars, loopVars, callVars
<1> QED
  BY <1>3, <1>4, <1>5, <1>6, <1>7, <1>8, <1>9, <1>10, <1>11 DEF Next, CallProceeds

\* What a step of the loop does to the failure counters.
LEMMA CountersFollow ==
  ASSUME Typed, NEW d \in Deployments, NEW r \in Requests, failures'[d] < failures[d]
  PROVE  /\ \A o : Ends(r, o) => deployment[r] = d /\ o \in {"served", "unparsed"}
         /\ ~ Continue(r)
<1>1. failures \in [Deployments -> Nat] /\ pc \in [Requests -> {"new"} \union Loop!Running \union Loop!Ended]
  BY DEF Typed, LoopTyped, Loop!TypeOK
<1>2. ASSUME NEW o, Ends(r, o)
      PROVE  deployment[r] = d /\ o \in {"served", "unparsed"}
  <2>1. CASE Loop!Answered(r) /\ pc'[r] = o
    BY <1>1, <1>2, <2>1 DEF Loop!Answered
  <2>2. CASE Loop!Retry(r, o) \/ Loop!GiveUp(r, o)
    BY <1>1, <1>2, <2>2 DEF Loop!Retry, Loop!GiveUp
  <2> QED
    BY <1>2, <2>1, <2>2 DEF Ends
<1>3. ASSUME Continue(r)
      PROVE  FALSE
  BY <1>1, <1>3 DEF Continue, Loop!Wake, Loop!RecordFailure, Loop!Mark
<1> QED
  BY <1>2, <1>3

\* OnlyAnswersForgive: no error, lost answer or unreadable body of a chat request
\* resets the failure counter of a deployment.
THEOREM ForgivenForAnswers == Spec => OnlyAnswersForgive
<1> DEFINE Answers(d) ==
             \E r \in Requests :
               /\ deployment[r] = d
               /\ response'[r].status = "ok"
               /\ call[r].method = "complete" => response'[r].body # "text"
               /\ call[r].method = "complete" /\ call[r].adapter = "openai"
                    => response'[r].body = "answer"
               /\ call[r].method = "stream" => Streams(call[r])
<1>1. ASSUME Typed, [Next]_vars, NEW d \in Deployments, failures'[d] < failures[d]
      PROVE  Answers(d)
  <2>1. failures \in [Deployments -> Nat] /\ CallTyped
    BY <1>1 DEF Typed, LoopTyped, Loop!TypeOK
  <2>2. ASSUME NEW r \in Requests, NEW o, Ends(r, o)
        PROVE  deployment[r] = d /\ o \in {"served", "unparsed"}
    BY <1>1, <2>2, CountersFollow
  <2>3. ASSUME NEW r \in Requests, Respond(r)
        PROVE  Answers(d)
    <3>1. PICK a \in Responses :
            /\ response' = [response EXCEPT ![r] = a]
            /\ IF call[r].method = "stream" /\ a.status = "ok"
                 THEN Ends(r, IF Streams(call[r]) THEN "served" ELSE "timeout")
                 ELSE UNCHANGED loopVars
      BY <2>3 DEF Respond
    <3>2. response'[r] = a
      BY <2>1, <3>1 DEF CallTyped
    <3>3. CASE call[r].method = "stream" /\ a.status = "ok"
      <4>1. deployment[r] = d /\ (IF Streams(call[r]) THEN "served" ELSE "timeout") \in {"served", "unparsed"}
        BY <2>2, <3>1, <3>3
      <4> QED
        BY <3>2, <3>3, <4>1
    <3>4. CASE UNCHANGED loopVars
      BY <1>1, <2>1, <3>4 DEF loopVars
    <3> QED
      BY <3>1, <3>3, <3>4
  <2>4. ASSUME NEW r \in Requests, Read(r)
        PROVE  Answers(d)
    <3>1. /\ Ends(r, Outcome(call[r], response[r])) /\ response' = response
          /\ call[r] \in AllCalls /\ response[r] \in Responses
      BY <2>1, <2>4 DEF Read, CallTyped
    <3>2. deployment[r] = d /\ Outcome(call[r], response[r]) \in {"served", "unparsed"}
      BY <2>2, <3>1
    <3>3. call[r].method # "stream"
      BY <3>1, <3>2 DEF Outcome, AllCalls, Responses
    <3>4. response[r].status = "ok"
      BY <3>1, <3>2 DEF Outcome, TransformResponse, RawResponse, AllCalls, Responses
    <3>5. call[r].method = "complete" =>
            /\ response[r].body # "text"
            /\ call[r].adapter = "openai" => response[r].body = "answer"
      BY <3>1, <3>2 DEF Outcome, TransformResponse, AllCalls, Responses
    <3> QED
      BY <3>1, <3>2, <3>3, <3>4, <3>5
  <2>5. ASSUME NEW r \in Requests, Send(r) \/ Lose(r)
        PROVE  FALSE
    <3>1. UNCHANGED loopVars \/ Ends(r, "unreadable") \/ Ends(r, "transport")
      BY <2>5 DEF Send, Lose
    <3> QED
      BY <1>1, <2>1, <2>2, <3>1 DEF loopVars
  <2>6. ASSUME NEW r \in Requests, Continue(r)
        PROVE  FALSE
    BY <1>1, <2>6, CountersFollow
  <2>7. CASE UNCHANGED failures
    BY <1>1, <2>1, <2>7
  <2>8. ASSUME \/ \E r \in Requests : Disconnect(r) \/ \E c \in Deployments, x \in Calls : Begin(r, c, x)
               \/ Tick
               \/ UNCHANGED vars
        PROVE  UNCHANGED failures
    BY <2>8 DEF Disconnect, Loop!Disconnect, Begin, Loop!Begin, Tick, Loop!Tick, vars, loopVars
  <2> QED
    BY <1>1, <2>3, <2>4, <2>5, <2>6, <2>7, <2>8 DEF Next, CallProceeds
<1>2. Typed /\ [Next]_vars =>
        [\A d \in Deployments : failures'[d] < failures[d] => Answers(d)]_vars
  BY <1>1
<1> QED
  BY <1>2, InitTyped, StepTyped, PTL DEF Spec, OnlyAnswersForgive

\* Every repetition of a request follows a refusal by upstream, whatever upstream did
\* with the calls it refused, answered or lost.
THEOREM RepeatsRefusalsOnly == Spec => []RepeatedOnlyIfRefused
<1>1. Init => Backed
  BY DEF Init, Loop!Init, Backed
<1>2. Backed => RepeatedOnlyIfRefused
  BY DEF Backed, RepeatedOnlyIfRefused
<1> QED
  BY <1>1, <1>2, InitTyped, StepTyped, StepBacked, PTL DEF Spec

-----------------------------------------------------------------------------
\* A call that was refused ends with an error that is retried.
LEMMA StepRefusals == Typed /\ RefusalsRetried /\ [Next]_vars => RefusalsRetried'
<1> SUFFICES ASSUME Typed, RefusalsRetried, [Next]_vars, NEW q \in Requests
             PROVE  RefusalsRetried!(q)'
  BY DEF RefusalsRetried
<1>1. /\ pc \in [Requests -> {"new"} \union Loop!Running \union Loop!Ended]
      /\ attempt \in [Requests -> 0..NumRetries]
      /\ CallTyped
  BY DEF Typed, LoopTyped, Loop!TypeOK
<1> USE DEF CallTyped, RefusalsRetried
<1>2. ASSUME UNCHANGED <<pc[q], attempt[q], call[q], response[q]>>
      PROVE  RefusalsRetried!(q)'
  BY <1>2
<1>3. ASSUME NEW r \in Requests, NEW d \in Deployments, NEW c \in Calls, Begin(r, d, c)
      PROVE  RefusalsRetried!(q)'
  BY <1>1, <1>3 DEF Begin, Loop!Begin
<1>4. ASSUME NEW r \in Requests, Send(r)
      PROVE  RefusalsRetried!(q)'
  <2>1. CASE UNCHANGED loopVars
    BY <1>1, <1>4, <2>1 DEF Send, loopVars, NoResponse
  <2>2. CASE Ends(r, "unreadable")
    BY <1>1, <1>4, <2>2, EndsEffect DEF Send, NoResponse
  <2> QED
    BY <1>4, <2>1, <2>2 DEF Send
<1>5. ASSUME NEW r \in Requests, Respond(r)
      PROVE  RefusalsRetried!(q)'
  <2>1. PICK a \in Responses :
          /\ response' = [response EXCEPT ![r] = a]
          /\ IF call[r].method = "stream" /\ a.status = "ok"
               THEN Ends(r, IF Streams(call[r]) THEN "served" ELSE "timeout")
               ELSE UNCHANGED loopVars
    BY <1>5 DEF Respond
  <2>2. CASE ~ (call[r].method = "stream" /\ a.status = "ok")
    BY <1>1, <1>5, <2>1, <2>2 DEF Respond, loopVars
  <2>3. CASE call[r].method = "stream" /\ a.status = "ok"
    BY <1>1, <1>5, <2>1, <2>3, EndsEffect DEF Respond
  <2> QED
    BY <2>2, <2>3
<1>6. ASSUME NEW r \in Requests, Read(r)
      PROVE  RefusalsRetried!(q)'
  <2>1. call[r] \in AllCalls /\ response[r] \in Responses
    BY <1>1, <1>6 DEF Read
  \* A refusal that the property is about has the outcome of its status.
  <2>2. /\ response[r].status \in {"throttled", "server"}
        /\ call[r].method = "complete" => response[r].body = "json"
        => Outcome(call[r], response[r]) = response[r].status
    BY <2>1 DEF Outcome, TransformResponse, RawResponse, AllCalls
  <2>3. PICK p \in {"served", "unparsed", "sleeping", "failing"} :
          /\ pc' = [pc EXCEPT ![r] = p]
          /\ p = "failing" /\ Outcome(call[r], response[r]) \in {"throttled", "server", "timeout"}
               => attempt[r] = NumRetries
    BY <1>6, EndsEffect DEF Read
  <2>4. UNCHANGED <<attempt, call, response>>
    BY <1>6, EndsEffect DEF Read
  <2> QED
    BY <1>1, <2>2, <2>3, <2>4
<1>7. ASSUME NEW r \in Requests, Lose(r)
      PROVE  RefusalsRetried!(q)'
  BY <1>1, <1>7, EndsEffect DEF Lose, TimedOut, Cut
<1>8. ASSUME NEW r \in Requests, Continue(r)
      PROVE  RefusalsRetried!(q)'
  BY <1>1, <1>8, ContinueEffect DEF callVars
<1>9. ASSUME NEW r \in Requests, Disconnect(r)
      PROVE  RefusalsRetried!(q)'
  BY <1>1, <1>9 DEF Disconnect, Loop!Disconnect
<1>10. CASE Tick \/ UNCHANGED vars
  BY <1>2, <1>10 DEF Tick, Loop!Tick, callVars, vars, loopVars
<1> QED
  BY <1>3, <1>4, <1>5, <1>6, <1>7, <1>8, <1>9, <1>10 DEF Next, CallProceeds

\* RefusalsRetried: a 429 or 5xx that the adapter can tell from an unreadable answer
\* never ends a request while retries are left.
THEOREM RefusedToTheEnd == Spec => []RefusalsRetried
<1>1. Init => RefusalsRetried
  BY DEF Init, Loop!Init, RefusalsRetried
<1> QED
  BY <1>1, InitTyped, StepTyped, StepRefusals, PTL DEF Spec
================================================================================
