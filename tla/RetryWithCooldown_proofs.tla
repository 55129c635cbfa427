------------------------ MODULE RetryWithCooldown_proofs ------------------------
(***************************************************************************)
(* Proofs about RetryWithCooldown, for every set of requests and           *)
(* deployments and every setting of the router.                            *)
(***************************************************************************)
EXTENDS RetryWithCooldown, FiniteSetTheorems, TLAPS

USE SettingsAssumption

\* The steps of the handlers, whoever schedules them.  What is shown of them is for the
\* modules that implement the loop, with a scheduling of their own.
Steps == Init /\ [][Next]_vars

\* A sleeping request has a retry left, which keeps attempt in its range.
Typed ==
  /\ TypeOK
  /\ \A r \in Requests : pc[r] = "sleeping" => attempt[r] < NumRetries

\* One step of any handler, or of the clock, keeps the types.
LEMMA StepTyped == Typed /\ [Next]_vars => Typed'
<1> SUFFICES ASSUME Typed, [Next]_vars
             PROVE  Typed'
  OBVIOUS
<1> USE DEF Typed, TypeOK, Running, Ended, Errors
<1>1. ASSUME NEW r \in Requests, NEW d \in Deployments, Begin(r, d)
      PROVE  Typed'
  BY <1>1 DEF Begin
<1>2. ASSUME NEW r \in Requests, Answered(r)
      PROVE  Typed'
  BY <1>2 DEF Answered
<1>3. ASSUME NEW r \in Requests, NEW e \in Errors, Retry(r, e)
      PROVE  Typed'
  <2>1. RetryDelay(attempt[r]) \in Nat
    OBVIOUS
  <2> QED
    BY <1>3, <2>1 DEF Retry, MayRetry
<1>4. ASSUME NEW r \in Requests, NEW e \in Errors, GiveUp(r, e)
      PROVE  Typed'
  BY <1>4 DEF GiveUp
<1>5. ASSUME NEW r \in Requests, Wake(r)
      PROVE  Typed'
  BY <1>5 DEF Wake
<1>6. ASSUME NEW r \in Requests, RecordFailure(r)
      PROVE  Typed'
  BY <1>6 DEF RecordFailure
<1>7. ASSUME NEW r \in Requests, Mark(r)
      PROVE  Typed'
  BY <1>7 DEF Mark
<1>8. ASSUME NEW r \in Requests, Disconnect(r)
      PROVE  Typed'
  BY <1>8 DEF Disconnect
<1>9. CASE Tick
  BY <1>9 DEF Tick, Elapse
<1>10. CASE UNCHANGED vars
  BY <1>10 DEF vars, calls
<1> QED
  BY <1>1, <1>2, <1>3, <1>4, <1>5, <1>6, <1>7, <1>8, <1>9, <1>10
  DEF Next, Serve, UpstreamReturns

\* TypeCorrect, of the steps alone.
LEMMA TypesKept == Steps => []TypeOK
<1>1. Init => Typed
  BY DEF Init, Typed, TypeOK
<1>2. Typed => TypeOK
  BY DEF Typed
<1> QED
  BY <1>1, <1>2, StepTyped, PTL DEF Steps

\* Every handler's variables have their types in every reachable state: attempt
\* never passes num_retries, and an upstream call always has a deployment.
THEOREM TypeCorrect == Spec => []TypeOK
  BY TypesKept, PTL DEF Spec, Steps

\* CooldownNeverLost, of the steps alone: what r counts is what r compares.
LEMMA CooldownsKept == Steps => []ThresholdTrips
<1>1. Init => ThresholdTrips
  BY DEF Init, ThresholdTrips
<1>2. TypeOK /\ ThresholdTrips /\ [Next]_vars => ThresholdTrips'
  <2> SUFFICES ASSUME TypeOK, ThresholdTrips, [Next]_vars,
                      NEW d \in Deployments,
                      failures'[d] > 0, failures'[d] >= AllowedFails
               PROVE  \/ tripped'[d]
                      \/ \E q \in Requests : deployment'[q] = d /\ pc'[q] = "marking"
    BY DEF ThresholdTrips
  <2> USE DEF TypeOK, ThresholdTrips, Running, Ended
  <2>1. ASSUME NEW r \in Requests, NEW c \in Deployments, Begin(r, c)
        PROVE  \/ tripped'[d]
               \/ \E q \in Requests : deployment'[q] = d /\ pc'[q] = "marking"
    BY <2>1 DEF Begin
  <2>2. ASSUME NEW r \in Requests, Answered(r)
        PROVE  \/ tripped'[d]
               \/ \E q \in Requests : deployment'[q] = d /\ pc'[q] = "marking"
    BY <2>2 DEF Answered
  <2>3. ASSUME NEW r \in Requests, NEW e \in Errors, Retry(r, e) \/ GiveUp(r, e)
        PROVE  \/ tripped'[d]
               \/ \E q \in Requests : deployment'[q] = d /\ pc'[q] = "marking"
    BY <2>3 DEF Retry, GiveUp
  <2>4. ASSUME NEW r \in Requests, Wake(r) \/ Disconnect(r)
        PROVE  \/ tripped'[d]
               \/ \E q \in Requests : deployment'[q] = d /\ pc'[q] = "marking"
    BY <2>4 DEF Wake, Disconnect
  <2>5. ASSUME NEW r \in Requests, RecordFailure(r)
        PROVE  \/ tripped'[d]
               \/ \E q \in Requests : deployment'[q] = d /\ pc'[q] = "marking"
    <3>1. CASE deployment[r] = d
      \* The count that reaches the threshold is the one r compares with it.
      BY <2>5, <3>1 DEF RecordFailure
    <3>2. CASE deployment[r] # d
      BY <2>5, <3>2 DEF RecordFailure
    <3> QED
      BY <3>1, <3>2
  <2>6. ASSUME NEW r \in Requests, Mark(r)
        PROVE  \/ tripped'[d]
               \/ \E q \in Requests : deployment'[q] = d /\ pc'[q] = "marking"
    <3>1. CASE deployment[r] = d
      BY <2>6, <3>1 DEF Mark
    <3>2. CASE deployment[r] # d
      BY <2>6, <3>2 DEF Mark
    <3> QED
      BY <3>1, <3>2
  <2>7. CASE Tick
    BY <2>7 DEF Tick
  <2>8. CASE UNCHANGED vars
    BY <2>8 DEF vars, calls
  <2> QED
    BY <2>1, <2>2, <2>3, <2>4, <2>5, <2>6, <2>7, <2>8 DEF Next, Serve, UpstreamReturns
<1> QED
  BY <1>1, <1>2, TypesKept, PTL DEF Steps

\* No interleaving loses a cooldown between record_failure and mark.
THEOREM CooldownNeverLost == Spec => []ThresholdTrips
  BY CooldownsKept, PTL DEF Spec, Steps

\* FailureIsFinal, of the steps alone.
LEMMA FailuresFinal == Steps => []FailsOnlyWhenExhausted
<1>1. Init => FailsOnlyWhenExhausted
  BY DEF Init, FailsOnlyWhenExhausted
<1>2. TypeOK /\ FailsOnlyWhenExhausted /\ [Next]_vars => FailsOnlyWhenExhausted'
  <2> SUFFICES ASSUME TypeOK, FailsOnlyWhenExhausted, [Next]_vars
               PROVE  FailsOnlyWhenExhausted'
    OBVIOUS
  <2> USE DEF TypeOK, FailsOnlyWhenExhausted
  <2>1. ASSUME NEW r \in Requests, NEW d \in Deployments, Begin(r, d)
        PROVE  FailsOnlyWhenExhausted'
    BY <2>1 DEF Begin
  <2>2. ASSUME NEW r \in Requests, NEW e \in Errors, GiveUp(r, e)
        PROVE  FailsOnlyWhenExhausted'
    \* The guard is the negation of MayRetry, and attempt is at most NumRetries.
    BY <2>2 DEF GiveUp, MayRetry, Errors, NoError
  <2>3. ASSUME NEW r \in Requests, NEW e \in Errors, Retry(r, e)
        PROVE  FailsOnlyWhenExhausted'
    BY <2>3 DEF Retry
  <2>4. ASSUME NEW r \in Requests, Answered(r) \/ Disconnect(r)
        PROVE  FailsOnlyWhenExhausted'
    BY <2>4 DEF Answered, Disconnect
  <2>5. ASSUME NEW r \in Requests, Wake(r)
        PROVE  FailsOnlyWhenExhausted'
    BY <2>5 DEF Wake
  <2>6. ASSUME NEW r \in Requests, RecordFailure(r) \/ Mark(r)
        PROVE  FailsOnlyWhenExhausted'
    BY <2>6 DEF RecordFailure, Mark
  <2>7. CASE Tick
    BY <2>7 DEF Tick
  <2>8. CASE UNCHANGED vars
    BY <2>8 DEF vars, calls
  <2> QED
    BY <2>1, <2>2, <2>3, <2>4, <2>5, <2>6, <2>7, <2>8 DEF Next, Serve, UpstreamReturns
<1> QED
  BY <1>1, <1>2, TypesKept, PTL DEF Steps

\* A request fails, and is counted, only on a final error or with no retry left.
THEOREM FailureIsFinal == Spec => []FailsOnlyWhenExhausted
  BY FailuresFinal, PTL DEF Spec, Steps
-----------------------------------------------------------------------------
(***************************************************************************)
(* CoolsOnlyAfterAllowedFails is not inductive: what lets a handler mark a *)
(* deployment is the counter, so the strengthening bounds the counter by   *)
(* the number of failed requests, and speaks of the handlers that are      *)
(* about to mark.                                                          *)
(***************************************************************************)
CountsFailedRequests ==
  \A d \in Deployments :
    /\ failures[d] <= Cardinality(FailedOn(d))
    /\ (IsCoolingDown(d) \/ \E r \in Requests : deployment[r] = d /\ pc[r] = "marking")
         => Cardinality(FailedOn(d)) >= AllowedFails

\* FailedOn(d) is a finite set, so that its cardinality is a number.
LEMMA FailedOnFinite ==
  ASSUME NEW d \in Deployments
  PROVE  IsFiniteSet(FailedOn(d)) /\ Cardinality(FailedOn(d)) \in Nat
<1>1. FailedOn(d) \subseteq Requests
  BY DEF FailedOn
<1> QED
  BY <1>1, RequestsAssumption, FS_Subset, FS_CardinalityType

\* CooldownIsEarned, of the steps alone.
LEMMA CooldownsEarned == Steps => []CoolsOnlyAfterAllowedFails
<1> DEFINE Same(d) == FailedOn(d)' = FailedOn(d)
<1>1. Init => CountsFailedRequests
  <2> SUFFICES ASSUME Init, NEW d \in Deployments
               PROVE  /\ failures[d] <= Cardinality(FailedOn(d))
                      /\ ~ IsCoolingDown(d)
                      /\ \A r \in Requests : pc[r] # "marking"
    BY DEF CountsFailedRequests
  <2> QED
    BY FailedOnFinite DEF Init, IsCoolingDown
<1>2. TypeOK /\ CountsFailedRequests /\ [Next]_vars => CountsFailedRequests'
  <2> SUFFICES ASSUME TypeOK, CountsFailedRequests, [Next]_vars,
                      NEW d \in Deployments
               PROVE  /\ failures'[d] <= Cardinality(FailedOn(d)')
                      /\ (\/ cooling'[d] > 0
                          \/ \E r \in Requests : deployment'[r] = d /\ pc'[r] = "marking")
                           => Cardinality(FailedOn(d)') >= AllowedFails
    BY DEF CountsFailedRequests, IsCoolingDown
  <2> DEFINE Goal ==
        /\ failures'[d] <= Cardinality(FailedOn(d)')
        /\ (\/ cooling'[d] > 0
            \/ \E r \in Requests : deployment'[r] = d /\ pc'[r] = "marking")
             => Cardinality(FailedOn(d)') >= AllowedFails
  <2>0. IsFiniteSet(FailedOn(d)) /\ Cardinality(FailedOn(d)) \in Nat
    BY FailedOnFinite
  <2> USE DEF TypeOK, CountsFailedRequests, IsCoolingDown, Running, Ended
  <2>1. ASSUME NEW r \in Requests, NEW c \in Deployments, Begin(r, c)
        PROVE  Goal
    <3>1. Same(d)
      BY <2>1 DEF Begin, FailedOn
    <3> QED
      BY <2>0, <2>1, <3>1 DEF Begin
  <2>2. ASSUME NEW r \in Requests, Answered(r)
        PROVE  Goal
    <3>1. Same(d)
      BY <2>2 DEF Answered, FailedOn
    <3> QED
      BY <2>0, <2>2, <3>1 DEF Answered
  <2>3. ASSUME NEW r \in Requests, NEW e \in Errors, Retry(r, e) \/ GiveUp(r, e)
        PROVE  Goal
    <3>1. Same(d)
      BY <2>3 DEF Retry, GiveUp, FailedOn
    <3> QED
      BY <2>0, <2>3, <3>1 DEF Retry, GiveUp
  <2>4. ASSUME NEW r \in Requests, Wake(r) \/ Disconnect(r)
        PROVE  Goal
    <3>1. Same(d)
      BY <2>4 DEF Wake, Disconnect, FailedOn
    <3> QED
      BY <2>0, <2>4, <3>1 DEF Wake, Disconnect
  <2>5. ASSUME NEW r \in Requests, RecordFailure(r)
        PROVE  Goal
    <3>1. CASE deployment[r] = d
      \* One more failed request, one more failure counted.
      <4>1. FailedOn(d)' = FailedOn(d) \union {r} /\ r \notin FailedOn(d)
        BY <2>5, <3>1 DEF RecordFailure, FailedOn
      <4>2. Cardinality(FailedOn(d)') = Cardinality(FailedOn(d)) + 1
        BY <2>0, <4>1, FS_AddElement
      <4>3. failures'[d] = failures[d] + 1 /\ cooling' = cooling
        BY <2>5, <3>1 DEF RecordFailure
      <4>4. pc'[r] = "marking" => failures[d] + 1 >= AllowedFails
        BY <2>5, <3>1 DEF RecordFailure
      <4>5. \A q \in Requests : q # r => pc'[q] = pc[q]
        BY <2>5 DEF RecordFailure
      <4>6. deployment' = deployment
        BY <2>5 DEF RecordFailure
      <4> QED
        BY <2>0, <4>2, <4>3, <4>4, <4>5, <4>6
    <3>2. CASE deployment[r] # d
      <4>1. Same(d)
        BY <2>5, <3>2 DEF RecordFailure, FailedOn
      <4> QED
        BY <2>0, <2>5, <3>2, <4>1 DEF RecordFailure
    <3> QED
      BY <3>1, <3>2
  <2>6. ASSUME NEW r \in Requests, Mark(r)
        PROVE  Goal
    <3>1. Same(d)
      BY <2>6 DEF Mark, FailedOn
    <3> QED
      BY <2>0, <2>6, <3>1 DEF Mark
  <2>7. CASE Tick
    <3>1. Same(d)
      BY <2>7 DEF Tick, FailedOn
    <3> QED
      BY <2>0, <2>7, <3>1 DEF Tick, Elapse
  <2>8. CASE UNCHANGED vars
    <3>1. Same(d)
      BY <2>8 DEF vars, calls, FailedOn
    <3> QED
      BY <2>0, <2>8, <3>1 DEF vars, calls
  <2> QED
    BY <2>1, <2>2, <2>3, <2>4, <2>5, <2>6, <2>7, <2>8 DEF Next, Serve, UpstreamReturns
<1>3. CountsFailedRequests => CoolsOnlyAfterAllowedFails
  BY DEF CountsFailedRequests, CoolsOnlyAfterAllowedFails
<1> QED
  BY <1>1, <1>2, <1>3, TypesKept, PTL DEF Steps

\* The breaker cools a deployment only after allowed_fails distinct requests to
\* it have failed.
THEOREM CooldownIsEarned == Spec => []CoolsOnlyAfterAllowedFails
  BY CooldownsEarned, PTL DEF Spec, Steps
-----------------------------------------------------------------------------
\* The breaker's view of the requests.
Verdicts == Among({"served", "unparsed", "marking", "failed"})
Dues == {<<r, deployment[r]>> : r \in Among({"marking"})}

\* A step that neither judges a request nor marks a deployment leaves the breaker's
\* view of the requests as it was.
LEMMA ViewKept ==
  ASSUME TypeOK, NEW r \in Requests, NEW p \in {"calling", "sleeping", "failing", "gone"},
         pc[r] \in {"new", "calling", "sleeping"}, pc' = [pc EXCEPT ![r] = p],
         \A q \in Requests \ {r} : deployment'[q] = deployment[q]
  PROVE  Verdicts' = Verdicts /\ Dues' = Dues
<1>1. \A q \in Requests : pc[q] \in {"marking"} <=> pc'[q] \in {"marking"}
  BY DEF TypeOK
<1>2. \A q \in Among({"marking"}) : deployment'[q] = deployment[q]
  BY DEF Among
<1>3. Verdicts' = Verdicts
  BY DEF Verdicts, Among, TypeOK
<1>4. Among({"marking"})' = Among({"marking"})
  BY <1>1 DEF Among
<1> QED
  BY <1>2, <1>3, <1>4 DEF Dues

\* A request that is judged.
LEMMA VerdictGiven ==
  ASSUME TypeOK, NEW r \in Requests, NEW p \in {"served", "unparsed", "marking", "failed"},
         pc[r] \in {"calling", "failing"}, pc' = [pc EXCEPT ![r] = p],
         deployment' = deployment
  PROVE  /\ r \notin Verdicts /\ Verdicts' = Verdicts \union {r}
         /\ Dues' = Dues \union {x \in {<<r, deployment[r]>>} : p = "marking"}
<1>1. r \notin Verdicts /\ Verdicts' = Verdicts \union {r}
  BY DEF Verdicts, Among, TypeOK
<1>2. Among({"marking"})' = Among({"marking"}) \union {q \in {r} : p = "marking"}
  BY DEF Among, TypeOK
<1> QED
  BY <1>1, <1>2 DEF Dues

\* BreakerImplemented, of the steps alone: each action is one of Breaker's, or invisible.
LEMMA BreakerSteps == Steps => ImplementsBreaker
<1> USE DEF Promise!Next, Promise!Judge, Promise!Succeed, Promise!Fail, Promise!Rest,
            Promise!TimePasses
<1>1. Init => Promise!Init
  BY DEF Init, Promise!Init, Among
<1>2. TypeOK /\ [Next]_vars => [Promise!Next]_<<Verdicts, failures, Dues, cooling>>
  <2> SUFFICES ASSUME TypeOK, [Next]_vars
               PROVE  Promise!Next \/ UNCHANGED <<Verdicts, failures, Dues, cooling>>
    OBVIOUS
  <2> DEFINE of(r) == deployment[r]
  <2>1. ASSUME NEW r \in Requests, NEW c \in Deployments, Begin(r, c)
        PROVE  UNCHANGED <<Verdicts, failures, Dues, cooling>>
    BY <2>1, ViewKept DEF Begin, TypeOK
  <2>2. ASSUME NEW r \in Requests, Answered(r)
        PROVE  Promise!Succeed(r, of(r))
    <3>1. PICK p \in {"served", "unparsed"} : pc' = [pc EXCEPT ![r] = p]
      BY <2>2 DEF Answered
    <3>2. /\ r \notin Verdicts /\ Verdicts' = Verdicts \union {r}
          /\ Dues' = Dues \union {x \in {<<r, of(r)>>} : p = "marking"}
      BY <2>2, <3>1, VerdictGiven DEF Answered
    <3>3. Dues' = Dues
      BY <3>1, <3>2
    <3> QED
      BY <2>2, <3>2, <3>3 DEF Answered, Verdicts, Dues
  <2>3. ASSUME NEW r \in Requests, NEW e \in Errors, Retry(r, e) \/ GiveUp(r, e)
        PROVE  UNCHANGED <<Verdicts, failures, Dues, cooling>>
    BY <2>3, ViewKept DEF Retry, GiveUp
  <2>4. ASSUME NEW r \in Requests, Wake(r) \/ Disconnect(r)
        PROVE  UNCHANGED <<Verdicts, failures, Dues, cooling>>
    BY <2>4, ViewKept DEF Wake, Disconnect
  <2>5. ASSUME NEW r \in Requests, RecordFailure(r)
        PROVE  Promise!Fail(r, of(r))
    <3>1. /\ pc[r] = "failing" /\ deployment' = deployment /\ cooling' = cooling
          /\ failures' = [failures EXCEPT ![of(r)] = @ + 1]
          /\ pc' = [pc EXCEPT ![r] =
                      IF failures[of(r)] + 1 >= AllowedFails THEN "marking" ELSE "failed"]
      BY <2>5 DEF RecordFailure, TypeOK
    <3>2. /\ r \notin Verdicts /\ Verdicts' = Verdicts \union {r}
          /\ Dues' = Dues \union {x \in {<<r, of(r)>>} : failures[of(r)] + 1 >= AllowedFails}
      BY <3>1, VerdictGiven
    <3> QED
      BY <3>1, <3>2 DEF Verdicts, Dues
  <2>6. ASSUME NEW r \in Requests, Mark(r)
        PROVE  Promise!Rest(r, of(r))
    <3>1. /\ pc[r] = "marking" /\ pc' = [pc EXCEPT ![r] = "failed"]
          /\ UNCHANGED <<deployment, failures>>
          /\ cooling' = [cooling EXCEPT ![of(r)] = CooldownTime]
      BY <2>6 DEF Mark
    <3>2. Verdicts' = Verdicts
      BY <3>1 DEF Verdicts, Among, TypeOK
    <3>3. Among({"marking"})' = Among({"marking"}) \ {r} /\ r \in Among({"marking"})
      BY <3>1 DEF Among, TypeOK
    <3>4. <<r, of(r)>> \in Dues /\ Dues' = Dues \ {<<r, of(r)>>}
      BY <3>1, <3>3 DEF Dues
    <3> QED
      BY <3>1, <3>2, <3>4 DEF Verdicts, Dues
  <2>7. CASE Tick
    <3>1. UNCHANGED <<Verdicts, failures, Dues>>
      BY <2>7 DEF Tick, Verdicts, Dues, Among
    <3>2. cooling' = [c \in Deployments |-> IF cooling[c] = 0 THEN 0 ELSE cooling[c] - 1]
      BY <2>7 DEF Tick, Elapse
    \* No streak is forgotten with a rest.
    <3>3. failures' = [c \in Deployments |-> IF c \in {} THEN 0 ELSE failures[c]]
      BY <3>1 DEF TypeOK
    <3>4. {} \in SUBSET {c \in Deployments : cooling[c] = 1}
      OBVIOUS
    <3> QED
      BY <3>1, <3>2, <3>3, <3>4 DEF Verdicts, Dues
  <2>8. CASE UNCHANGED vars
    BY <2>8 DEF vars, calls, Verdicts, Dues, Among
  <2>9. ASSUME NEW r \in Requests, of(r) \in Deployments,
               Promise!Succeed(r, of(r)) \/ Promise!Fail(r, of(r)) \/ Promise!Rest(r, of(r))
        PROVE  Promise!Next
    BY <2>9
  <2>10. \A r \in Requests : Answered(r) \/ RecordFailure(r) \/ Mark(r) => of(r) \in Deployments
    BY DEF TypeOK, Answered, RecordFailure, Mark
  <2> HIDE DEF of
  <2> QED
    BY <2>1, <2>2, <2>3, <2>4, <2>5, <2>6, <2>7, <2>8, <2>9, <2>10
    DEF Next, Serve, UpstreamReturns
<1> QED
  BY <1>1, <1>2, TypesKept, PTL DEF Steps, ImplementsBreaker, Promise!Spec, Verdicts, Dues

\* What the handlers do to the CooldownManager is what Breaker allows, for any number of
\* requests and deployments: a streak grows by one per failed request and ends with a
\* success, every failure that reaches the threshold brings a whole cooldown, and
\* nothing cuts it short.
THEOREM BreakerImplemented == Spec => ImplementsBreaker
  BY BreakerSteps, PTL DEF Spec, Steps
=============================================================================
