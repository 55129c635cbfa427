---------------------------- MODULE Dispatch_proofs ----------------------------
(***************************************************************************)
(* Proofs about Dispatch, for every set of configurations and of requests. *)
(*                                                                         *)
(* The handlers mark only ids that begin with "resolved", so no id the     *)
(* Router asks about ever cools down (NothingCools).  It follows that the  *)
(* filter keeps every candidate, that the strategy never gets an empty     *)
(* list, and that it chooses as if there were no circuit breaker           *)
(* (Routing, the inductive invariant).                                     *)
(***************************************************************************)
EXTENDS Dispatch, FiniteSetTheorems, WellFoundedInduction, TLAPS

LEMMA IdsDiffer ==
  ASSUME NEW e \in ListedEntries, NEW m
  PROVE  RouterId(e) # HandlerId(m)
  BY ConfigsAssumption DEF RouterId, HandlerId, DeploymentId

LEMMA RouterIdsKnown ==
  ASSUME NEW e \in ListedEntries
  PROVE  RouterId(e) \in DeploymentIds
  BY DEF DeploymentIds

LEMMA ListedAt ==
  ASSUME config \in Configs, NEW i \in Positions
  PROVE  config.model_list[i] \in ListedEntries
  BY ConfigsAssumption DEF Positions, ListedEntries

\* What resolving a provider does to the state of the retry loop.
LEMMA ResolveEntersLoop ==
  ASSUME NEW r \in Requests, Resolve(r)
  PROVE  /\ config' = config
         /\ UNCHANGED loopVars \/ \E m : Loop!Begin(r, HandlerId(m))
<1>1. ASSUME NEW a, NEW i, Route(r, a, i)
      PROVE  UNCHANGED loopVars \/ Loop!Begin(r, HandlerId(a.model))
  BY <1>1 DEF Route, Proceed, Reject
<1>2. CASE Accept(r)
  <2>1. config' = config
    BY <1>2 DEF Accept
  <2>2. PICK a \in Asks :
          \/ Reject(r)
          \/ \E i \in Candidates(config.model_list, a.model) : Route(r, a, i)
          \/ UNCHANGED loopVars
    BY <1>2 DEF Accept
  <2> QED
    BY <2>1, <2>2, <1>1 DEF Reject
<1>3. CASE Filter(r)
  BY <1>3 DEF Filter
<1>4. CASE Choose(r)
  BY <1>4, <1>1 DEF Choose
<1>5. CASE FallBack(r)
  BY <1>5, <1>1 DEF FallBack, Reject
<1> QED
  BY <1>2, <1>3, <1>4, <1>5 DEF Resolve
-----------------------------------------------------------------------------
(***************************************************************************)
(* What is proved of RetryWithCooldown holds here too.  LoopProofs is the  *)
(* same loop, with its theorems.                                           *)
(***************************************************************************)
LoopProofs == INSTANCE RetryWithCooldown_proofs
                WITH Deployments <- DeploymentIds, NoDeployment <- DeploymentId("none", "none")

LEMMA SameInit == Loop!Init => LoopProofs!Init
  BY DEF Loop!Init, LoopProofs!Init, Loop!NoError, LoopProofs!NoError

LEMMA SameStep == [Loop!Next]_(Loop!vars) => [LoopProofs!Next]_(LoopProofs!vars)
  BY DEF Loop!Next, LoopProofs!Next, Loop!vars, LoopProofs!vars,
     Loop!calls, LoopProofs!calls, Loop!Serve, LoopProofs!Serve,
     Loop!UpstreamReturns, LoopProofs!UpstreamReturns, Loop!Begin, LoopProofs!Begin,
     Loop!Answered, LoopProofs!Answered, Loop!Retry, LoopProofs!Retry,
     Loop!GiveUp, LoopProofs!GiveUp, Loop!Wake, LoopProofs!Wake,
     Loop!RecordFailure, LoopProofs!RecordFailure, Loop!Mark, LoopProofs!Mark,
     Loop!Disconnect, LoopProofs!Disconnect, Loop!Tick, LoopProofs!Tick,
     Loop!Elapse, LoopProofs!Elapse, Loop!RetryDelay, LoopProofs!RetryDelay,
     Loop!MayRetry, LoopProofs!MayRetry, Loop!IsRetryable, LoopProofs!IsRetryable,
     Loop!Errors, LoopProofs!Errors

\* The assumptions of RetryWithCooldown.
LEMMA SameSettings ==
  /\ \A n \in 0..NumRetries : LoopProofs!RetryDelay(n) \in Nat
  /\ LoopProofs!IsFiniteSet(Requests)
  BY SettingsAssumption, RequestsAssumption
  DEF LoopProofs!RetryDelay, Loop!RetryDelay, LoopProofs!IsFiniteSet, IsFiniteSet

LEMMA SameSteps == Loop!Init /\ [][Loop!Next]_(Loop!vars) => LoopProofs!Steps
  BY SameInit, SameStep, PTL DEF LoopProofs!Steps

LEMMA LoopSafe ==
  LoopProofs!Steps => [](/\ Loop!ThresholdTrips
                        /\ Loop!FailsOnlyWhenExhausted
                        /\ Loop!CoolsOnlyAfterAllowedFails)
<1>1. LoopProofs!Steps => []LoopProofs!ThresholdTrips
  BY SameSettings, SettingsAssumption, LoopProofs!CooldownsKept
<1>2. LoopProofs!Steps => []LoopProofs!FailsOnlyWhenExhausted
  BY SameSettings, SettingsAssumption, LoopProofs!FailuresFinal
<1>3. LoopProofs!Steps => []LoopProofs!CoolsOnlyAfterAllowedFails
  BY SameSettings, SettingsAssumption, LoopProofs!CooldownsEarned
<1>4. LoopProofs!ThresholdTrips => Loop!ThresholdTrips
  BY DEF LoopProofs!ThresholdTrips, Loop!ThresholdTrips
<1>5. LoopProofs!FailsOnlyWhenExhausted => Loop!FailsOnlyWhenExhausted
  BY DEF Loop!FailsOnlyWhenExhausted, LoopProofs!FailsOnlyWhenExhausted,
     Loop!NoError, LoopProofs!NoError, Loop!IsRetryable, LoopProofs!IsRetryable
<1>6. LoopProofs!CoolsOnlyAfterAllowedFails => Loop!CoolsOnlyAfterAllowedFails
  BY DEF Loop!CoolsOnlyAfterAllowedFails, LoopProofs!CoolsOnlyAfterAllowedFails,
     Loop!IsCoolingDown, LoopProofs!IsCoolingDown, Loop!FailedOn, LoopProofs!FailedOn,
     Loop!Cardinality, LoopProofs!Cardinality
<1> QED
  BY <1>1, <1>2, <1>3, <1>4, <1>5, <1>6, PTL

LEMMA LoopBreaks == LoopProofs!Steps => Loop!ImplementsBreaker
<1> DEFINE verdicts == Loop!Among({"served", "unparsed", "marking", "failed"})
           dues == {<<r, deployment[r]>> : r \in Loop!Among({"marking"})}
<1>1. LoopProofs!Steps => LoopProofs!ImplementsBreaker
  BY SameSettings, SettingsAssumption, LoopProofs!BreakerSteps
<1>2. /\ verdicts = LoopProofs!Verdicts /\ dues = LoopProofs!Dues
      /\ verdicts' = LoopProofs!Verdicts' /\ dues' = LoopProofs!Dues'
  BY DEF Loop!Among, LoopProofs!Among, LoopProofs!Verdicts, LoopProofs!Dues
<1>3. LoopProofs!Promise!Init => Loop!Promise!Init
  BY <1>2 DEF Loop!Promise!Init, LoopProofs!Promise!Init, LoopProofs!Verdicts, LoopProofs!Dues
<1>4. [LoopProofs!Promise!Next]_<<LoopProofs!Verdicts, failures, LoopProofs!Dues, cooling>>
        => [Loop!Promise!Next]_<<verdicts, failures, dues, cooling>>
  BY <1>2
  DEF Loop!Promise!Next, LoopProofs!Promise!Next,
     Loop!Promise!Judge, LoopProofs!Promise!Judge,
     Loop!Promise!Succeed, LoopProofs!Promise!Succeed,
     Loop!Promise!Fail, LoopProofs!Promise!Fail,
     Loop!Promise!Excuse, LoopProofs!Promise!Excuse,
     Loop!Promise!Rest, LoopProofs!Promise!Rest,
     Loop!Promise!TimePasses, LoopProofs!Promise!TimePasses,
      LoopProofs!Verdicts, LoopProofs!Dues
<1> QED
  BY <1>1, <1>3, <1>4, PTL
  DEF Loop!ImplementsBreaker, LoopProofs!ImplementsBreaker,
     Loop!Promise!Spec, LoopProofs!Promise!Spec, LoopProofs!Verdicts, LoopProofs!Dues

-----------------------------------------------------------------------------
\* Every deployment a handler counts failures for has a handler's id, and none of
\* the Router's ids cools down.
NothingCools ==
  /\ pc = [r \in Requests |-> pc[r]]
  /\ deployment = [r \in Requests |-> deployment[r]]
  /\ \A r \in Requests : pc[r] # "new" => \E m : deployment[r] = HandlerId(m)
  /\ cooling = [d \in DeploymentIds |-> cooling[d]]
  /\ \A e \in ListedEntries : cooling[RouterId(e)] = 0

\* The Router's view of the circuit breaker is always empty.
THEOREM RouterSeesNoCooldown == Spec => []NothingCools
<1> USE DEF NothingCools
<1>1. Init => NothingCools
  BY RouterIdsKnown DEF Init, Loop!Init
<1>2. NothingCools /\ [Next]_vars => NothingCools'
  <2> SUFFICES ASSUME NothingCools, [Next]_vars PROVE NothingCools'
    OBVIOUS
  <2>1. ASSUME NEW r \in Requests, Resolve(r) PROVE NothingCools'
    <3>1. CASE UNCHANGED loopVars
      BY <3>1 DEF loopVars
    <3>2. ASSUME NEW m, Loop!Begin(r, HandlerId(m)) PROVE NothingCools'
      BY <3>2 DEF Loop!Begin
    <3> QED
      BY <2>1, <3>1, <3>2, ResolveEntersLoop
  <2>2. ASSUME NEW r \in Requests, Loop!Serve(r) PROVE NothingCools'
    <3>1. CASE Loop!UpstreamReturns(r)
      BY <3>1 DEF Loop!UpstreamReturns, Loop!Answered, Loop!Retry, Loop!GiveUp
    <3>2. CASE Loop!Wake(r) \/ Loop!Disconnect(r)
      BY <3>2 DEF Loop!Wake, Loop!Disconnect
    <3>3. CASE Loop!RecordFailure(r)
      BY <3>3 DEF Loop!RecordFailure
    <3>4. CASE Loop!Mark(r)
      <4>1. PICK m : deployment[r] = HandlerId(m)
        BY <3>4 DEF Loop!Mark
      <4>2. cooling' = [cooling EXCEPT ![HandlerId(m)] = CooldownTime]
        BY <3>4, <4>1 DEF Loop!Mark
      <4>3. \A e \in ListedEntries : cooling'[RouterId(e)] = 0
        BY <4>2, IdsDiffer, RouterIdsKnown
      <4> QED
        BY <3>4, <4>2, <4>3 DEF Loop!Mark
    <3> QED
      BY <2>2, <3>1, <3>2, <3>3, <3>4 DEF Loop!Serve
  <2>3. CASE Loop!Tick
    <3>1. cooling' = [d \in DeploymentIds |-> Loop!Elapse(cooling[d])]
      BY <2>3 DEF Loop!Tick
    <3>2. \A e \in ListedEntries : cooling'[RouterId(e)] = 0
      BY <3>1, RouterIdsKnown DEF Loop!Elapse
    <3> QED
      BY <2>3, <3>1, <3>2 DEF Loop!Tick
  <2>4. CASE UNCHANGED vars \/ \E r \in Requests : Proxy(r)
    BY <2>4 DEF vars, loopVars, Proxy
  <2> QED
    BY <2>1, <2>2, <2>3, <2>4 DEF Next, Serve
<1> QED
  BY <1>1, <1>2, PTL DEF Spec
-----------------------------------------------------------------------------
Wanted(r) == Selected(config.strategy, config.model_list, CandidatesOf(r), asked[r].tags)

\* What becomes of a choice: an entry of S, the first of its provider, and of the
\* provider that was wanted if anything was.
Follows(list, S, wanted, i) ==
  /\ i \in S
  /\ wanted = {} \/ \E pick \in wanted : list[pick].provider = list[i].provider
  /\ \A j \in S : list[j].provider = list[i].provider => i <= j

\* Why a request for the entries S of a model is turned away.
Unserved(r, S, wanted) ==
  \/ S = {}
  \/ \E i \in S :
       /\ ~ Supported(i)
       /\ \/ wanted = {}
          \/ \E pick \in wanted :
               config.model_list[pick].provider = config.model_list[i].provider
  \/ /\ config.strategy = "tag_based" /\ wanted = {}
     /\ asked[r].model \in DOMAIN config.fallbacks =>
          \A k \in 1..Len(config.fallbacks[asked[r].model]) :
            config.fallbacks[asked[r].model][k] # asked[r].model

\* What holds of a request at each stage.
RoutingAt(r) ==
  /\ stage[r] = "new" => available[r] = {}
  /\ stage[r] = "filtering" =>
       /\ CandidatesOf(r) # {}
       /\ unchecked[r] \union available[r] = CandidatesOf(r)
  /\ stage[r] = "unchosen" =>
       /\ available[r] = CandidatesOf(r) /\ CandidatesOf(r) # {}
       /\ Wanted(r) = {} /\ config.strategy = "tag_based"
  /\ stage[r] = "rejected" => Unserved(r, CandidatesOf(r), Wanted(r))
  /\ stage[r] \in {"routed", "proxied"} =>
       Follows(config.model_list, CandidatesOf(r), Wanted(r), entry[r])

Routing ==
  /\ config \in Configs
  /\ stage = [r \in Requests |-> stage[r]]
  /\ asked = [r \in Requests |-> asked[r]]
  /\ unchecked = [r \in Requests |-> unchecked[r]]
  /\ available = [r \in Requests |-> available[r]]
  /\ entry = [r \in Requests |-> entry[r]]
  /\ \A r \in Requests : RoutingAt(r)

LEMMA SelectedAmong ==
  ASSUME NEW strategy, NEW list, NEW S, NEW tags
  PROVE  Selected(strategy, list, S, tags) \subseteq S
  BY DEF Selected, SimpleShuffle, LowestCost, LowestLatency, UsageBased, TagBased, First

LEMMA CandidatesNumbered ==
  ASSUME config \in Configs, NEW r
  PROVE  CandidatesOf(r) \subseteq Nat /\ CandidatesOf(r) \subseteq Positions
<1>1. Len(config.model_list) \in Nat
  BY ConfigsAssumption
<1> QED
  BY <1>1 DEF CandidatesOf, Candidates, Positions

\* Of the numbers in T one comes first.
LEMMA SomethingComesFirst ==
  ASSUME NEW T \in SUBSET Nat, T # {}
  PROVE  \E i \in T : \A j \in T : ~ (j < i)
<1>1. \E i \in T : \A j \in T : ~ (<<j, i>> \in OpToRel(<, Nat))
  BY NatLessThanWellFounded, WFMin
<1> QED
  BY <1>1 DEF OpToRel

\* Every strategy but tag_based finds something among some entries.
LEMMA OnlyTagsFindNothing ==
  ASSUME config \in Configs, NEW S \in SUBSET Nat, S \subseteq Positions, S # {}, NEW tags,
         Selected(config.strategy, config.model_list, S, tags) = {}
  PROVE  config.strategy = "tag_based"
<1> DEFINE price(i) == config.model_list[i].prompt_price
<1>1. SimpleShuffle(S) # {}
  BY DEF SimpleShuffle
<1>2. LowestLatency(S) # {} /\ UsageBased(S) # {}
  BY SomethingComesFirst DEF LowestLatency, UsageBased, First
<1>3. LowestCost(config.model_list, S) # {}
  <2>1. \A i \in S : price(i) \in Nat
    BY ListedAt, ConfigsAssumption
  <2>2. PICK lowest \in {price(i) : i \in S} : \A p \in {price(i) : i \in S} : ~ (p < lowest)
    <3>1. {price(i) : i \in S} \in SUBSET Nat /\ {price(i) : i \in S} # {}
      BY <2>1
    <3> HIDE DEF price
    <3> QED
      BY <3>1, SomethingComesFirst
  <2>3. \A i \in S : price(i) = lowest <=> \A j \in S : price(i) <= price(j)
    BY <2>1, <2>2
  <2>4. PICK i \in {k \in S : price(k) = lowest} :
          \A j \in {k \in S : price(k) = lowest} : ~ (j < i)
    <3>1. {k \in S : price(k) = lowest} \in SUBSET Nat /\ {k \in S : price(k) = lowest} # {}
      BY <2>2
    <3> HIDE DEF price
    <3> QED
      BY <3>1, SomethingComesFirst
  <2> QED
    BY <2>3, <2>4 DEF LowestCost, First
<1> QED
  BY <1>1, <1>2, <1>3 DEF Selected

\* A choice from S is traced back to the first entry of the provider chosen, when
\* all of S are entries of one model.
LEMMA MatchingFollows ==
  ASSUME NEW list, NEW S \in SUBSET Nat, NEW wanted \in SUBSET S,
         NEW pick \in wanted, NEW i \in Matching(list, S, pick),
         \A j, k \in S : list[j].model_name = list[k].model_name
  PROVE  Follows(list, S, wanted, i)
<1>1. i \in S /\ list[i].provider = list[pick].provider
      /\ \A j \in S : j < i => list[j].provider # list[pick].provider
  BY DEF Matching, First
<1>2. \A j \in S : i \in Int /\ j \in Int /\ (j < i \/ i <= j)
  BY <1>1
<1> QED
  BY <1>1, <1>2 DEF Follows

LEMMA OneModel ==
  ASSUME NEW r
  PROVE  \A j \in CandidatesOf(r) : config.model_list[j].model_name = asked[r].model
  BY DEF CandidatesOf, Candidates

\* A fallback to the model that was asked for leads to one of its entries.
LEMMA FallbackLeadsBack ==
  ASSUME NothingCools, config \in Configs, NEW r,
         available[r] = CandidatesOf(r), CandidatesOf(r) # {},
         First(1..Len(FallbackModels(r)),
               LAMBDA k : FallbackEntries(r, FallbackModels(r)[k]) # {}) = {}
  PROVE  asked[r].model \in DOMAIN config.fallbacks =>
           \A k \in 1..Len(config.fallbacks[asked[r].model]) :
             config.fallbacks[asked[r].model][k] # asked[r].model
<1> SUFFICES ASSUME asked[r].model \in DOMAIN config.fallbacks,
                    NEW n \in 1..Len(config.fallbacks[asked[r].model]),
                    config.fallbacks[asked[r].model][n] = asked[r].model
             PROVE  FALSE
  OBVIOUS
<1>1. FallbackModels(r) = config.fallbacks[asked[r].model] /\ Len(FallbackModels(r)) \in Nat
  BY ConfigsAssumption DEF FallbackModels
<1>2. FallbackEntries(r, asked[r].model) # {}
  <2>1. PICK i \in CandidatesOf(r) : \A j \in CandidatesOf(r) : ~ (j < i)
    BY CandidatesNumbered, SomethingComesFirst
  <2>2. ~ CoolingDown(i)
    BY CandidatesNumbered, ListedAt DEF CoolingDown, NothingCools, Loop!IsCoolingDown
  <2> QED
    BY <2>1, <2>2, OneModel DEF FallbackEntries, First
<1> DEFINE T == {k \in 1..Len(FallbackModels(r)) : FallbackEntries(r, FallbackModels(r)[k]) # {}}
<1>3. T \in SUBSET Nat /\ n \in T
  BY <1>1, <1>2
<1>4. PICK i \in T : \A j \in T : ~ (j < i)
  BY <1>3, SomethingComesFirst
<1> QED
  BY <1>4 DEF First

\* RoutingAt(r) looks at the variables of r only.
LEMMA RoutingLocal ==
  ASSUME NEW r, RoutingAt(r), config' = config,
         stage'[r] = stage[r], asked'[r] = asked[r], unchecked'[r] = unchecked[r],
         available'[r] = available[r], entry'[r] = entry[r]
  PROVE  RoutingAt(r)'
  BY DEF RoutingAt, Wanted, CandidatesOf, Unserved, Supported

LEMMA RejectKeepsRouting ==
  ASSUME NEW r \in Requests, stage = [q \in Requests |-> stage[q]], Reject(r),
         Unserved(r, CandidatesOf(r), Wanted(r))'
  PROVE  /\ stage' = [q \in Requests |-> stage'[q]]
         /\ \A q \in Requests \ {r} : stage'[q] = stage[q]
         /\ RoutingAt(r)'
  BY DEF Reject, RoutingAt

\* A request that leaves for entry i, with what is known of i.
LEMMA RouteKeepsRouting ==
  ASSUME NEW r \in Requests, NEW a, NEW i,
         stage = [q \in Requests |-> stage[q]], entry = [q \in Requests |-> entry[q]],
         Route(r, a, i),
         config' = config, Follows(config.model_list, CandidatesOf(r), Wanted(r), i)'
  PROVE  /\ stage' = [q \in Requests |-> stage'[q]]
         /\ entry' = [q \in Requests |-> entry'[q]]
         /\ \A q \in Requests \ {r} : stage'[q] = stage[q] /\ entry'[q] = entry[q]
         /\ RoutingAt(r)'
<1>1. CASE ~ Supported(i) /\ Reject(r)
  <2>1. Unserved(r, CandidatesOf(r), Wanted(r))'
    BY <1>1 DEF Unserved, Follows, Supported
  <2> QED
    BY <1>1, <2>1, RejectKeepsRouting DEF Reject
<1>2. CASE ~ (~ Supported(i) /\ Reject(r))
  <2>1. /\ \E s \in {"routed", "proxied"} : stage' = [stage EXCEPT ![r] = s]
        /\ entry' = [entry EXCEPT ![r] = i]
    BY <1>2 DEF Route, Proceed
  <2>2. stage'[r] \in {"routed", "proxied"} /\ entry'[r] = i
    BY <2>1
  <2>3. RoutingAt(r)'
    BY <2>2 DEF RoutingAt
  <2> QED
    BY <2>1, <2>3
<1> QED
  BY <1>1, <1>2

\* The inductive invariant: the two lists of filter_cooldown make up the candidates,
\* and where a request goes is what the strategy wants of all the candidates.
LEMMA RoutingInvariant == Spec => []Routing
<1>1. Init => Routing
  BY DEF Init, Routing, RoutingAt
<1>2. NothingCools /\ Routing /\ [Next]_vars => Routing'
  <2> SUFFICES ASSUME NothingCools, Routing, [Next]_vars PROVE Routing'
    OBVIOUS
  <2> DEFINE Others(r) ==
               /\ config' = config
               /\ stage' = [q \in Requests |-> stage'[q]]
               /\ asked' = [q \in Requests |-> asked'[q]]
               /\ unchecked' = [q \in Requests |-> unchecked'[q]]
               /\ available' = [q \in Requests |-> available'[q]]
               /\ entry' = [q \in Requests |-> entry'[q]]
               /\ \A q \in Requests \ {r} :
                    /\ stage'[q] = stage[q] /\ asked'[q] = asked[q]
                    /\ unchecked'[q] = unchecked[q] /\ available'[q] = available[q]
                    /\ entry'[q] = entry[q]
  <2>1. ASSUME NEW r \in Requests, Others(r), RoutingAt(r)' PROVE Routing'
    <3>1. \A q \in Requests \ {r} : RoutingAt(q)'
      BY <2>1, RoutingLocal DEF Routing
    <3> QED
      BY <2>1, <3>1 DEF Routing
  <2> HIDE DEF Others
  <2>2. ASSUME NEW r \in Requests, Accept(r) PROVE Routing'
    <3>1. PICK a \in Asks :
            /\ asked' = [asked EXCEPT ![r] = a]
            /\ \/ /\ Candidates(config.model_list, a.model) = {}
                  /\ Reject(r)
                  /\ UNCHANGED unchecked
               \/ \E i \in Candidates(config.model_list, a.model) :
                    /\ Candidates(config.model_list, a.model) = {i}
                    /\ Route(r, a, i)
                    /\ UNCHANGED unchecked
               \/ /\ \E i, j \in Candidates(config.model_list, a.model) : i # j
                  /\ stage' = [stage EXCEPT ![r] = "filtering"]
                  /\ unchecked' = [unchecked EXCEPT ![r] = Candidates(config.model_list, a.model)]
                  /\ UNCHANGED <<loopVars, entry>>
      BY <2>2 DEF Accept
    <3>2. config' = config /\ available' = available /\ available[r] = {}
      BY <2>2 DEF Accept, Routing, RoutingAt
    <3>3. asked'[r] = a /\ asked' = [q \in Requests |-> asked'[q]]
          /\ \A q \in Requests \ {r} : asked'[q] = asked[q]
      BY <3>1 DEF Routing
    <3>4. CandidatesOf(r)' = Candidates(config.model_list, a.model)
      BY <3>2, <3>3 DEF CandidatesOf
    <3>5. CASE CandidatesOf(r)' = {} /\ Reject(r) /\ UNCHANGED unchecked
      <4>3. Unserved(r, CandidatesOf(r), Wanted(r))'
        BY <3>5 DEF Unserved
      <4>1. RoutingAt(r)' /\ stage' = [q \in Requests |-> stage'[q]]
            /\ \A q \in Requests \ {r} : stage'[q] = stage[q]
        BY <3>5, <4>3, RejectKeepsRouting DEF Routing
      <4>2. Others(r)
        BY <3>2, <3>3, <3>5, <4>1 DEF Others, Reject, Routing
      <4> QED
        BY <2>1, <4>1, <4>2
    <3>6. ASSUME NEW i, CandidatesOf(r)' = {i}, Route(r, a, i), UNCHANGED unchecked
          PROVE  Routing'
      <4>3. Wanted(r)' \subseteq {i} /\ i \in Int
        <5>1. Len(config.model_list) \in Nat
          BY ConfigsAssumption DEF Routing
        <5>2. i \in Int
          BY <3>4, <3>6, <5>1 DEF Candidates
        <5>3. Selected(config'.strategy, config'.model_list, CandidatesOf(r)', asked'[r].tags)
                \subseteq CandidatesOf(r)'
          BY SelectedAmong
        <5> QED
          BY <3>6, <5>2, <5>3 DEF Wanted
      <4>4. Follows(config.model_list, CandidatesOf(r), Wanted(r), i)'
        BY <3>6, <4>3 DEF Follows
      <4>1. /\ stage' = [q \in Requests |-> stage'[q]]
            /\ entry' = [q \in Requests |-> entry'[q]]
            /\ \A q \in Requests \ {r} : stage'[q] = stage[q] /\ entry'[q] = entry[q]
            /\ RoutingAt(r)'
        BY <3>2, <3>6, <4>4, RouteKeepsRouting DEF Routing
      <4>2. Others(r)
        BY <3>2, <3>3, <3>6, <4>1 DEF Others, Routing
      <4> QED
        BY <2>1, <4>1, <4>2
    <3>7. CASE /\ \E i, j \in CandidatesOf(r)' : i # j
               /\ stage' = [stage EXCEPT ![r] = "filtering"]
               /\ unchecked' = [unchecked EXCEPT ![r] = CandidatesOf(r)']
               /\ UNCHANGED <<loopVars, entry>>
      <4>1. stage'[r] = "filtering" /\ unchecked'[r] = CandidatesOf(r)'
        BY <3>7 DEF Routing
      <4>2. RoutingAt(r)'
        BY <3>2, <3>7, <4>1 DEF RoutingAt
      <4>3. Others(r)
        BY <3>2, <3>3, <3>7 DEF Others, Routing
      <4> QED
        BY <2>1, <4>2, <4>3
    <3> QED
      BY <3>1, <3>4, <3>5, <3>6, <3>7
  <2>3. ASSUME NEW r \in Requests, Filter(r) PROVE Routing'
    <3>1. PICK i \in unchecked[r] :
            /\ unchecked' = [unchecked EXCEPT ![r] = @ \ {i}]
            /\ available' = IF CoolingDown(i) THEN available
                            ELSE [available EXCEPT ![r] = @ \union {i}]
      BY <2>3 DEF Filter, First
    <3>2. /\ stage[r] = "filtering"
          /\ UNCHANGED <<loopVars, config, stage, asked, entry>>
      BY <2>3 DEF Filter
    <3>3. i \in CandidatesOf(r) /\ CandidatesOf(r)' = CandidatesOf(r)
          /\ CandidatesOf(r) # {} /\ unchecked[r] \union available[r] = CandidatesOf(r)
      BY <3>2 DEF Routing, RoutingAt, CandidatesOf
    <3>4. ~ CoolingDown(i)
      <4>1. config.model_list[i] \in ListedEntries
        BY <3>3, ListedAt DEF CandidatesOf, Candidates, Positions, Routing
      <4> QED
        BY <4>1 DEF CoolingDown, NothingCools, Loop!IsCoolingDown
    <3>5. unchecked'[r] \union available'[r] = CandidatesOf(r)'
      BY <3>1, <3>3, <3>4 DEF Routing
    <3>6. RoutingAt(r)'
      BY <3>2, <3>3, <3>5 DEF RoutingAt
    <3>7. Others(r)
      BY <3>1, <3>2, <3>4 DEF Others, Routing
    <3> QED
      BY <2>1, <3>6, <3>7
  <2>4. ASSUME NEW r \in Requests, Choose(r) PROVE Routing'
    <3>1. /\ stage[r] = "filtering"
          /\ unchecked[r] = {}
          /\ UNCHANGED <<config, asked, unchecked, available>>
      BY <2>4 DEF Choose
    <3>2. available[r] = CandidatesOf(r)
      BY <3>1 DEF Routing, RoutingAt
    <3>3. CandidatesOf(r)' = CandidatesOf(r) /\ Wanted(r)' = Wanted(r)
      BY <3>1 DEF CandidatesOf, Wanted
    <3>4. \/ \E pick \in Wanted(r) :
               \E i \in Matching(config.model_list, CandidatesOf(r), pick) :
                 Route(r, asked[r], i)
          \/ /\ Wanted(r) = {}
             /\ stage' = [stage EXCEPT ![r] = "unchosen"]
             /\ UNCHANGED <<loopVars, entry>>
      BY <2>4, <3>2 DEF Choose, Wanted
    <3>5. ASSUME NEW pick \in Wanted(r), NEW i \in Matching(config.model_list, CandidatesOf(r), pick),
                 Route(r, asked[r], i)
          PROVE  Routing'
      <4>1. Follows(config.model_list, CandidatesOf(r), Wanted(r), i)
        <5>1. Wanted(r) \subseteq CandidatesOf(r)
          BY SelectedAmong DEF Wanted
        <5> QED
          BY <5>1, CandidatesNumbered, OneModel, MatchingFollows DEF Routing
      <4>2. /\ stage' = [q \in Requests |-> stage'[q]]
            /\ entry' = [q \in Requests |-> entry'[q]]
            /\ \A q \in Requests \ {r} : stage'[q] = stage[q] /\ entry'[q] = entry[q]
            /\ RoutingAt(r)'
        BY <3>1, <3>3, <3>5, <4>1, RouteKeepsRouting DEF Routing
      <4>3. Others(r)
        BY <3>1, <4>2 DEF Others, Routing
      <4> QED
        BY <2>1, <4>2, <4>3
    <3>6. CASE /\ Wanted(r) = {}
               /\ stage' = [stage EXCEPT ![r] = "unchosen"]
               /\ UNCHANGED <<loopVars, entry>>
      <4>1. stage'[r] = "unchosen"
        BY <3>6 DEF Routing
      <4>4. CandidatesOf(r) # {}
        BY <3>1 DEF Routing, RoutingAt
      <4>5. config.strategy = "tag_based"
        BY <3>6, <4>4, CandidatesNumbered, OnlyTagsFindNothing DEF Routing, Wanted
      <4>2. RoutingAt(r)'
        BY <3>1, <3>2, <3>3, <3>6, <4>1, <4>4, <4>5 DEF RoutingAt
      <4>3. Others(r)
        BY <3>1, <3>6 DEF Others, Routing
      <4> QED
        BY <2>1, <4>2, <4>3
    <3> QED
      BY <3>4, <3>5, <3>6
  <2>5. ASSUME NEW r \in Requests, FallBack(r) PROVE Routing'
    <3>1. /\ stage[r] = "unchosen"
          /\ UNCHANGED <<config, asked, unchecked, available>>
      BY <2>5 DEF FallBack
    <3>2. /\ Wanted(r) = {} /\ config.strategy = "tag_based"
          /\ available[r] = CandidatesOf(r) /\ CandidatesOf(r) # {}
      BY <3>1 DEF Routing, RoutingAt
    <3>3. CandidatesOf(r)' = CandidatesOf(r) /\ Wanted(r)' = Wanted(r)
      BY <3>1 DEF CandidatesOf, Wanted
    <3>4. \/ \E k : \E i \in FallbackEntries(r, FallbackModels(r)[k]) :
               Route(r, asked[r], i)
          \/ /\ First(1..Len(FallbackModels(r)),
                      LAMBDA k : FallbackEntries(r, FallbackModels(r)[k]) # {}) = {}
             /\ Reject(r)
      BY <2>5 DEF FallBack
    <3>5. ASSUME NEW m, NEW i \in FallbackEntries(r, m), Route(r, asked[r], i)
          PROVE  Routing'
      <4>1. Follows(config.model_list, CandidatesOf(r), Wanted(r), i)
        <5>1. i \in CandidatesOf(r) /\ m = asked[r].model
          BY OneModel DEF FallbackEntries, First
        <5>2. \A j \in CandidatesOf(r) : ~ (j < i)
          BY <5>1, OneModel DEF FallbackEntries, First
        <5>3. \A j \in CandidatesOf(r) : i <= j
          BY <5>1, <5>2, CandidatesNumbered DEF Routing
        <5> QED
          BY <3>2, <5>1, <5>3 DEF Follows
      <4>4. Follows(config.model_list, CandidatesOf(r), Wanted(r), i)'
        BY <3>1, <3>3, <4>1
      <4>2. /\ stage' = [q \in Requests |-> stage'[q]]
            /\ entry' = [q \in Requests |-> entry'[q]]
            /\ \A q \in Requests \ {r} : stage'[q] = stage[q] /\ entry'[q] = entry[q]
            /\ RoutingAt(r)'
        BY <3>1, <3>5, <4>4, RouteKeepsRouting DEF Routing
      <4>3. Others(r)
        BY <3>1, <4>2 DEF Others, Routing
      <4> QED
        BY <2>1, <4>2, <4>3
    <3>6. CASE /\ First(1..Len(FallbackModels(r)),
                        LAMBDA k : FallbackEntries(r, FallbackModels(r)[k]) # {}) = {}
               /\ Reject(r)
      <4>3. Unserved(r, CandidatesOf(r), Wanted(r))
        BY <3>2, <3>6, FallbackLeadsBack DEF Routing, Unserved
      <4>4. Unserved(r, CandidatesOf(r), Wanted(r))'
        BY <3>1, <3>3, <4>3 DEF Unserved, Supported
      <4>1. RoutingAt(r)' /\ stage' = [q \in Requests |-> stage'[q]]
            /\ \A q \in Requests \ {r} : stage'[q] = stage[q]
        BY <3>6, <4>4, RejectKeepsRouting DEF Routing
      <4>2. Others(r)
        BY <3>1, <3>6, <4>1 DEF Others, Reject, Routing
      <4> QED
        BY <2>1, <4>1, <4>2
    <3> QED
      BY <3>4, <3>5, <3>6
  <2>6. CASE UNCHANGED <<routeVars, config>>
    <3>1. \A q \in Requests : RoutingAt(q)'
      BY <2>6, RoutingLocal DEF Routing, routeVars
    <3> QED
      BY <2>6, <3>1 DEF Routing, routeVars
  <2>7. ASSUME NEW r \in Requests, Proxy(r) PROVE Routing'
    <3>1. stage' = [stage EXCEPT ![r] = "over"]
          /\ UNCHANGED <<config, asked, unchecked, available, entry>>
      BY <2>7 DEF Proxy
    <3>2. RoutingAt(r)'
      BY <3>1 DEF RoutingAt, Routing
    <3>3. Others(r)
      BY <3>1 DEF Others, Routing
    <3> QED
      BY <2>1, <3>2, <3>3
  <2> QED
    BY <2>2, <2>3, <2>4, <2>5, <2>6, <2>7 DEF Next, Resolve, Serve, vars
<1> QED
  BY <1>1, <1>2, RouterSeesNoCooldown, PTL DEF Spec
-----------------------------------------------------------------------------
\* A sleeping request has a retry left, as in RetryWithCooldown.
LoopTyped ==
  /\ Loop!TypeOK
  /\ \A r \in Requests : pc[r] = "sleeping" => attempt[r] < NumRetries

\* A step of the retry loop, the entry to it included, keeps the types of its
\* variables.
LEMMA LoopStepTyped ==
  ASSUME LoopTyped,
         \/ \E r \in Requests : Loop!Serve(r) \/ \E d \in DeploymentIds : Loop!Begin(r, d)
         \/ Loop!Tick
         \/ UNCHANGED loopVars
  PROVE  LoopTyped'
<1>1. [Loop!Next]_(Loop!vars)
  BY DEF Loop!Next, Loop!vars, Loop!calls, loopVars
<1>2. LoopTyped <=> LoopProofs!Typed
  BY DEF LoopTyped, LoopProofs!Typed, Loop!TypeOK, LoopProofs!TypeOK, Loop!Running, LoopProofs!Running,
     Loop!Ended, LoopProofs!Ended, Loop!Errors, LoopProofs!Errors,
     Loop!NoError, LoopProofs!NoError
<1>3. LoopTyped' <=> LoopProofs!Typed'
  BY DEF LoopTyped, LoopProofs!Typed, Loop!TypeOK, LoopProofs!TypeOK, Loop!Running, LoopProofs!Running,
     Loop!Ended, LoopProofs!Ended, Loop!Errors, LoopProofs!Errors,
     Loop!NoError, LoopProofs!NoError
<1>4. LoopProofs!Typed /\ [LoopProofs!Next]_(LoopProofs!vars) => LoopProofs!Typed'
  BY SameSettings, SettingsAssumption, LoopProofs!StepTyped
<1> QED
  BY <1>1, <1>2, <1>3, <1>4, SameStep

RouteTyped ==
  /\ config \in Configs
  /\ stage \in [Requests -> {"new", "filtering", "unchosen", "routed", "proxied",
                          "rejected", "over"}]
  /\ asked \in [Requests -> Asks \union {NoAsk}]
  /\ unchecked \in [Requests -> SUBSET Positions]
  /\ available \in [Requests -> SUBSET Positions]
  /\ entry \in [Requests -> Positions \union {0}]

\* What is being routed was asked for.
Typed ==
  /\ LoopTyped
  /\ RouteTyped
  /\ \A r \in Requests : stage[r] # "new" => asked[r] \in Asks

\* A request that is sent to an entry keeps the types, if it asked for something.
LEMMA RouteStepTyped ==
  ASSUME Typed, NEW r \in Requests, NEW a \in Asks, NEW i,
         \/ i \in Positions /\ Route(r, a, i)
         \/ Reject(r),
         config' = config,
         asked' \in [Requests -> Asks \union {NoAsk}], asked'[r] \in Asks,
         \A q \in Requests \ {r} : asked'[q] = asked[q],
         unchecked' \in [Requests -> SUBSET Positions],
         available' \in [Requests -> SUBSET Positions]
  PROVE  Typed'
<1>1. Positions' = Positions
  BY DEF Positions
<1>2. HandlerId(a.model) \in DeploymentIds
  BY DEF DeploymentIds
<1>3. UNCHANGED loopVars \/ \E d \in DeploymentIds : Loop!Begin(r, d)
  BY <1>2 DEF Route, Proceed, Reject
<1>4. LoopTyped'
  BY <1>3, LoopStepTyped DEF Typed
<1>5. /\ \E s \in {"routed", "proxied", "rejected"} : stage' = [stage EXCEPT ![r] = s]
      /\ entry' \in [Requests -> Positions \union {0}]
  BY DEF Route, Proceed, Reject, Typed, RouteTyped
<1>6. \A q \in Requests : stage'[q] # "new" => asked'[q] \in Asks
  BY <1>5 DEF Typed, RouteTyped
<1> QED
  BY <1>1, <1>4, <1>5, <1>6 DEF Typed, RouteTyped

LEMMA TypesKept == Spec => []Typed
<1>1. Init => Typed
  BY SettingsAssumption
  DEF Init, Typed, LoopTyped, RouteTyped, Loop!Init, Loop!TypeOK, Loop!Running, Loop!Ended
<1>2. Typed /\ [Next]_vars => Typed'
  <2> SUFFICES ASSUME Typed, [Next]_vars PROVE Typed'
    OBVIOUS
  <2>1. ASSUME NEW r \in Requests, Accept(r) PROVE Typed'
    <3>1. PICK a \in Asks :
            /\ asked' = [asked EXCEPT ![r] = a]
            /\ \/ Reject(r) /\ UNCHANGED unchecked
               \/ \E i \in Candidates(config.model_list, a.model) :
                    Route(r, a, i) /\ UNCHANGED unchecked
               \/ /\ stage' = [stage EXCEPT ![r] = "filtering"]
                  /\ unchecked' = [unchecked EXCEPT ![r] = Candidates(config.model_list, a.model)]
                  /\ UNCHANGED <<loopVars, entry>>
      BY <2>1 DEF Accept
    <3>2. /\ config' = config /\ available' = available
          /\ asked' \in [Requests -> Asks \union {NoAsk}] /\ asked'[r] \in Asks
          /\ \A q \in Requests \ {r} : asked'[q] = asked[q]
      BY <2>1, <3>1 DEF Accept, Typed, RouteTyped
    <3>3. Candidates(config.model_list, a.model) \subseteq Positions
      BY DEF Candidates, Positions
    <3>4. CASE UNCHANGED unchecked /\ (Reject(r) \/ \E i \in Positions : Route(r, a, i))
      <4>1. /\ unchecked' \in [Requests -> SUBSET Positions]
            /\ available' \in [Requests -> SUBSET Positions]
        BY <3>2, <3>4 DEF Typed, RouteTyped
      <4> QED
        BY <3>2, <3>4, <4>1, RouteStepTyped
    <3>5. CASE /\ stage' = [stage EXCEPT ![r] = "filtering"]
               /\ unchecked' = [unchecked EXCEPT ![r] = Candidates(config.model_list, a.model)]
               /\ UNCHANGED <<loopVars, entry>>
      <4>1. LoopTyped'
        BY <3>5, LoopStepTyped DEF Typed
      <4>2. RouteTyped'
        BY <3>2, <3>3, <3>5 DEF Typed, RouteTyped, Positions
      <4>3. \A q \in Requests : stage'[q] # "new" => asked'[q] \in Asks
        BY <3>2, <3>5 DEF Typed, RouteTyped
      <4> QED
        BY <4>1, <4>2, <4>3 DEF Typed
    <3> QED
      BY <3>1, <3>3, <3>4, <3>5
  <2>2. ASSUME NEW r \in Requests, Filter(r) PROVE Typed'
    <3>1. PICK i \in unchecked[r] :
            /\ unchecked' = [unchecked EXCEPT ![r] = @ \ {i}]
            /\ available' = IF CoolingDown(i) THEN available
                            ELSE [available EXCEPT ![r] = @ \union {i}]
      BY <2>2 DEF Filter, First
    <3>2. UNCHANGED <<loopVars, config, stage, asked, entry>>
      BY <2>2 DEF Filter
    <3>3. LoopTyped'
      BY <3>2, LoopStepTyped DEF Typed
    <3>4. RouteTyped'
      BY <3>1, <3>2 DEF Typed, RouteTyped, Positions
    <3> QED
      BY <3>2, <3>3, <3>4 DEF Typed
  <2>3. ASSUME NEW r \in Requests, Choose(r) PROVE Typed'
    <3>1. /\ stage[r] = "filtering" /\ asked[r] \in Asks
          /\ UNCHANGED <<config, asked, unchecked, available>>
      BY <2>3 DEF Choose, Typed
    <3>2. \/ \E i \in Positions : Route(r, asked[r], i)
          \/ stage' = [stage EXCEPT ![r] = "unchosen"] /\ UNCHANGED <<loopVars, entry>>
      BY <2>3 DEF Choose, Matching, First, Typed, RouteTyped
    <3>3. CASE \E i \in Positions : Route(r, asked[r], i)
      <4>1. /\ unchecked' \in [Requests -> SUBSET Positions]
            /\ available' \in [Requests -> SUBSET Positions]
            /\ asked' \in [Requests -> Asks \union {NoAsk}]
        BY <3>1 DEF Typed, RouteTyped
      <4> QED
        BY <3>1, <3>3, <4>1, RouteStepTyped
    <3>4. CASE stage' = [stage EXCEPT ![r] = "unchosen"] /\ UNCHANGED <<loopVars, entry>>
      <4>1. LoopTyped'
        BY <3>4, LoopStepTyped DEF Typed
      <4> QED
        BY <3>1, <3>4, <4>1 DEF Typed, RouteTyped, Positions
    <3> QED
      BY <3>2, <3>3, <3>4
  <2>4. ASSUME NEW r \in Requests, FallBack(r) PROVE Typed'
    <3>1. /\ stage[r] = "unchosen" /\ asked[r] \in Asks
          /\ UNCHANGED <<config, asked, unchecked, available>>
      BY <2>4 DEF FallBack, Typed
    <3>2. \/ \E k : \E i \in FallbackEntries(r, FallbackModels(r)[k]) :
               Route(r, asked[r], i)
          \/ Reject(r)
      BY <2>4 DEF FallBack
    <3>3. \A m : FallbackEntries(r, m) \subseteq Positions
      BY DEF FallbackEntries, First, CandidatesOf, Candidates, Positions
    <3>4. /\ unchecked' \in [Requests -> SUBSET Positions]
          /\ available' \in [Requests -> SUBSET Positions]
          /\ asked' \in [Requests -> Asks \union {NoAsk}]
      BY <3>1 DEF Typed, RouteTyped
    <3>5. Reject(r) \/ \E i \in Positions : Route(r, asked[r], i)
      BY <3>2, <3>3
    <3> QED
      BY <3>1, <3>4, <3>5, RouteStepTyped
  <2>5. CASE Serve \/ UNCHANGED vars
    <3>1. LoopTyped'
      BY <2>5, LoopStepTyped DEF Typed, Serve, vars
    <3>2. UNCHANGED <<routeVars, config>>
      BY <2>5 DEF Serve, vars
    <3> QED
      BY <3>1, <3>2 DEF Typed, RouteTyped, Positions, routeVars
  <2>6. ASSUME NEW r \in Requests, Proxy(r) PROVE Typed'
    <3>1. LoopTyped'
      BY <2>6, LoopStepTyped DEF Typed, Proxy
    <3>2. RouteTyped'
      BY <2>6 DEF Typed, RouteTyped, Positions, Proxy
    <3>3. \A q \in Requests : stage'[q] # "new" => asked'[q] \in Asks
      BY <2>6 DEF Typed, RouteTyped, Proxy
    <3> QED
      BY <3>1, <3>2, <3>3 DEF Typed
  <2> QED
    BY <2>1, <2>2, <2>3, <2>4, <2>5, <2>6 DEF Next, Resolve
<1> QED
  BY <1>1, <1>2, PTL DEF Spec

\* TypeOK: what the Router hands to the retry loop is a deployment it knows.
THEOREM TypeCorrect == Spec => []TypeOK
<1>1. Typed => TypeOK
  BY DEF Typed, LoopTyped, RouteTyped, TypeOK
<1> QED
  BY <1>1, TypesKept, PTL
-----------------------------------------------------------------------------
\* NeverChoosesFromNothing: whatever fails and cools down, every candidate is
\* still there when the strategy is asked.
THEOREM StrategyHasAChoice == Spec => []NeverChoosesFromNothing
<1>1. Routing => NeverChoosesFromNothing
  BY DEF Routing, RoutingAt, NeverChoosesFromNothing
<1> QED
  BY <1>1, RoutingInvariant, PTL

\* RejectedByConfiguration: for every configuration, no failure and no cooldown of any
\* deployment makes a model unknown.
THEOREM BreakerRejectsNothing == Spec => []RejectedByConfiguration
<1>1. Routing => RejectedByConfiguration
  <2> SUFFICES ASSUME Routing, NEW r \in Requests, stage[r] = "rejected"
               PROVE  RejectedByConfiguration!(r)!2
    BY DEF RejectedByConfiguration
  <2>1. Unserved(r, CandidatesOf(r), Wanted(r))
    BY DEF Routing, RoutingAt
  <2>2. ~ \E k \in 1..Len(<<>>) : TRUE
    OBVIOUS
  <2> QED
    BY <2>1, <2>2 DEF Unserved, Wanted
<1> QED
  BY <1>1, RoutingInvariant, PTL

\* RoutedAsConfigured: for every configuration, a request for which the strategy has a
\* choice goes to the provider it would choose if nothing cooled down.
THEOREM BreakerIsInert == Spec => []RoutedAsConfigured
<1>1. Routing => RoutedAsConfigured
  BY DEF RoutedAsConfigured, Routing, RoutingAt, Follows, Wanted
<1> QED
  BY <1>1, RoutingInvariant, PTL

-----------------------------------------------------------------------------
\* A request that leaves the Router has asked for something, and so has a deployment
\* id the loop knows.
LEMMA ResolveImplementsLoop ==
  ASSUME Typed, NEW r \in Requests, Resolve(r)
  PROVE  UNCHANGED loopVars \/ \E d \in DeploymentIds : Loop!Begin(r, d)
<1>1. ASSUME NEW a \in Asks, NEW i, Route(r, a, i)
      PROVE  UNCHANGED loopVars \/ \E d \in DeploymentIds : Loop!Begin(r, d)
  <2>1. HandlerId(a.model) \in DeploymentIds
    BY DEF DeploymentIds
  <2> QED
    BY <1>1, <2>1 DEF Route, Proceed, Reject
<1>2. CASE Accept(r)
  <2>1. PICK a \in Asks :
          \/ Reject(r)
          \/ \E i \in Candidates(config.model_list, a.model) : Route(r, a, i)
          \/ UNCHANGED loopVars
    BY <1>2 DEF Accept
  <2> QED
    BY <2>1, <1>1 DEF Reject
<1>3. CASE Filter(r)
  BY <1>3 DEF Filter
<1>4. CASE Choose(r)
  <2>1. asked[r] \in Asks
    BY <1>4 DEF Choose, Typed
  <2> QED
    BY <1>1, <1>4, <2>1 DEF Choose
<1>5. CASE FallBack(r)
  <2>1. asked[r] \in Asks
    BY <1>5 DEF FallBack, Typed
  <2> QED
    BY <1>1, <1>5, <2>1 DEF FallBack, Reject
<1> QED
  BY <1>2, <1>3, <1>4, <1>5 DEF Resolve

\* Whatever way a request takes through the Router, it enters the retry loop as
\* RetryWithCooldown assumes; resolving a provider, and a call that is proxied, touch
\* neither the loop of another request nor the circuit breaker.  The scheduling that
\* RetryWithCooldown assumes is part of Dispatch's.
THEOREM DispatchImplementsLoop == Spec => Loop!Spec
<1>1. Init => Loop!Init
  BY DEF Init
<1>2. Typed /\ [Next]_vars => [Loop!Next]_(Loop!vars)
  <2> SUFFICES ASSUME Typed, [Next]_vars
               PROVE  Loop!Next \/ UNCHANGED loopVars
    BY DEF Loop!vars, Loop!calls, loopVars
  <2>1. ASSUME NEW r \in Requests, Resolve(r)
        PROVE  Loop!Next \/ UNCHANGED loopVars
    BY <2>1, ResolveImplementsLoop DEF Loop!Next
  <2>2. CASE Serve
    BY <2>2 DEF Serve, Loop!Next
  <2>3. ASSUME NEW r \in Requests, Proxy(r)
        PROVE  UNCHANGED loopVars
    BY <2>3 DEF Proxy
  <2>4. CASE UNCHANGED vars
    BY <2>4 DEF vars
  <2> QED
    BY <2>1, <2>2, <2>3, <2>4 DEF Next
<1>3. Spec => Loop!Fairness
  BY PTL DEF Spec, Fairness
<1> QED
  BY <1>1, <1>2, <1>3, TypesKept, PTL DEF Spec, Loop!Spec

\* The breaker behind the Router keeps what RetryWithCooldown shows of it: no cooldown
\* is lost, none comes before allowed_fails requests for the model have failed, and a
\* request fails only on a final error or with its retries used.
THEOREM DispatchKeepsTheLoopSafe ==
  Spec => [](/\ Loop!ThresholdTrips
             /\ Loop!FailsOnlyWhenExhausted
             /\ Loop!CoolsOnlyAfterAllowedFails)
  BY DispatchImplementsLoop, SameSteps, LoopSafe, PTL DEF Loop!Spec

\* And with it, Breaker: for every deployment id, the Router's included.
THEOREM DispatchImplementsBreaker == Spec => Loop!ImplementsBreaker
  BY DispatchImplementsLoop, SameSteps, LoopBreaks, PTL DEF Loop!Spec
================================================================================
