-------------------------------- MODULE Breaker --------------------------------
(***************************************************************************)
(* What a circuit breaker promises, whatever keeps its counters: a request *)
(* is judged once, as one failure or one success of its deployment; a      *)
(* success ends the streak of failures; a deployment rests for the whole   *)
(* of the cooldown for every failure that finds the streak long enough,    *)
(* and for no other reason; and only time ends its rest.                   *)
(*                                                                         *)
(* Two things are left open.  Whether the end of a rest ends the streak as *)
(* well: docs/adr/011-resilience-patterns.md:56 and :63 say that it does,  *)
(* the in-memory counters of gateway/src/router/cooldown.rs outlive it.    *)
(* And whether a failure the client caused counts: line 60 there says that *)
(* it does not, retry_with_cooldown records it like any other.             *)
(***************************************************************************)
EXTENDS Naturals

CONSTANTS Requests, Deployments, AllowedFails, CooldownTime

VARIABLES
  judged,    \* the requests that failed or succeeded
  streak,    \* failures of each deployment since its streak last ended
  due,       \* rests that are earned and not begun: pairs of a request and its deployment
  resting,   \* how long each deployment still rests
  excused    \* the requests that were answered with a 4xx other than 429; set elsewhere

Init ==
  /\ judged = {}
  /\ streak = [d \in Deployments |-> 0]
  /\ due = {}
  /\ resting = [d \in Deployments |-> 0]

Judge(r) == r \notin judged /\ judged' = judged \union {r}

Succeed(r, d) ==
  /\ Judge(r)
  /\ streak' = [streak EXCEPT ![d] = 0]
  /\ UNCHANGED <<due, resting>>

Fail(r, d) ==
  /\ Judge(r)
  /\ streak' = [streak EXCEPT ![d] = @ + 1]
  /\ due' = due \union {x \in {<<r, d>>} : streak[d] + 1 >= AllowedFails}
  /\ UNCHANGED resting

Excuse(r) ==
  /\ Judge(r)
  /\ r \in excused
  /\ UNCHANGED <<streak, due, resting>>

Rest(r, d) ==
  /\ <<r, d>> \in due
  /\ due' = due \ {<<r, d>>}
  /\ resting' = [resting EXCEPT ![d] = CooldownTime]
  /\ UNCHANGED <<judged, streak>>

\* A streak may be forgotten with the rest it led to.
TimePasses ==
  /\ resting' = [d \in Deployments |-> IF resting[d] = 0 THEN 0 ELSE resting[d] - 1]
  /\ \E forgotten \in SUBSET {d \in Deployments : resting[d] = 1} :
       streak' = [d \in Deployments |-> IF d \in forgotten THEN 0 ELSE streak[d]]
  /\ UNCHANGED <<judged, due>>

Next ==
  \/ \E r \in Requests, d \in Deployments : Succeed(r, d) \/ Fail(r, d) \/ Rest(r, d)
  \/ \E r \in Requests : Excuse(r)
  \/ TimePasses

Spec == Init /\ [][Next]_<<judged, streak, due, resting>>
================================================================================
