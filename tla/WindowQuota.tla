------------------------------ MODULE WindowQuota ------------------------------
(***************************************************************************)
(* What a rate limiter promises: in every window of time, an API key is    *)
(* granted no more requests than its limit.  Nothing is said of how the    *)
(* grants are counted.                                                     *)
(***************************************************************************)
EXTENDS Naturals, FiniteSets

CONSTANTS
  Requests,
  Keys,
  Windows,
  Quota(_, _)   \* Quota(k, n): n grants to k within one window are allowed

VARIABLE granted  \* grants so far: triples of a request, its key and its window

GrantedIn(k, w) == {g \in granted : g[2] = k /\ g[3] = w}

Init == granted = {}

\* A request that was not granted yet is granted, if the quota allows it.
Grant(r, k, w) ==
  /\ \A g \in granted : g[1] # r
  /\ granted' = granted \union {<<r, k, w>>}
  /\ Quota(k, Cardinality(GrantedIn(k, w)) + 1)

Next == \E r \in Requests, k \in Keys, w \in Windows : Grant(r, k, w)

Spec == Init /\ [][Next]_granted
=============================================================================
