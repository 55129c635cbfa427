----------------------------- MODULE SharedAnswers -----------------------------
(***************************************************************************)
(* What the response cache promises to the clients of chat_completions,    *)
(* whatever it is made of: a request that is not streamed may be given the *)
(* answer upstream gave to another such request with the same cache key.   *)
(* Nobody is given two answers.                                            *)
(***************************************************************************)
CONSTANTS Requests, Asks, NoAsk, Nobody, KeyFor

VARIABLES ask, answer

Init ==
  /\ ask = [r \in Requests |-> NoAsk]
  /\ answer = [r \in Requests |-> Nobody]

Ask(r, a) ==
  /\ ask[r] = NoAsk
  /\ ask' = [ask EXCEPT ![r] = a]
  /\ UNCHANGED answer

Waits(r) == ask[r] # NoAsk /\ answer[r] = Nobody

\* Upstream answers.
Answer(r) ==
  /\ Waits(r)
  /\ answer' = [answer EXCEPT ![r] = r]
  /\ UNCHANGED ask

\* r is given what upstream answered to q.
Share(r, q) ==
  /\ Waits(r) /\ answer[q] = q
  /\ ~ ask[r].stream /\ ~ ask[q].stream
  /\ KeyFor[ask[r]] = KeyFor[ask[q]]
  /\ answer' = [answer EXCEPT ![r] = q]
  /\ UNCHANGED ask

Next ==
  \E r \in Requests :
    \/ \E a \in Asks : Ask(r, a)
    \/ Answer(r)
    \/ \E q \in Requests : Share(r, q)

Spec == Init /\ [][Next]_<<ask, answer>>
================================================================================
