-------------------------------- MODULE Router ---------------------------------
(***************************************************************************)
(* The choices Router::select_deployment makes (gateway/src/router/mod.rs) *)
(* and the strategies it makes them with (tokencamp-core/src/              *)
(* router_strategy/), as operators on lists of model_list entries.         *)
(*                                                                         *)
(* An entry is a record of its model_name, its provider, its prompt_price  *)
(* (a large number, f64::MAX, when model_info has none) and its tags.      *)
(* Entries are named by their position in model_list, so that a list made  *)
(* by filtering model_list is a set of positions.                          *)
(*                                                                         *)
(* A choice is a set: empty for None, one position for Some, and several   *)
(* for simple_shuffle, which takes any of them.                            *)
(***************************************************************************)
EXTENDS Integers, Sequences

\* iter().find(): the first position of S for which P holds.
First(S, P(_)) == {i \in S : P(i) /\ \A j \in S : j < i => ~ P(j)}

\* The entries resolve_provider looks at.
Candidates(list, model) == {i \in 1..Len(list) : list[i].model_name = model}

SimpleShuffle(S) == S

LowestCost(list, S) ==
  First(S, LAMBDA i : \A j \in S : list[i].prompt_price <= list[j].prompt_price)

\* track_success and track_failure are never called: every average latency is 0.0
\* and every usage counter is absent, so both keep the first entry they see.
LowestLatency(S) == First(S, LAMBDA i : TRUE)
UsageBased(S) == First(S, LAMBDA i : TRUE)

\* The first entry that has all requested tags; the first of all without tags.
TagBased(list, S, tags) == First(S, LAMBDA i : tags \subseteq list[i].tags)

\* build_strategy: an unknown name means simple_shuffle.
Selected(strategy, list, S, tags) ==
  CASE strategy = "lowest_cost" -> LowestCost(list, S)
    [] strategy = "lowest_latency" -> LowestLatency(S)
    [] strategy = "usage_based" -> UsageBased(S)
    [] strategy = "tag_based" -> TagBased(list, S, tags)
    [] OTHER -> SimpleShuffle(S)

Matching_AnyProvider(list, S, pick) ==
  First(S, LAMBDA i : list[i].model_name = list[pick].model_name)

\* The entry the strategy's DeploymentInfo is traced back to: the first one of its
\* model and provider.
Matching(list, S, pick) ==
  First(S, LAMBDA i : /\ list[i].model_name = list[pick].model_name
                      /\ list[i].provider = list[pick].provider)
================================================================================
