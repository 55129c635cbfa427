------------------------------ MODULE MCDispatch -------------------------------
(***************************************************************************)
(* Configurations and requests for TLC.  Model "a" has two deployments of  *)
(* different providers (or, in Twins, of one), "b" a single one, "c" one   *)
(* of a provider the gateway does not speak to; nobody serves "d".         *)
(***************************************************************************)
EXTENDS Dispatch

CONSTANTS r1, r2, Lists, Plans

Entry(model, provider, price, tags) ==
  [model_name |-> model, provider |-> provider, prompt_price |-> price, tags |-> tags]

Rest == << Entry("b", "openai", 1, {}), Entry("c", "azure", 1, {}) >>

Pair == << Entry("a", "openai", 2, {"slow"}), Entry("a", "anthropic", 1, {"fast"}) >> \o Rest
Twins == << Entry("a", "openai", 2, {"slow"}), Entry("a", "openai", 1, {"fast"}) >> \o Rest

OnlyPair == {Pair}
AllLists == {Pair, Twins}

Fallbacks(alternatives) == [m \in {"a"} |-> alternatives]

ToOthers == {Fallbacks(<<"b">>)}
ToAnything == {Fallbacks(<<"b">>), Fallbacks(<<"b", "a">>)}

\* usage_based chooses as lowest_latency does.
Strategies == {"simple_shuffle", "lowest_cost", "lowest_latency", "tag_based"}

\* The plan matters only where a strategy may find nothing.
MCConfigs ==
  {c \in [strategy : Strategies, model_list : Lists, fallbacks : Plans,
          providers : {{"openai", "anthropic", "azure"}}] :
     c.strategy # "tag_based" => c.fallbacks = Fallbacks(<<"b">>)}

MCAsks ==
  {[model |-> m, tags |-> {}, proxied |-> FALSE] : m \in {"a", "b", "c", "d"}}
    \union {[model |-> "a", tags |-> {t}, proxied |-> FALSE] : t \in {"fast", "free"}}
    \union {[model |-> "a", tags |-> {}, proxied |-> TRUE]}

MCRequests == {r1, r2}
================================================================================
