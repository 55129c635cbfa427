----------------------------- MODULE MCUpstreamCall ----------------------------
(* UpstreamCall for TLC: every method with every adapter that makes a difference. *)
EXTENDS UpstreamCall

CONSTANTS r1, r2, d1

MCRequests == {r1, r2}
MCDeployments == {d1}

A(method, adapter) == [method |-> method, adapter |-> adapter, keyFits |-> TRUE]

\* complete_raw leaves transforming the answer to nobody, so one adapter will do.
MCCalls ==
  {A("complete", "openai"), A("complete", "anthropic"), A("raw", "anthropic"),
   A("stream", "openai"), A("stream", "anthropic"),
   [A("complete", "openai") EXCEPT !.keyFits = FALSE]}
================================================================================
