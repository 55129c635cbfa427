---------------------------- MODULE MCChatPipeline -----------------------------
(***************************************************************************)
(* ChatPipeline for TLC.  In Different, two conversations and a streamed   *)
(* request for the first one; in Colliding, two conversations whose texts  *)
(* run together to the same sequence of words.                             *)
(***************************************************************************)
EXTENDS ChatPipeline, TLC

CONSTANTS r1, r2, r3, g1, g2

Message(role, content) == [role |-> role, content |-> content]

Chat(messages, stream) ==
  [model |-> "m", messages |-> messages, options |-> <<>>, stream |-> stream]

TwoTurns == <<Message("user", <<"name", "a", "role">>), Message("user", <<"again">>)>>
OneTurn == <<Message("user", <<"name", "a", "role", "user", "again">>)>>

Different == {Chat(TwoTurns, FALSE), Chat(Tail(TwoTurns), FALSE), Chat(TwoTurns, TRUE)}
Colliding == {Chat(TwoTurns, FALSE), Chat(OneTurn, FALSE)}

MCRequests == {r1, r2, r3}
MCGateways == {g1, g2}

Symmetry == Permutations(MCRequests) \union Permutations(MCGateways)
================================================================================
