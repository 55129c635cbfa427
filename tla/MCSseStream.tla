------------------------------ MODULE MCSseStream ------------------------------
(* Every body of up to MaxEvents events taken from Alphabet. *)
EXTENDS SseStream

CONSTANTS MaxEvents, Alphabet

Clean(kind) == [kind |-> kind, garbled |-> FALSE]
Garbled(kind) == [kind |-> kind, garbled |-> TRUE]

MCEvents ==
  {Clean(kind) : kind \in {"message_start", "content_block_delta", "message_delta", "silent"}}
    \union {Garbled("content_block_delta")}
CleanEvents == {Clean(kind) : kind \in {"content_block_delta", "silent"}}

MCBodies == UNION {[1..n -> Alphabet] : n \in 0..MaxEvents}
================================================================================
