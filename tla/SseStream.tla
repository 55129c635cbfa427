------------------------------- MODULE SseStream -------------------------------
(***************************************************************************)
(* One streamed answer: StreamWrapper of tokencamp-core/src/streaming.rs   *)
(* between the byte stream of the upstream response and the SSE response   *)
(* chat_completions returns (gateway/src/routes/chat.rs), with the chunk   *)
(* transformer of the anthropic adapter, the only one there is.            *)
(*                                                                         *)
(* The upstream body is a sequence of SSE events.  An event is two units,  *)
(* what comes before its last byte and that byte, so that a network chunk  *)
(* may end inside an event, and may hold several.  The wrapper's buffer    *)
(* holds the units after the last one drained, up to received.             *)
(*                                                                         *)
(* The end of an event is looked for in a decoded copy of the buffer, and  *)
(* the offset found there is drained from the buffer itself.  The two      *)
(* agree unless the event holds bytes that are not UTF-8 (a "garbled"      *)
(* event): each run of those becomes a replacement character of three      *)
(* bytes, the copy is longer, and drain takes bytes of what follows, or    *)
(* panics when nothing follows.  A character split between two network     *)
(* chunks does no harm, for it lies behind the first end of an event.      *)
(*                                                                         *)
(* The wrapper is polled by the task that writes the response.  That task  *)
(* runs only when it has been woken: it goes on by itself as long as the   *)
(* wrapper returns Ready, and sleeps when it returns Pending.              *)
(***************************************************************************)
EXTENDS Integers, Sequences

CONSTANT Bodies   \* the upstream bodies, as sequences of Events

\* "silent" is an event that yields no chunk: no data line, [DONE], or data that
\* is not JSON.  "other" is a type the transformer has no arm for, or no type.
Kinds == {"message_start", "content_block_delta", "message_delta", "message_stop",
          "other", "silent"}

Events == [kind : Kinds, garbled : BOOLEAN]

ASSUME BodiesAssumption == Bodies \subseteq Seq(Events)

\* What the client can see of a chunk: a role, a text, a finish reason, or nothing,
\* for the done flag of message_stop is not serialised.
Chunks == {"role", "text", "finish", "empty"}

\* anthropic_chunk_to_openai.
ChunkOf(kind) ==
  CASE kind = "message_start" -> "role"
    [] kind = "content_block_delta" -> "text"
    [] kind = "message_delta" -> "finish"
    [] OTHER -> "empty"

VARIABLES
  body,        \* what upstream answers with
  wire,        \* the upstream connection: "open", "ended" or "failed"
  sent,        \* units that have arrived from upstream
  received,    \* units handed to the wrapper
  drained,     \* units drained from the wrapper's buffer
  delivered,   \* the chunks given to the client, each with its event
  woken,       \* the response task is scheduled
  registered,  \* the byte stream holds the task's waker
  told,        \* the client has been sent an error event
  status,      \* the response: "streaming", "ended", "dropped" or "panicked"
  coalesced    \* history: some network chunk completed more than one event

upstream == <<body, wire, sent>>
buffer == <<received, drained, coalesced>>
vars == <<upstream, buffer, delivered, woken, registered, told, status>>

Units == 2 * Len(body)

\* The number of events whose last byte is among the first n units.
Complete(n) == n \div 2

\* The event at the front of the buffer, and whether its first bytes are gone.
Front == drained \div 2 + 1
Torn == drained % 2 = 1

TypeOK ==
  /\ body \in Bodies
  /\ wire \in {"open", "ended", "failed"}
  /\ sent \in 0..Units
  /\ received \in 0..sent
  /\ drained \in 0..received
  /\ delivered \in Seq([event : 1..Len(body), chunk : Chunks])
  /\ status \in {"streaming", "ended", "dropped", "panicked"}
  /\ woken \in BOOLEAN /\ registered \in BOOLEAN
  /\ told \in BOOLEAN /\ coalesced \in BOOLEAN

Init ==
  /\ body \in Bodies
  /\ wire = "open"
  /\ sent = 0
  /\ received = 0
  /\ drained = 0
  /\ delivered = <<>>
  /\ woken = TRUE
  /\ registered = FALSE
  /\ told = FALSE
  /\ status = "streaming"
  /\ coalesced = FALSE

\* The byte stream became ready: it wakes the task whose waker it holds.
WakeUp ==
  /\ woken' = (woken \/ registered)
  /\ registered' = FALSE
-----------------------------------------------------------------------------
\* Bytes arrive from upstream.
Send ==
  /\ wire = "open"
  /\ \E n \in (sent + 1)..Units : sent' = n
  /\ WakeUp
  /\ UNCHANGED <<body, wire, buffer, delivered, told, status>>

\* Upstream has sent the whole body and ends it.
Finish ==
  /\ wire = "open"
  /\ sent = Units
  /\ wire' = "ended"
  /\ WakeUp
  /\ UNCHANGED <<body, sent, buffer, delivered, told, status>>

\* The connection is lost, or the client's 60 s are over.
Fail ==
  /\ wire = "open"
  /\ wire' = "failed"
  /\ WakeUp
  /\ UNCHANGED <<body, sent, buffer, delivered, told, status>>

Polling == woken /\ status = "streaming"

\* What the event at the front is read as.  Replacement characters, or a torn
\* front, can cost it its type, its data, or nothing that matters.
Readings ==
  IF (body[Front].garbled \/ Torn) /\ body[Front].kind # "silent"
    THEN {body[Front].kind, "other", "silent"}
    ELSE {body[Front].kind}

Overshoot_SkipsSeparatorTwice(n) == IF n > 2 * Front THEN {1} ELSE {0}

\* How many units behind the front event are drained with it, when n have been
\* received.
Overshoot(n) ==
  IF body[Front].garbled THEN 0..(n - 2 * Front) ELSE {0}

Deliver(kind) ==
  delivered' = IF kind = "silent" THEN delivered
               ELSE Append(delivered, [event |-> Front, chunk |-> ChunkOf(kind)])

Extract_KeepsData(n) ==
  IF Front <= Complete(n)
    THEN \E kind \in Readings, extra \in Overshoot(n) :
           /\ drained' = IF kind = "silent" THEN 2 * Front + extra ELSE drained
           /\ Deliver(kind)
    ELSE UNCHANGED <<drained, delivered>>

Extract_PartialEvent(n) ==
  IF drained < n
    THEN \E kind \in Readings, extra \in Overshoot(n) :
           /\ drained' = 2 * Front + extra
           /\ Deliver(kind)
    ELSE UNCHANGED <<drained, delivered>>

\* extract_sse_event after a read that filled the buffer up to n: at most one
\* event is drained, the first one.  It is given to the client if it has data.
Extract(n) ==
  IF Front <= Complete(n)
    THEN \E kind \in Readings, extra \in Overshoot(n) :
           /\ drained' = 2 * Front + extra
           /\ Deliver(kind)
    ELSE UNCHANGED <<drained, delivered>>

\* The byte stream returns a chunk: bytes up to unit n.
Receive(n) ==
  /\ received' = n
  /\ coalesced' = (coalesced \/ Complete(n) > Complete(received) + 1)

PollBytes_NoWake ==
  /\ Polling
  /\ \E n \in (received + 1)..sent : Receive(n) /\ Extract(n)
  /\ woken' = (delivered' # delivered)
  /\ UNCHANGED <<upstream, registered, told, status>>

PollBytes_DropsPartial ==
  /\ Polling
  /\ \E n \in (received + 1)..sent :
       /\ Receive(n)
       /\ IF n % 2 = 0 THEN Extract(n) ELSE UNCHANGED <<drained, delivered>>
  /\ UNCHANGED <<upstream, woken, registered, told, status>>

\* The byte stream returns a chunk.  Without a chunk for the client the wrapper
\* wakes its own task before it returns Pending: the byte stream was ready, so
\* it holds no waker.
PollBytes ==
  /\ Polling
  /\ \E n \in (received + 1)..sent : Receive(n) /\ Extract(n)
  /\ UNCHANGED <<upstream, woken, registered, told, status>>

\* The byte stream returns a chunk, and drain is asked for more bytes than the
\* buffer holds: the response task panics.
PollPanics ==
  /\ Polling
  /\ \E n \in (received + 1)..sent :
       /\ Receive(n)
       /\ Front <= Complete(n)
       /\ body[Front].garbled
  /\ status' = "panicked"
  /\ UNCHANGED <<upstream, drained, delivered, woken, registered, told>>

\* The byte stream returns Pending and keeps the waker.
PollPending ==
  /\ Polling
  /\ wire = "open"
  /\ received = sent
  /\ woken' = FALSE
  /\ registered' = TRUE
  /\ UNCHANGED <<upstream, buffer, delivered, told, status>>

\* The byte stream returns an error, which becomes an error event; bytes that
\* had arrived may be lost with it.  What follows is up to the byte stream: the
\* error again, or the end.
PollErr ==
  /\ Polling
  /\ wire = "failed"
  /\ told' = TRUE
  /\ UNCHANGED <<upstream, buffer, delivered, woken, registered, status>>

PollEnd_LeavesUnread ==
  /\ Polling
  /\ \/ wire = "ended"
     \/ wire = "failed" /\ told
  /\ status' = "ended"
  /\ UNCHANGED <<upstream, buffer, delivered, woken, registered, told>>

\* The byte stream is over, and so is the response, whatever the buffer holds.
PollEnd ==
  /\ Polling
  /\ \/ wire = "ended" /\ received = sent
     \/ wire = "failed" /\ told
  /\ status' = "ended"
  /\ UNCHANGED <<upstream, buffer, delivered, woken, registered, told>>

\* The client goes away and the response is dropped.
Disconnect ==
  /\ status = "streaming"
  /\ status' = "dropped"
  /\ UNCHANGED <<upstream, buffer, delivered, woken, registered, told>>

Poll == PollBytes \/ PollPanics \/ PollPending \/ PollErr \/ PollEnd

Next == Send \/ Finish \/ Fail \/ Poll \/ Disconnect

\* A task that was woken is polled again: tokio schedules it, and the client
\* that is still there reads what it is sent.
Fairness == WF_vars(Poll)

Spec == Init /\ [][Next]_vars /\ Fairness
-----------------------------------------------------------------------------
\* The events drained from the buffer, up to their last byte.
Taken == drained \div 2

CleanUpTo(i) == \A j \in 1..i : ~ body[j].garbled

DeliveredEvents == {delivered[i].event : i \in 1..Len(delivered)}

DataEvents(n) == {i \in 1..n : body[i].kind # "silent"}

\* Whatever the chunk boundaries are, the client gets each event at most once and
\* in upstream's order, and only events taken from the buffer.
\* (StreamWrapper::poll_next, which drains and returns in one poll.)
DeliveredInOrder ==
  /\ \A i, j \in 1..Len(delivered) : i < j => delivered[i].event < delivered[j].event
  /\ DeliveredEvents \subseteq DataEvents(Taken)

\* Bytes that do not decode harm their own event and what comes after it.  The events
\* before them reach the client, each as the chunk its type calls for, and without
\* them the buffer always begins with an event and drain never panics, wherever
\* the network cut the body (extract_sse_event, which measures one string and cuts
\* another).
DamageGoesForward ==
  /\ \A i \in 1..Taken : CleanUpTo(i) /\ body[i].kind # "silent" =>
       \E j \in 1..Len(delivered) :
         delivered[j] = [event |-> i, chunk |-> ChunkOf(body[i].kind)]
  /\ Torn => ~ CleanUpTo(Taken)
  /\ status = "panicked" => ~ CleanUpTo(Complete(received))

\* As long as no network chunk completes two events at once, poll_next keeps up:
\* no complete event waits in the buffer, so the end of the body loses nothing.
KeepsUpWithUpstream == ~coalesced /\ status # "panicked" => Front > Complete(received)

\* When upstream has ended a body that decodes, and no network chunk completed two of
\* its events, the response ends with all of its events that have data: what
\* poll_next left in its buffer, and what had arrived when the end did, was read.
SpacedEventsArrive ==
  /\ status = "ended" /\ wire = "ended"
  /\ ~ coalesced /\ CleanUpTo(Len(body))
  => DeliveredEvents = DataEvents(Len(body))

\* A body that upstream ended is never left hanging: the response ends too, or
\* the client has left.  Each Pending of poll_next must leave someone to wake
\* the task (the byte stream, or wake_by_ref).
EndsWithUpstream == wire = "ended" ~> status # "streaming"

\* docs/adr/014-streaming.md:95 promises the client of a streamed answer what it
\* would get from OpenAI directly: when upstream has ended its body, the response
\* has carried all of its events that have data.
AllDelivered ==
  status = "ended" /\ wire = "ended" /\ CleanUpTo(Len(body)) =>
    DeliveredEvents = DataEvents(Len(body))
================================================================================
