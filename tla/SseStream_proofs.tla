--------------------------- MODULE SseStream_proofs ----------------------------
(***************************************************************************)
(* Proofs about SseStream, for every set of upstream bodies.               *)
(*                                                                         *)
(* Every poll either leaves the buffer's front where it is or takes the    *)
(* event there and, if its bytes do not decode, some of what follows       *)
(* (ExtractMoves).  From that: the types; that the chunks given to the     *)
(* client are in upstream's order; that the events before the first one    *)
(* that does not decode reach the client as they are; and that a wrapper   *)
(* fed at most one event per network chunk keeps up.                       *)
(***************************************************************************)
EXTENDS SseStream, TLAPS

USE DEF Complete

LEMMA BodyTyped ==
  ASSUME TypeOK
  PROVE  /\ body \in Seq(Events)
         /\ Len(body) \in Nat
         /\ \A i \in 1..Len(body) : body[i] \in Events
  BY BodiesAssumption DEF TypeOK

\* What one poll does to the front of the buffer.
LEMMA ExtractMoves ==
  ASSUME TypeOK, NEW n \in (received + 1)..sent, Extract(n)
  PROVE  \/ ~(Front <= Complete(n)) /\ UNCHANGED <<drained, delivered>>
         \/ /\ Front \in 1..Complete(n) /\ Front \in 1..Len(body)
            /\ \E kind \in Readings, extra \in 0..(n - 2 * Front) :
                 /\ drained' = 2 * Front + extra
                 /\ extra > 0 => body[Front].garbled
                 /\ Deliver(kind)
<1>1. CASE ~(Front <= Complete(n))
  BY <1>1 DEF Extract
<1>2. CASE Front <= Complete(n)
  <2>1. Len(body) \in Nat
    BY BodyTyped
  <2>2. Front \in 1..Complete(n) /\ Front \in 1..Len(body)
    BY <1>2, <2>1 DEF TypeOK, Front, Units
  <2>3. PICK kind \in Readings, extra \in Overshoot(n) :
          drained' = 2 * Front + extra /\ Deliver(kind)
    BY <1>2 DEF Extract
  <2>4. 2 * Front <= n
    BY <1>2, <2>2 DEF TypeOK
  <2>5. extra \in 0..(n - 2 * Front) /\ (extra > 0 => body[Front].garbled)
    BY <2>2, <2>4 DEF Overshoot, TypeOK
  <2> QED
    BY <2>2, <2>3, <2>5
<1> QED
  BY <1>1, <1>2

\* What the client has been given after it.
LEMMA DeliverAppends ==
  ASSUME TypeOK, Front \in 1..Len(body), NEW kind \in Readings, Deliver(kind)
  PROVE  \/ kind = "silent" /\ delivered' = delivered
         \/ /\ kind # "silent" /\ body[Front].kind # "silent"
            /\ delivered' = Append(delivered, [event |-> Front, chunk |-> ChunkOf(kind)])
            /\ ChunkOf(kind) \in Chunks
<1>1. body[Front].kind = "silent" => kind = "silent"
  BY DEF Readings
<1>2. ChunkOf(kind) \in Chunks
  BY DEF ChunkOf, Chunks
<1> QED
  BY <1>1, <1>2 DEF Deliver

LEMMA WakeUpTyped ==
  ASSUME woken \in BOOLEAN, WakeUp
  PROVE  woken' \in BOOLEAN /\ registered' \in BOOLEAN
  BY DEF WakeUp

\* TypeOK: the wrapper never drains what has not arrived, and never hands out more
\* than upstream sent.
THEOREM TypeCorrect == Spec => []TypeOK
<1> USE DEF TypeOK, Units
<1>1. Init => TypeOK
  <2> SUFFICES ASSUME Init PROVE TypeOK
    OBVIOUS
  <2>1. body \in Bodies /\ body \in Seq(Events)
    BY BodiesAssumption DEF Init
  <2>2. Len(body) \in Nat
    BY <2>1
  <2>3. sent \in 0..Units /\ received \in 0..sent /\ drained \in 0..received
    BY <2>2 DEF Init
  <2>4. delivered \in Seq([event : 1..Len(body), chunk : Chunks])
    BY DEF Init
  <2>5. /\ woken \in BOOLEAN /\ registered \in BOOLEAN
        /\ told \in BOOLEAN /\ coalesced \in BOOLEAN
    BY DEF Init
  <2>6. wire \in {"open", "ended", "failed"}
    BY DEF Init
  <2>7. status \in {"streaming", "ended", "dropped", "panicked"}
    BY DEF Init
  <2> QED
    BY <2>1, <2>3, <2>4, <2>5, <2>6, <2>7
<1>2. TypeOK /\ [Next]_vars => TypeOK'
  <2> SUFFICES ASSUME TypeOK, [Next]_vars PROVE TypeOK'
    OBVIOUS
  <2>1. body \in Seq(Events) /\ Len(body) \in Nat
    BY BodyTyped
  <2>2. CASE Send
    BY <2>1, <2>2, WakeUpTyped DEF Send, buffer
  <2>3. CASE Finish
    BY <2>1, <2>3, WakeUpTyped DEF Finish, buffer
  <2>4. CASE Fail
    BY <2>1, <2>4, WakeUpTyped DEF Fail, buffer
  <2>5. CASE PollBytes
    <3>1. PICK n \in (received + 1)..sent : Receive(n) /\ Extract(n)
      BY <2>5 DEF PollBytes
    <3>2. n \in Nat /\ received' = n /\ coalesced' \in BOOLEAN
      BY <2>1, <3>1 DEF Receive
    <3>3. /\ UNCHANGED <<body, wire, sent, woken, registered, told, status>>
          /\ received' \in 0..sent' /\ sent' \in 0..Units'
      BY <2>1, <2>5, <3>1, <3>2 DEF PollBytes, upstream
    <3>4. drained' \in 0..received' /\ delivered' \in Seq([event : 1..Len(body), chunk : Chunks])
      <4>1. CASE UNCHANGED <<drained, delivered>>
        BY <2>1, <3>2, <4>1
      <4>2. CASE ~ UNCHANGED <<drained, delivered>>
        <5>1. PICK kind \in Readings, extra \in 0..(n - 2 * Front) :
                /\ Front \in 1..Complete(n) /\ Front \in 1..Len(body)
                /\ drained' = 2 * Front + extra
                /\ Deliver(kind)
          BY <3>1, <4>2, ExtractMoves
        <5>2. drained' \in 0..received'
          BY <3>2, <5>1
        <5> HIDE DEF TypeOK
        <5>3. \/ delivered' = delivered
              \/ /\ delivered' = Append(delivered, [event |-> Front, chunk |-> ChunkOf(kind)])
                 /\ ChunkOf(kind) \in Chunks
          BY <5>1, DeliverAppends
        <5>4. delivered \in Seq([event : 1..Len(body), chunk : Chunks])
          BY DEF TypeOK
        <5> DEFINE T == [event : 1..Len(body), chunk : Chunks]
        <5>5. delivered' \in Seq(T)
          <6>1. \A c \in Chunks : [event |-> Front, chunk |-> c] \in T
            BY <5>1
          <6> HIDE DEF T
          <6>2. delivered \in Seq(T) => \A t \in T : Append(delivered, t) \in Seq(T)
            OBVIOUS
          <6>3. delivered \in Seq(T)
            BY <5>4 DEF T
          <6> QED
            BY <5>3, <6>1, <6>2, <6>3
        <5> QED
          BY <5>2, <5>5
      <4> QED
        BY <4>1, <4>2
    <3> QED
      BY <3>2, <3>3, <3>4
  <2>6. CASE PollPanics
    <3>1. PICK n \in (received + 1)..sent : Receive(n)
      BY <2>6 DEF PollPanics
    <3>2. received' = n /\ coalesced' \in BOOLEAN
      BY <3>1 DEF Receive
    <3> QED
      BY <2>1, <2>6, <3>2 DEF PollPanics, upstream
  <2>7. CASE PollPending
    BY <2>1, <2>7 DEF PollPending, upstream, buffer
  <2>8. CASE PollErr
    BY <2>1, <2>8 DEF PollErr, upstream, buffer
  <2>9. CASE PollEnd
    BY <2>1, <2>9 DEF PollEnd, upstream, buffer
  <2>10. CASE Disconnect
    BY <2>1, <2>10 DEF Disconnect, upstream, buffer
  <2>11. CASE UNCHANGED vars
    BY <2>11 DEF vars, upstream, buffer
  <2> QED
    BY <2>2, <2>3, <2>4, <2>5, <2>6, <2>7, <2>8, <2>9, <2>10, <2>11 DEF Next, Poll
<1> QED
  BY <1>1, <1>2, PTL DEF Spec
-----------------------------------------------------------------------------
\* Only a poll that finds bytes moves the front of the buffer.
LEMMA OnlyPollBytesDrains ==
  ASSUME [Next]_vars, ~PollBytes
  PROVE  UNCHANGED <<body, drained, delivered>>
  BY DEF Next, Poll, Send, Finish, Fail, PollPanics, PollPending, PollErr, PollEnd,
         Disconnect, vars, upstream, buffer

\* What a poll that takes an event leaves behind: the event is counted as taken,
\* and what is delivered grows by it or stays.
LEMMA PollBytesTakes ==
  ASSUME TypeOK, PollBytes, ~ UNCHANGED <<drained, delivered>>
  PROVE  /\ body' = body
         /\ Taken \in Nat /\ Front = Taken + 1 /\ Front \in 1..Len(body)
         /\ Taken' \in Nat /\ Front <= Taken'
         /\ drained' # 2 * Front => body[Front].garbled
         /\ \E kind \in Readings : Deliver(kind)
<1>1. PICK n \in (received + 1)..sent : Extract(n)
  BY DEF PollBytes
<1>2. PICK kind \in Readings, extra \in 0..(n - 2 * Front) :
        /\ Front \in 1..Complete(n) /\ Front \in 1..Len(body)
        /\ drained' = 2 * Front + extra
        /\ extra > 0 => body[Front].garbled
        /\ Deliver(kind)
  BY <1>1, ExtractMoves
<1>3. drained \in Nat /\ n \in Nat
  BY <1>1 DEF TypeOK
<1>4. Taken \in Nat /\ Front = Taken + 1
  BY <1>3 DEF Taken, Front
<1>5. extra \in Nat /\ Front \in Nat
  BY <1>2, <1>3, <1>4
<1>6. Taken' \in Nat /\ Front <= Taken'
  BY <1>2, <1>5 DEF Taken
<1>7. body' = body
  BY DEF PollBytes, upstream
<1> QED
  BY <1>2, <1>4, <1>5, <1>6, <1>7

\* DeliveredInOrder: nothing twice, nothing out of order.
THEOREM OrderKept == Spec => []DeliveredInOrder
<1> USE DEF DeliveredInOrder, DeliveredEvents, DataEvents
<1>1. Init => DeliveredInOrder
  BY DEF Init
<1>2. TypeOK /\ DeliveredInOrder /\ [Next]_vars => DeliveredInOrder'
  <2> SUFFICES ASSUME TypeOK, DeliveredInOrder, [Next]_vars
               PROVE  DeliveredInOrder'
    OBVIOUS
  <2>1. CASE PollBytes /\ ~ UNCHANGED <<drained, delivered>>
    <3>1. PICK kind \in Readings :
            /\ body' = body
            /\ Taken \in Nat /\ Front = Taken + 1 /\ Front \in 1..Len(body)
            /\ Taken' \in Nat /\ Front <= Taken'
            /\ Deliver(kind)
      BY <2>1, PollBytesTakes
    <3>2. CASE delivered' = delivered
      BY <3>1, <3>2
    <3>3. CASE /\ delivered' = Append(delivered, [event |-> Front, chunk |-> ChunkOf(kind)])
               /\ body[Front].kind # "silent"
      <4> DEFINE m == Len(delivered)
                 T == [event : 1..Len(body), chunk : Chunks]
      <4>1. delivered \in Seq(T)
        BY DEF TypeOK
      <4>2. /\ m \in Nat
            /\ Len(delivered') = m + 1
            /\ delivered'[m + 1].event = Front
            /\ \A i \in 1..m : delivered'[i] = delivered[i]
        BY <3>3, <4>1
      <4>3. \A i \in 1..m : delivered[i].event \in 1..Taken
        <5>1. \A i \in 1..m : delivered[i].event \in DeliveredEvents
          OBVIOUS
        <5> QED
          BY <5>1
      <4>4. \A i, j \in 1..Len(delivered') : i < j => delivered'[i].event < delivered'[j].event
        <5> SUFFICES ASSUME NEW i \in 1..(m + 1), NEW j \in 1..(m + 1), i < j
                     PROVE  delivered'[i].event < delivered'[j].event
          BY <4>2
        <5>1. i \in 1..m /\ delivered'[i] = delivered[i] /\ delivered[i].event \in 1..Taken
          BY <4>2, <4>3
        <5>2. CASE j \in 1..m
          BY <4>2, <5>1, <5>2
        <5>3. CASE j = m + 1
          BY <3>1, <4>2, <5>1, <5>3
        <5> QED
          BY <4>2, <5>2, <5>3
      <4>5. DeliveredEvents' = DeliveredEvents \union {Front}
        BY <4>2
      <4>6. DataEvents(Taken) \union {Front} \subseteq DataEvents(Taken)'
        BY <3>1, <3>3
      <4> QED
        BY <4>4, <4>5, <4>6
    <3> QED
      BY <3>1, <3>2, <3>3, DeliverAppends
  <2>2. CASE UNCHANGED <<body, drained, delivered>>
    BY <2>2 DEF Taken
  <2>3. PollBytes => body' = body
    BY DEF PollBytes, upstream
  <2> QED
    BY <2>1, <2>2, <2>3, OnlyPollBytesDrains
<1> QED
  BY <1>1, <1>2, TypeCorrect, PTL DEF Spec
-----------------------------------------------------------------------------
\* DamageGoesForward: what precedes the first event that does not decode reaches the
\* client as upstream sent it, and a body that decodes never tears the buffer nor
\* makes drain panic.
THEOREM CleanEventsKept == Spec => []DamageGoesForward
<1> USE DEF DamageGoesForward, CleanUpTo
<1>1. Init => DamageGoesForward
  BY DEF Init, Taken, Torn
<1>2. TypeOK /\ DamageGoesForward /\ [Next]_vars => DamageGoesForward'
  <2> SUFFICES ASSUME TypeOK, DamageGoesForward, [Next]_vars
               PROVE  DamageGoesForward'
    OBVIOUS
  <2>1. received \in Nat /\ drained \in Nat /\ sent \in Int
    BY DEF TypeOK
  <2>2. status' = "panicked" => ~ CleanUpTo(Complete(received))'
    <3> SUFFICES ASSUME status' = "panicked" PROVE ~ CleanUpTo(Complete(received))'
      OBVIOUS
    <3>1. CASE PollPanics
      <4>1. PICK n \in (received + 1)..sent :
              received' = n /\ Front <= Complete(n) /\ body[Front].garbled
        BY <3>1 DEF PollPanics, Receive
      <4>2. Front \in 1..Complete(n)
        BY <2>1, <4>1 DEF Front
      <4> QED
        BY <3>1, <4>1, <4>2 DEF PollPanics, upstream
    <3>2. CASE ~ PollPanics
      <4>1. status = "panicked"
        BY <3>2 DEF Next, Poll, Send, Finish, Fail, PollBytes, PollPending, PollErr,
                    PollEnd, Disconnect, Polling, vars
      <4>2. UNCHANGED <<body, received>>
        BY <3>2, <4>1 DEF Next, Poll, Send, Finish, Fail, PollBytes, PollPending,
                          PollErr, PollEnd, Disconnect, Polling, vars, upstream, buffer
      <4> QED
        BY <4>1, <4>2
    <3> QED
      BY <3>1, <3>2
  <2>3. CASE PollBytes /\ ~ UNCHANGED <<drained, delivered>>
    <3>1. PICK kind \in Readings :
            /\ body' = body
            /\ Taken \in Nat /\ Front = Taken + 1 /\ Front \in 1..Len(body)
            /\ Taken' \in Nat /\ Front <= Taken'
            /\ drained' # 2 * Front => body[Front].garbled
            /\ Deliver(kind)
      BY <2>3, PollBytesTakes
    <3>2. Torn' => ~ CleanUpTo(Taken)'
      <4>1. Torn' => drained' # 2 * Front
        BY <3>1 DEF Torn
      <4> QED
        BY <3>1, <4>1
    <3>3. ASSUME NEW i \in 1..Taken', CleanUpTo(i), body[i].kind # "silent"
          PROVE  \E j \in 1..Len(delivered') :
                   delivered'[j] = [event |-> i, chunk |-> ChunkOf(body[i].kind)]
      <4> DEFINE m == Len(delivered)
                 T == [event : 1..Len(body), chunk : Chunks]
      <4>1. delivered \in Seq(T) /\ m \in Nat
        BY DEF TypeOK
      <4>2. \/ delivered' = delivered
            \/ /\ m + 1 = Len(delivered')
               /\ delivered'[m + 1] = [event |-> Front, chunk |-> ChunkOf(kind)]
               /\ \A j \in 1..m : delivered'[j] = delivered[j]
        BY <3>1, <4>1, DeliverAppends
      <4>3. CASE i <= Taken
        <5>1. PICK j \in 1..m : delivered[j] = [event |-> i, chunk |-> ChunkOf(body[i].kind)]
          BY <3>1, <3>3, <4>3
        <5>2. j \in 1..Len(delivered') /\ delivered'[j] = delivered[j]
          BY <4>1, <4>2, <5>1
        <5> QED
          BY <5>1, <5>2
      <4>4. CASE i = Front
        <5>1. ~ Torn /\ ~ body[Front].garbled
          BY <3>1, <3>3, <4>4
        <5>2. kind = body[Front].kind
          BY <5>1 DEF Readings
        <5>3. delivered' = Append(delivered, [event |-> Front, chunk |-> ChunkOf(kind)])
          BY <3>1, <3>3, <4>4, <5>2, DeliverAppends
        <5>4. m + 1 \in 1..Len(delivered') /\ delivered'[m + 1] = [event |-> Front, chunk |-> ChunkOf(kind)]
          BY <4>1, <5>3
        <5> QED
          BY <4>4, <5>2, <5>4
      <4>5. CASE i > Front
        <5>1. ~ body[Front].garbled
          BY <3>1, <3>3, <4>5
        <5>2. Taken' = Front
          BY <3>1, <5>1 DEF Taken
        <5> QED
          BY <3>1, <4>5, <5>2
      <4> QED
        BY <3>1, <4>3, <4>4, <4>5
    <3> QED
      BY <2>2, <3>1, <3>2, <3>3
  <2>4. CASE UNCHANGED <<body, drained, delivered>>
    <3>1. UNCHANGED <<Taken, Torn>>
      BY <2>4 DEF Taken, Torn
    <3> QED
      BY <2>2, <2>4, <3>1
  <2>5. PollBytes => body' = body
    BY DEF PollBytes, upstream
  <2> QED
    BY <2>3, <2>4, <2>5, OnlyPollBytesDrains
<1> QED
  BY <1>1, <1>2, TypeCorrect, PTL DEF Spec
-----------------------------------------------------------------------------
\* KeepsUpWithUpstream: as long as each network chunk completes at most one event,
\* no complete event waits in the buffer between two polls.
THEOREM KeepsUp == Spec => []KeepsUpWithUpstream
<1> USE DEF KeepsUpWithUpstream
<1>1. Init => KeepsUpWithUpstream
  BY DEF Init, Front
<1>2. TypeOK /\ KeepsUpWithUpstream /\ [Next]_vars => KeepsUpWithUpstream'
  <2> SUFFICES ASSUME TypeOK, KeepsUpWithUpstream, [Next]_vars,
                      ~ coalesced', status' # "panicked"
               PROVE  Front' > Complete(received')
    OBVIOUS
  <2>1. received \in Nat /\ sent \in Int /\ drained \in Nat /\ coalesced \in BOOLEAN
    BY DEF TypeOK
  <2>2. CASE PollBytes
    <3>1. PICK n \in (received + 1)..sent : Receive(n) /\ Extract(n)
      BY <2>2 DEF PollBytes
    <3>2. ~coalesced /\ ~(Complete(n) > Complete(received) + 1) /\ received' = n
      <4> HIDE DEF Complete
      <4> QED
        BY <3>1 DEF Receive
    <3>3. status # "panicked"
      BY <2>2 DEF PollBytes
    <3>4. Front > Complete(received) /\ Complete(n) <= Complete(received) + 1
      BY <2>1, <3>2, <3>3
    <3>5. Front \in Nat /\ Complete(n) <= Front
      BY <2>1, <3>4 DEF Front
    <3>6. CASE Front <= Complete(n)
      <4>1. PICK extra \in 0..(n - 2 * Front) : drained' = 2 * Front + extra
        BY <3>1, <3>6, ExtractMoves
      <4>2. n \in Nat /\ extra \in Nat
        BY <2>1, <3>5
      <4>3. Front' > Front
        BY <3>5, <4>1, <4>2 DEF Front
      <4>4. Front' \in Nat /\ Complete(n) \in Nat
        BY <3>5, <4>1, <4>2 DEF Front
      <4> QED
        BY <3>2, <3>5, <4>3, <4>4
    <3>7. CASE ~(Front <= Complete(n))
      <4>1. Front' = Front
        BY <3>1, <3>7 DEF Extract, Front
      <4> QED
        BY <3>2, <3>5, <3>7, <4>1
    <3> QED
      BY <3>6, <3>7
  <2>3. CASE ~PollBytes
    <3>1. ~ PollPanics
      BY DEF PollPanics
    <3>2. UNCHANGED <<received, drained, coalesced>> /\ status # "panicked"
      BY <2>3, <3>1 DEF Next, Poll, Send, Finish, Fail, PollPending, PollErr, PollEnd,
                        Disconnect, Polling, vars, upstream, buffer
    <3> QED
      BY <3>2 DEF Front
  <2> QED
    BY <2>2, <2>3
<1> QED
  BY <1>1, <1>2, TypeCorrect, PTL DEF Spec
-----------------------------------------------------------------------------
\* A response that ends with the body has read all of it.
ReadToTheEnd ==
  /\ wire = "ended" => sent = Units
  /\ status = "ended" => wire # "open"
  /\ wire = "ended" /\ status = "ended" => received = sent

\* SpacedEventsArrive: the wrapper that kept up to the end has taken every event, and
\* a taken event of a body that decodes was delivered.
THEOREM SpacedBodiesArrive == Spec => []SpacedEventsArrive
<1>1. Init => ReadToTheEnd
  BY DEF Init, ReadToTheEnd
<1>2. TypeOK /\ ReadToTheEnd /\ [Next]_vars => ReadToTheEnd'
  <2> SUFFICES ASSUME TypeOK, ReadToTheEnd, [Next]_vars
               PROVE  ReadToTheEnd'
    OBVIOUS
  <2> USE DEF ReadToTheEnd, Units, upstream, buffer
  <2>1. Send => ReadToTheEnd'
    BY DEF Send
  <2>2. Finish => ReadToTheEnd'
    BY DEF Finish, Polling
  <2>3. Fail => ReadToTheEnd'
    BY DEF Fail
  <2>4. PollBytes => ReadToTheEnd'
    BY DEF PollBytes, Polling
  <2>5. PollPanics => ReadToTheEnd'
    BY DEF PollPanics
  <2>6. PollPending \/ PollErr => ReadToTheEnd'
    BY DEF PollPending, PollErr
  <2>7. PollEnd => ReadToTheEnd'
    BY DEF PollEnd
  <2>8. Disconnect => ReadToTheEnd'
    BY DEF Disconnect
  <2>9. UNCHANGED vars => ReadToTheEnd'
    BY DEF vars
  <2> QED
    BY <2>1, <2>2, <2>3, <2>4, <2>5, <2>6, <2>7, <2>8, <2>9 DEF Next, Poll
<1>3. /\ TypeOK /\ ReadToTheEnd /\ KeepsUpWithUpstream
      /\ DeliveredInOrder /\ DamageGoesForward
      => SpacedEventsArrive
  <2> SUFFICES ASSUME TypeOK, ReadToTheEnd, KeepsUpWithUpstream,
                      DeliveredInOrder, DamageGoesForward,
                      status = "ended", wire = "ended", ~ coalesced, CleanUpTo(Len(body))
               PROVE  DeliveredEvents = DataEvents(Len(body))
    BY DEF SpacedEventsArrive
  <2>1. Len(body) \in Nat /\ drained \in Nat /\ drained <= 2 * Len(body) /\ received = 2 * Len(body)
    BY BodyTyped DEF TypeOK, ReadToTheEnd, Units
  <2>2. Taken = Len(body)
    <3>1. drained \div 2 + 1 > (2 * Len(body)) \div 2
      BY <2>1 DEF KeepsUpWithUpstream, Front, Complete
    <3>2. ASSUME NEW n \in Nat, NEW d \in Nat, d <= 2 * n, d \div 2 + 1 > (2 * n) \div 2
          PROVE  d \div 2 = n
      <4>1. (2 * n) \div 2 = n
        BY SMT
      <4>2. d \div 2 <= n
        BY <3>2, SMT
      <4>3. d \div 2 \in Int /\ d \div 2 + 1 > n
        BY <3>2, <4>1, SMT
      <4> QED
        BY <4>2, <4>3
    <3> QED
      BY <2>1, <3>1, <3>2 DEF Taken
  <2>3. ASSUME NEW i \in DataEvents(Len(body))
        PROVE  i \in DeliveredEvents
    <3>1. i \in 1..Taken /\ CleanUpTo(i) /\ body[i].kind # "silent"
      BY <2>1, <2>2 DEF DataEvents, CleanUpTo
    <3>2. PICK j \in 1..Len(delivered) :
            delivered[j] = [event |-> i, chunk |-> ChunkOf(body[i].kind)]
      BY <3>1 DEF DamageGoesForward
    <3>3. delivered[j].event = i
      BY <3>2
    <3> QED
      BY <3>3 DEF DeliveredEvents
  <2>4. DeliveredEvents \subseteq DataEvents(Len(body))
    BY <2>2 DEF DeliveredInOrder
  <2> QED
    BY <2>3, <2>4
<1> QED
  BY <1>1, <1>2, <1>3, TypeCorrect, KeepsUp, OrderKept, CleanEventsKept, PTL DEF Spec
================================================================================
