---------------------- MODULE ChatPipelineCounters_proofs ----------------------
(***************************************************************************)
(* The counters of ChatPipeline add up, for any number of requests and     *)
(* gateways and any crashes.  ExactlyCounted compares numbers with the      *)
(* sizes of sets of requests; a step of a handler moves one request into   *)
(* or out of these sets, and a crash empties those of its gateway.         *)
(***************************************************************************)
EXTENDS ChatPipeline_proofs, FiniteSetTheorems

\* The sets ExactlyCounted counts, and its two parts for one gateway.
Here(g) == On(g) \ lost
Seen(g) == Among(Here(g), Counted)
Hits(g) == {r \in Among(Here(g), {"served"}) : ~ Called(r)}
Left(g) == Among(Here(g), {"gone"})
StreamsSeen(g) == Among({r \in Here(g) : ask[r].stream}, Counted)
StreamsLeft(g) == Among({r \in Here(g) : ask[r].stream}, {"gone"})

TotalAddsUp(g) ==
  metrics[g].total - Cardinality(Seen(g)) - Cardinality(Hits(g)) \in 0..Cardinality(Left(g))
StreamingAddsUp(g) ==
  metrics[g].streaming - Cardinality(StreamsSeen(g)) \in 0..Cardinality(StreamsLeft(g))

\* What the code counts, exactly: a request that passed the hooks once, and once more
\* if the cache answered it; one the client left once or not at all.
ExactlyCounted == \A g \in Gateways : TotalAddsUp(g) /\ StreamingAddsUp(g)

\* All of these sets are finite.
LEMMA SetsFinite ==
  ASSUME NEW g
  PROVE  \A S \in {Seen(g), Hits(g), Left(g), StreamsSeen(g), StreamsLeft(g)} :
           IsFiniteSet(S) /\ Cardinality(S) \in Nat
<1>1. \A S \in SUBSET Requests : IsFiniteSet(S) /\ Cardinality(S) \in Nat
  BY RequestsAssumption, FS_Subset, FS_CardinalityType
<1>2. {Seen(g), Hits(g), Left(g), StreamsSeen(g), StreamsLeft(g)} \subseteq SUBSET Requests
  BY DEF Seen, Hits, Left, StreamsSeen, StreamsLeft, Here, On, Among
<1> QED
  BY <1>1, <1>2

\* The size of a set that only r may enter or leave.
Size(n, before, after) ==
  IF before = after THEN n ELSE IF after THEN n + 1 ELSE n - 1

LEMMA OneMoves ==
  ASSUME NEW S, NEW T, NEW r, IsFiniteSet(S), S \ {r} = T \ {r}
  PROVE  Cardinality(T) = Size(Cardinality(S), r \in S, r \in T)
<1>1. CASE r \in S /\ r \in T
  <2>1. S = T
    BY <1>1
  <2> QED
    BY <1>1, <2>1 DEF Size
<1>2. CASE r \notin S /\ r \notin T
  <2>1. S = T
    BY <1>2
  <2> QED
    BY <1>2, <2>1 DEF Size
<1>3. CASE r \notin S /\ r \in T
  <2>1. T = S \union {r}
    BY <1>3
  <2> QED
    BY <1>3, <2>1, FS_AddElement DEF Size
<1>4. CASE r \in S /\ r \notin T
  <2>1. T = S \ {r}
    BY <1>4
  <2> QED
    BY <1>4, <2>1, FS_RemoveElement DEF Size
<1> QED
  BY <1>1, <1>2, <1>3, <1>4

\* What Count does to the counters.
LEMMA CountEffect ==
  ASSUME TypeOK, NEW r \in Requests, gateway[r] \in Gateways, NEW fields, Count(r, fields)
  PROVE  /\ \A g \in Gateways \ {gateway[r]} : metrics'[g] = metrics[g]
         /\ metrics'[gateway[r]].total =
              metrics[gateway[r]].total + (IF "total" \in fields THEN 1 ELSE 0)
         /\ metrics'[gateway[r]].streaming =
              metrics[gateway[r]].streaming + (IF "streaming" \in fields THEN 1 ELSE 0)
<1> DEFINE old == metrics[gateway[r]]
<1>1. old \in [total : Nat, streaming : Nat]
  BY DEF TypeOK
<1>2. DOMAIN old = {"total", "streaming"}
  BY <1>1
<1>3. metrics'[gateway[r]] = [f \in DOMAIN old |-> IF f \in fields THEN old[f] + 1 ELSE old[f]]
  BY DEF Count, TypeOK
<1>4. old.total \in Nat /\ old.streaming \in Nat
  BY <1>1
<1>5. \A g \in Gateways \ {gateway[r]} : metrics'[g] = metrics[g]
  BY DEF Count, TypeOK
<1> QED
  BY <1>2, <1>3, <1>4, <1>5

\* What a step of r's handler does to what r is counted as.
Moves(r) ==
  /\ r \notin lost
  /\ pc[r] \notin Ended
  /\ UNCHANGED lost
  /\ \A q \in Requests \ {r} :
       /\ pc'[q] = pc[q] /\ answer'[q] = answer[q]
       /\ gateway'[q] = gateway[q] /\ ask'[q] = ask[q]
  /\ gateway'[r] \in Gateways
  /\ pc[r] \in Counted => gateway'[r] = gateway[r] /\ ask'[r] = ask[r]
  /\ gateway[r] \in {gateway'[r], NoGateway}
  /\ \A g \in Gateways \ {gateway'[r]} : metrics'[g] = metrics[g]

Adds(r, total, streaming) ==
  /\ metrics'[gateway'[r]].total = metrics[gateway'[r]].total + total
  /\ metrics'[gateway'[r]].streaming = metrics[gateway'[r]].streaming + streaming

IsHit(r) == pc[r] = "served" /\ ~ Called(r)

Effect(r) ==
  \/ /\ pc[r] \notin Counted /\ pc'[r] \in Counted /\ ~ IsHit(r)'
     /\ Adds(r, 1, IF ask'[r].stream THEN 1 ELSE 0)
  \/ /\ pc[r] \in Counted /\ pc'[r] \in Counted /\ IsHit(r)'
     /\ Adds(r, 1, 0)
  \/ /\ pc'[r] = "gone" /\ Adds(r, 0, 0)
  \/ /\ pc[r] \in Counted <=> pc'[r] \in Counted
     /\ pc'[r] # "gone" /\ ~ IsHit(r)' /\ Adds(r, 0, 0)

\* A step of a handler, or of a client, moves one request and counts it as that calls for.
LEMMA HandleMoves ==
  ASSUME IInv, NEW r \in Requests, Handle(r)
  PROVE  Moves(r)
<1>1. /\ pc[r] \notin {"new"} \union Ended
      /\ UNCHANGED <<gateway, ask, lost>>
      /\ \A q \in Requests \ {r} : pc'[q] = pc[q] /\ answer'[q] = answer[q]
  BY DEF Handle, From, To, Ended, IInv, TypeOK, Authenticate, PreCallHooks, LookUp, AskBackend,
         Fill, Call, StoreLocal, StoreBackend, Reply
<1>2. gateway[r] \in Gateways
  BY <1>1 DEF IInv, TypeOK
<1>3. r \notin lost
  BY <1>1 DEF IInv, CrashesForget
<1>4. \A g \in Gateways \ {gateway[r]} : metrics'[g] = metrics[g]
  <2>1. ASSUME NEW fields, Count(r, fields)
        PROVE  \A g \in Gateways \ {gateway[r]} : metrics'[g] = metrics[g]
    BY <1>2, <2>1, CountEffect DEF IInv
  <2>2. UNCHANGED metrics \/ \E fields : Count(r, fields)
    BY DEF Handle, Authenticate, PreCallHooks, LookUp, AskBackend, Fill, Call, StoreLocal,
           StoreBackend, Reply
  <2> QED
    BY <2>1, <2>2
<1> QED
  BY <1>1, <1>2, <1>3, <1>4 DEF Moves

\* Nothing is counted, and r stays as it was.
LEMMA NothingAdded ==
  ASSUME IInv, NEW r \in Requests, gateway'[r] \in Gateways, UNCHANGED metrics
  PROVE  Adds(r, 0, 0)
<1>1. metrics[gateway'[r]] \in [total : Nat, streaming : Nat]
  BY DEF IInv, TypeOK
<1> QED
  BY <1>1 DEF Adds

\* A request in the cache finds an answer that is not its own.
LEMMA HitIsNotOwn ==
  ASSUME IInv, NEW r \in Requests, pc[r] \in {"lookup", "backend"}
  PROVE  /\ local[gateway[r]][KeyOf(r)] # r
         /\ backend[Home(r)][KeyOf(r)] # r
<1>1. /\ KeyOf(r) \in CacheKeys /\ gateway[r] \in Gateways /\ Home(r) \in Homes
      /\ answer[r] # r
  BY KeyOfArrived, NamesAssumption DEF IInv, Places
<1> QED
  BY <1>1, NamesAssumption DEF IInv, CachesSound, Sound, Called

LEMMA HandleEffect ==
  ASSUME IInv, NEW r \in Requests, Handle(r)
  PROVE  Effect(r)
<1>1. /\ gateway'[r] = gateway[r] /\ gateway[r] \in Gateways /\ ask'[r] = ask[r]
      /\ pc[r] # "new"
  BY DEF Handle, From, IInv, TypeOK, Authenticate, PreCallHooks, LookUp, AskBackend,
         Fill, Call, StoreLocal, StoreBackend, Reply
<1>2. ASSUME NEW place, To(r, place) PROVE pc'[r] = place
  BY <1>2 DEF To, IInv, TypeOK
<1>3. ASSUME UNCHANGED metrics PROVE Adds(r, 0, 0)
  BY <1>1, <1>3, NothingAdded
<1>4. ASSUME Count(r, {"total"}) PROVE Adds(r, 1, 0)
  BY <1>1, <1>4, CountEffect DEF Adds, IInv
<1>5. ASSUME Count(r, {"total", "streaming"}) PROVE Adds(r, 1, 1)
  BY <1>1, <1>5, CountEffect DEF Adds, IInv
<1>6. CASE Authenticate(r)
  BY <1>2, <1>3, <1>6 DEF Authenticate, From, Effect, IsHit, Counted, Storing
<1>7. CASE PreCallHooks(r)
  BY <1>1, <1>2, <1>3, <1>4, <1>5, <1>7
  DEF PreCallHooks, From, Effect, IsHit, Counted, Storing
<1>8. CASE LookUp(r)
  <2>1. pc[r] = "lookup" /\ answer'[r] = local[gateway[r]][KeyOf(r)] /\ answer'[r] # r
    BY <1>8, HitIsNotOwn DEF LookUp, From, IInv, TypeOK
  <2> QED
    BY <1>2, <1>3, <1>4, <1>8, <2>1 DEF LookUp, Effect, IsHit, Called, Counted, Storing
<1>9. CASE AskBackend(r)
  <2>1. pc[r] = "backend"
    BY <1>9 DEF AskBackend, From
  <2>2. ASSUME answer' = [answer EXCEPT ![r] = backend[Home(r)][KeyOf(r)]]
        PROVE  answer'[r] # r
    BY <2>1, <2>2, HitIsNotOwn DEF IInv, TypeOK
  <2> QED
    BY <1>2, <1>3, <1>4, <1>9, <2>1, <2>2 DEF AskBackend, Effect, IsHit, Called, Counted, Storing
<1>10. CASE Fill(r)
  BY <1>2, <1>4, <1>10 DEF Fill, From, Effect, IsHit, Called, Counted, Storing, IInv, Places
<1>11. CASE Call(r)
  <2>1. pc[r] = "calling" /\ UNCHANGED metrics
    BY <1>11 DEF Call, From
  <2>2. \/ answer'[r] = r /\ pc'[r] \in {"served", "set_local"}
        \/ pc'[r] = "failed"
    BY <1>2, <1>11 DEF Call, IInv, TypeOK
  <2> QED
    BY <1>3, <2>1, <2>2 DEF Effect, IsHit, Called, Counted, Storing
<1>12. CASE StoreLocal(r) \/ StoreBackend(r)
  BY <1>2, <1>3, <1>12 DEF StoreLocal, StoreBackend, From, Effect, IsHit, Counted, Storing
<1>13. CASE Reply(r)
  <2>1. pc[r] = "stored" /\ pc'[r] = "served" /\ answer'[r] = r /\ UNCHANGED metrics
    BY <1>2, <1>13 DEF Reply, From, IInv, Places, Called, Storing
  <2> QED
    BY <1>3, <2>1 DEF Effect, IsHit, Called, Counted, Storing
<1> QED
  BY <1>6, <1>7, <1>8, <1>9, <1>10, <1>11, <1>12, <1>13 DEF Handle

LEMMA ClientMoves ==
  ASSUME IInv, NEW r \in Requests,
         Disconnect(r) \/ \E g \in Gateways, a \in Asks : Arrive(r, g, a)
  PROVE  Moves(r) /\ Effect(r)
<1>1. CASE Disconnect(r)
  <2>1. /\ pc[r] \notin {"new"} \union Ended /\ pc'[r] = "gone"
        /\ UNCHANGED <<gateway, ask, lost, answer, metrics>>
        /\ \A q \in Requests \ {r} : pc'[q] = pc[q]
    BY <1>1 DEF Disconnect, To, Ended, IInv, TypeOK
  <2>2. gateway[r] \in Gateways /\ r \notin lost
    BY <2>1 DEF IInv, TypeOK, CrashesForget
  <2>3. Adds(r, 0, 0)
    BY <2>1, <2>2, NothingAdded
  <2> QED
    BY <2>1, <2>2, <2>3 DEF Moves, Effect
<1>2. ASSUME NEW g \in Gateways, NEW a \in Asks, Arrive(r, g, a)
      PROVE  Moves(r) /\ Effect(r)
  <2>1. /\ pc[r] = "new" /\ pc'[r] = "auth" /\ gateway'[r] = g
        /\ UNCHANGED <<lost, answer, metrics>>
        /\ \A q \in Requests \ {r} :
             pc'[q] = pc[q] /\ gateway'[q] = gateway[q] /\ ask'[q] = ask[q]
    BY <1>2 DEF Arrive, To, IInv, TypeOK
  <2>2. gateway[r] = NoGateway /\ r \notin lost
    BY <2>1 DEF IInv, Places, CrashesForget, Ended
  <2>3. Adds(r, 0, 0)
    BY <2>1, NothingAdded
  <2> QED
    BY <2>1, <2>2, <2>3 DEF Moves, Effect, Ended, Counted, Storing, IsHit
<1> QED
  BY <1>1, <1>2

\* Of all sets only those of r's gateway change, and in them only r.
LEMMA MembersMove ==
  ASSUME IInv, NEW r \in Requests, Moves(r), NEW g \in Gateways
  PROVE  /\ Seen(g)' \ {r} = Seen(g) \ {r}
         /\ Hits(g)' \ {r} = Hits(g) \ {r}
         /\ Left(g)' \ {r} = Left(g) \ {r}
         /\ StreamsSeen(g)' \ {r} = StreamsSeen(g) \ {r}
         /\ StreamsLeft(g)' \ {r} = StreamsLeft(g) \ {r}
BY DEF Moves, Seen, Hits, Left, StreamsSeen, StreamsLeft, Here, On, Among, Called

\* Where r is before the step, and after it.
LEMMA MemberMoves ==
  ASSUME IInv, NEW r \in Requests, Moves(r), NEW g \in Gateways
  PROVE  /\ r \in Seen(g) <=> g = gateway'[r] /\ pc[r] \in Counted
         /\ r \in StreamsSeen(g) <=> g = gateway'[r] /\ pc[r] \in Counted /\ ask'[r].stream
         /\ r \notin Hits(g) /\ r \notin Left(g) /\ r \notin StreamsLeft(g)
         /\ r \in Seen(g)' <=> g = gateway'[r] /\ pc'[r] \in Counted
         /\ r \in StreamsSeen(g)' <=> g = gateway'[r] /\ pc'[r] \in Counted /\ ask'[r].stream
         /\ r \in Hits(g)' <=> g = gateway'[r] /\ IsHit(r)'
         /\ r \in Left(g)' <=> g = gateway'[r] /\ pc'[r] = "gone"
         /\ r \in StreamsLeft(g)' <=> g = gateway'[r] /\ pc'[r] = "gone" /\ ask'[r].stream
<1>1. gateway[r] = gateway'[r] \/ (gateway[r] = NoGateway /\ pc[r] \notin Counted)
  BY DEF Moves
<1>2. NoGateway # g
  BY NamesAssumption
<1>3. pc[r] \notin {"served", "gone"}
  BY DEF Moves, Ended
<1>4. gateway[r] = g /\ pc[r] \in Counted <=> g = gateway'[r] /\ pc[r] \in Counted
  BY <1>1, <1>2
<1>5. pc[r] \in Counted => ask'[r] = ask[r]
  BY DEF Moves
<1>6. r \notin lost /\ r \notin lost'
  BY DEF Moves
<1>7. /\ r \in Seen(g) <=> g = gateway'[r] /\ pc[r] \in Counted
      /\ r \in StreamsSeen(g) <=> g = gateway'[r] /\ pc[r] \in Counted /\ ask'[r].stream
  BY <1>4, <1>5, <1>6 DEF Seen, StreamsSeen, Here, On, Among
<1>8. r \notin Hits(g) /\ r \notin Left(g) /\ r \notin StreamsLeft(g)
  BY <1>3 DEF Hits, Left, StreamsLeft, Here, On, Among
<1>9. /\ r \in Seen(g)' <=> g = gateway'[r] /\ pc'[r] \in Counted
      /\ r \in StreamsSeen(g)' <=> g = gateway'[r] /\ pc'[r] \in Counted /\ ask'[r].stream
      /\ r \in Hits(g)' <=> g = gateway'[r] /\ IsHit(r)'
      /\ r \in Left(g)' <=> g = gateway'[r] /\ pc'[r] = "gone"
      /\ r \in StreamsLeft(g)' <=> g = gateway'[r] /\ pc'[r] = "gone" /\ ask'[r].stream
  BY <1>6 DEF Seen, StreamsSeen, Hits, Left, StreamsLeft, Here, On, Among, IsHit, Called
<1> QED
  BY <1>7, <1>8, <1>9

\* A request that moves leaves the sums as they should be.
LEMMA MoveAddsUp ==
  ASSUME IInv, ExactlyCounted, NEW r \in Requests, Moves(r), Effect(r), NEW g \in Gateways
  PROVE  TotalAddsUp(g)' /\ StreamingAddsUp(g)'
<1>1. TotalAddsUp(g) /\ StreamingAddsUp(g)
  BY DEF ExactlyCounted
<1> DEFINE seen == Cardinality(Seen(g))
           hits == Cardinality(Hits(g))
           left == Cardinality(Left(g))
           streams == Cardinality(StreamsSeen(g))
           streamsLeft == Cardinality(StreamsLeft(g))
<1>2. /\ Cardinality(Seen(g)') = Size(seen, r \in Seen(g), r \in Seen(g)')
      /\ Cardinality(Hits(g)') = Size(hits, r \in Hits(g), r \in Hits(g)')
      /\ Cardinality(Left(g)') = Size(left, r \in Left(g), r \in Left(g)')
      /\ Cardinality(StreamsSeen(g)') = Size(streams, r \in StreamsSeen(g), r \in StreamsSeen(g)')
      /\ Cardinality(StreamsLeft(g)') = Size(streamsLeft, r \in StreamsLeft(g), r \in StreamsLeft(g)')
  <2>1. /\ IsFiniteSet(Seen(g)) /\ IsFiniteSet(Hits(g)) /\ IsFiniteSet(Left(g))
        /\ IsFiniteSet(StreamsSeen(g)) /\ IsFiniteSet(StreamsLeft(g))
    BY SetsFinite
  <2>2. /\ Seen(g) \ {r} = Seen(g)' \ {r}
        /\ Hits(g) \ {r} = Hits(g)' \ {r}
        /\ Left(g) \ {r} = Left(g)' \ {r}
        /\ StreamsSeen(g) \ {r} = StreamsSeen(g)' \ {r}
        /\ StreamsLeft(g) \ {r} = StreamsLeft(g)' \ {r}
    BY MembersMove
  <2> HIDE DEF seen, hits, left, streams, streamsLeft
  <2>3. Cardinality(Seen(g)') = Size(seen, r \in Seen(g), r \in Seen(g)')
    BY <2>1, <2>2, OneMoves DEF seen
  <2>4. Cardinality(Hits(g)') = Size(hits, r \in Hits(g), r \in Hits(g)')
    BY <2>1, <2>2, OneMoves DEF hits
  <2>5. Cardinality(Left(g)') = Size(left, r \in Left(g), r \in Left(g)')
    BY <2>1, <2>2, OneMoves DEF left
  <2>6. Cardinality(StreamsSeen(g)') = Size(streams, r \in StreamsSeen(g), r \in StreamsSeen(g)')
    BY <2>1, <2>2, OneMoves DEF streams
  <2>7. Cardinality(StreamsLeft(g)') = Size(streamsLeft, r \in StreamsLeft(g), r \in StreamsLeft(g)')
    BY <2>1, <2>2, OneMoves DEF streamsLeft
  <2> QED
    BY <2>3, <2>4, <2>5, <2>6, <2>7
<1>3. /\ seen \in Nat /\ hits \in Nat /\ left \in Nat /\ streams \in Nat /\ streamsLeft \in Nat
      /\ metrics[g].total \in Nat /\ metrics[g].streaming \in Nat
  <2>1. metrics[g] \in [total : Nat, streaming : Nat]
    BY DEF IInv, TypeOK
  <2> QED
    BY <2>1, SetsFinite
<1>4. /\ metrics[g].total - seen - hits \in 0..left
      /\ metrics[g].streaming - streams \in 0..streamsLeft
  BY <1>1 DEF TotalAddsUp, StreamingAddsUp
<1> DEFINE totalAfter == metrics'[g].total
           streamingAfter == metrics'[g].streaming
<1> SUFFICES /\ totalAfter - Cardinality(Seen(g)') - Cardinality(Hits(g)') \in 0..Cardinality(Left(g)')
             /\ streamingAfter - Cardinality(StreamsSeen(g)') \in 0..Cardinality(StreamsLeft(g)')
  BY DEF TotalAddsUp, StreamingAddsUp
<1>5. CASE g # gateway'[r]
  <2>1. totalAfter = metrics[g].total /\ streamingAfter = metrics[g].streaming
    BY <1>5 DEF Moves
  <2>2. /\ Cardinality(Seen(g)') = seen /\ Cardinality(Hits(g)') = hits
        /\ Cardinality(Left(g)') = left /\ Cardinality(StreamsSeen(g)') = streams
        /\ Cardinality(StreamsLeft(g)') = streamsLeft
    BY <1>2, <1>5, MemberMoves DEF Size
  <2> QED
    BY <1>4, <2>1, <2>2
<1>6. CASE g = gateway'[r]
  <2> DEFINE before == pc[r] \in Counted
             after == pc'[r] \in Counted
             streamed == ask'[r].stream
             plus(b) == IF b THEN 1 ELSE 0
  <2>1. /\ Cardinality(Seen(g)') = Size(seen, before, after)
        /\ Cardinality(Hits(g)') = Size(hits, FALSE, IsHit(r)')
        /\ Cardinality(Left(g)') = Size(left, FALSE, pc'[r] = "gone")
        /\ Cardinality(StreamsSeen(g)') =
             IF streamed THEN Size(streams, before, after) ELSE streams
        /\ Cardinality(StreamsLeft(g)') =
             IF streamed /\ pc'[r] = "gone" THEN streamsLeft + 1 ELSE streamsLeft
    BY <1>2, <1>6, MemberMoves DEF Size
  <2>2. "gone" \notin Counted /\ (IsHit(r)' => pc'[r] = "served")
    BY DEF Counted, Storing, IsHit
  <2>3. CASE ~ before /\ after /\ ~ IsHit(r)' /\ Adds(r, 1, plus(streamed))
    <3>1. totalAfter = metrics[g].total + 1 /\ streamingAfter = metrics[g].streaming + plus(streamed)
      BY <1>6, <2>3 DEF Adds
    <3>2. /\ Cardinality(Seen(g)') = seen + 1 /\ Cardinality(Hits(g)') = hits
          /\ Cardinality(Left(g)') = left
          /\ Cardinality(StreamsSeen(g)') = streams + plus(streamed)
          /\ Cardinality(StreamsLeft(g)') = streamsLeft
      BY <1>3, <2>1, <2>2, <2>3 DEF Size
    <3> HIDE DEF seen, hits, left, streams, streamsLeft, totalAfter, streamingAfter
    <3> QED
      BY <1>3, <1>4, <3>1, <3>2
  <2>4. CASE before /\ after /\ IsHit(r)' /\ Adds(r, 1, 0)
    <3>1. totalAfter = metrics[g].total + 1 /\ streamingAfter = metrics[g].streaming + 0
      BY <1>6, <2>4 DEF Adds
    <3>2. /\ Cardinality(Seen(g)') = seen /\ Cardinality(Hits(g)') = hits + 1
          /\ Cardinality(Left(g)') = left /\ Cardinality(StreamsSeen(g)') = streams
          /\ Cardinality(StreamsLeft(g)') = streamsLeft
      BY <1>3, <2>1, <2>2, <2>4 DEF Size
    <3> HIDE DEF seen, hits, left, streams, streamsLeft, totalAfter, streamingAfter
    <3> QED
      BY <1>3, <1>4, <3>1, <3>2
  <2>5. CASE pc'[r] = "gone" /\ Adds(r, 0, 0)
    <3>1. totalAfter = metrics[g].total + 0 /\ streamingAfter = metrics[g].streaming + 0
      BY <1>6, <2>5 DEF Adds
    <3>2. /\ Cardinality(Seen(g)') = seen - plus(before) /\ Cardinality(Hits(g)') = hits
          /\ Cardinality(Left(g)') = left + 1
          /\ Cardinality(StreamsSeen(g)') = streams - plus(streamed /\ before)
          /\ Cardinality(StreamsLeft(g)') = streamsLeft + plus(streamed)
      BY <1>3, <2>1, <2>2, <2>5 DEF Size
    <3> HIDE DEF seen, hits, left, streams, streamsLeft, totalAfter, streamingAfter
    <3> QED
      BY <1>3, <1>4, <3>1, <3>2
  <2>6. CASE (before <=> after) /\ pc'[r] # "gone" /\ ~ IsHit(r)' /\ Adds(r, 0, 0)
    <3>1. totalAfter = metrics[g].total + 0 /\ streamingAfter = metrics[g].streaming + 0
      BY <1>6, <2>6 DEF Adds
    <3>2. /\ Cardinality(Seen(g)') = seen /\ Cardinality(Hits(g)') = hits
          /\ Cardinality(Left(g)') = left /\ Cardinality(StreamsSeen(g)') = streams
          /\ Cardinality(StreamsLeft(g)') = streamsLeft
      BY <1>3, <2>1, <2>2, <2>6 DEF Size
    <3> HIDE DEF seen, hits, left, streams, streamsLeft, totalAfter, streamingAfter
    <3> QED
      BY <1>3, <1>4, <3>1, <3>2
  <2> QED
    BY <2>3, <2>4, <2>5, <2>6 DEF Effect
<1> QED
  BY <1>5, <1>6

\* A crash empties the sets of its gateway, and its counters begin at 0.
LEMMA RestartAddsUp ==
  ASSUME IInv, ExactlyCounted, NEW h \in Gateways, Restart(h), NEW g \in Gateways
  PROVE  TotalAddsUp(g)' /\ StreamingAddsUp(g)'
<1>1. CASE g = h
  <2>1. Here(g)' = {}
    BY <1>1 DEF Restart, Here, On
  <2>2. /\ Seen(g)' = {} /\ Hits(g)' = {} /\ Left(g)' = {}
        /\ StreamsSeen(g)' = {} /\ StreamsLeft(g)' = {}
    BY <2>1 DEF Seen, Hits, Left, StreamsSeen, StreamsLeft, Among
  <2>3. metrics'[g].total = 0 /\ metrics'[g].streaming = 0
    BY <1>1 DEF Restart, NoneCounted, IInv, TypeOK
  <2> QED
    BY <2>2, <2>3, FS_EmptySet DEF TotalAddsUp, StreamingAddsUp
<1>2. CASE g # h
  <2>1. /\ Here(g)' = Here(g) /\ metrics'[g] = metrics[g]
        /\ \A q \in Here(g) : pc'[q] = pc[q] /\ answer'[q] = answer[q] /\ ask'[q] = ask[q]
    BY <1>2 DEF Restart, Here, On, IInv, TypeOK
  <2>2. /\ Seen(g)' = Seen(g) /\ Hits(g)' = Hits(g) /\ Left(g)' = Left(g)
        /\ StreamsSeen(g)' = StreamsSeen(g) /\ StreamsLeft(g)' = StreamsLeft(g)
    BY <2>1 DEF Seen, Hits, Left, StreamsSeen, StreamsLeft, Among, Called
  <2>3. TotalAddsUp(g) /\ StreamingAddsUp(g)
    BY DEF ExactlyCounted
  <2> QED
    BY <2>1, <2>2, <2>3 DEF TotalAddsUp, StreamingAddsUp
<1> QED
  BY <1>1, <1>2

LEMMA CountersStep == IInv /\ ExactlyCounted /\ [Next]_vars => ExactlyCounted'
<1> SUFFICES ASSUME IInv, ExactlyCounted, [Next]_vars, NEW g \in Gateways
             PROVE  TotalAddsUp(g)' /\ StreamingAddsUp(g)'
  BY DEF ExactlyCounted
<1>1. ASSUME NEW r \in Requests,
             Handle(r) \/ Disconnect(r) \/ \E h \in Gateways, a \in Asks : Arrive(r, h, a)
      PROVE  TotalAddsUp(g)' /\ StreamingAddsUp(g)'
  BY <1>1, HandleMoves, HandleEffect, ClientMoves, MoveAddsUp
<1>2. ASSUME NEW h \in Gateways, Restart(h) PROVE TotalAddsUp(g)' /\ StreamingAddsUp(g)'
  BY <1>2, RestartAddsUp
<1>3. CASE UNCHANGED <<pc, gateway, ask, answer, metrics, lost>>
  BY <1>3 DEF ExactlyCounted, TotalAddsUp, StreamingAddsUp, Seen, Hits, Left, StreamsSeen, StreamsLeft, Here, On, Among,
      Called
<1> QED
  BY <1>1, <1>2, <1>3 DEF Next, vars, PostCallHooks, ForgetBackend, ForgetLocal

\* What is counted exactly is at least the requests that passed the hooks, and at most
\* the requests that came and the hits.
LEMMA ExactlyEnough == TypeOK /\ ExactlyCounted => CountersAddUp
<1> SUFFICES ASSUME TypeOK, ExactlyCounted, NEW g \in Gateways
             PROVE  /\ metrics[g].total
                         \in Cardinality(Seen(g))..(Cardinality(Here(g)) + Cardinality(Hits(g)))
                    /\ metrics[g].streaming
                         \in Cardinality(StreamsSeen(g))
                              ..Cardinality({r \in Here(g) : ask[r].stream})
  BY DEF CountersAddUp, Here, Seen, Hits, StreamsSeen
<1>1. ASSUME NEW S \in SUBSET Requests, NEW T \in SUBSET S, NEW U \in SUBSET S,
             T \intersect U = {}
      PROVE  /\ Cardinality(S) \in Nat /\ Cardinality(T) \in Nat /\ Cardinality(U) \in Nat
             /\ Cardinality(T) + Cardinality(U) <= Cardinality(S)
  <2>1. \A X \in SUBSET Requests : IsFiniteSet(X) /\ Cardinality(X) \in Nat
    BY RequestsAssumption, FS_Subset, FS_CardinalityType
  <2>2. IsFiniteSet(S) /\ IsFiniteSet(T) /\ IsFiniteSet(U)
    BY <2>1
  <2>3. Cardinality(T \union U) = Cardinality(T) + Cardinality(U) - Cardinality(T \intersect U)
    BY <2>2, FS_Union
  <2>4. Cardinality(T \intersect U) = 0
    BY <1>1, FS_EmptySet
  <2>5. Cardinality(T \union U) <= Cardinality(S)
    BY <2>2, FS_Subset
  <2> QED
    BY <2>1, <2>3, <2>4, <2>5
<1>2. "gone" \notin Counted
  BY DEF Counted, Storing
<1>3. Here(g) \in SUBSET Requests
  BY DEF Here, On
<1>4. /\ Seen(g) \in SUBSET Here(g) /\ Left(g) \in SUBSET Here(g)
      /\ Seen(g) \intersect Left(g) = {}
  BY <1>2 DEF Seen, Left, Among
<1> DEFINE streams == {r \in Here(g) : ask[r].stream}
<1>5. /\ streams \in SUBSET Requests
      /\ StreamsSeen(g) \in SUBSET streams /\ StreamsLeft(g) \in SUBSET streams
      /\ StreamsSeen(g) \intersect StreamsLeft(g) = {}
  BY <1>2, <1>3 DEF StreamsSeen, StreamsLeft, Among
<1>6. Hits(g) \in SUBSET Requests
  BY <1>3 DEF Hits, Among
<1>7. Cardinality(Hits(g)) \in Nat
  BY SetsFinite
<1>8. /\ Cardinality(Here(g)) \in Nat /\ Cardinality(Seen(g)) \in Nat /\ Cardinality(Left(g)) \in Nat
      /\ Cardinality(Seen(g)) + Cardinality(Left(g)) <= Cardinality(Here(g))
  BY <1>1, <1>3, <1>4
<1> HIDE DEF streams
<1>9. /\ Cardinality(streams) \in Nat /\ Cardinality(StreamsSeen(g)) \in Nat
      /\ Cardinality(StreamsLeft(g)) \in Nat
      /\ Cardinality(StreamsSeen(g)) + Cardinality(StreamsLeft(g)) <= Cardinality(streams)
  BY <1>1, <1>5
<1>10. /\ TotalAddsUp(g) /\ StreamingAddsUp(g)
       /\ metrics[g].total \in Nat /\ metrics[g].streaming \in Nat
  <2>1. metrics[g] \in [total : Nat, streaming : Nat]
    BY DEF TypeOK
  <2> QED
    BY <2>1 DEF ExactlyCounted
<1>11. metrics[g].total \in Cardinality(Seen(g))..(Cardinality(Here(g)) + Cardinality(Hits(g)))
  BY <1>7, <1>8, <1>10 DEF TotalAddsUp
<1>12. metrics[g].streaming \in Cardinality(StreamsSeen(g))..Cardinality(streams)
  BY <1>9, <1>10 DEF StreamingAddsUp
<1> QED
  BY <1>11, <1>12 DEF streams

\* Whatever interleaves, disconnects and crashes, a gateway's counters miss no request it
\* has let through since it started, and count none twice but those the cache answered.
THEOREM CountersRight == Spec => []CountersAddUp
<1>1. Init => ExactlyCounted
  <2> SUFFICES ASSUME Init, NEW g \in Gateways PROVE TotalAddsUp(g) /\ StreamingAddsUp(g)
    BY DEF ExactlyCounted
  <2>1. Here(g) = {}
    BY NamesAssumption DEF Init, Here, On
  <2>2. /\ Seen(g) = {} /\ Hits(g) = {} /\ Left(g) = {}
        /\ StreamsSeen(g) = {} /\ StreamsLeft(g) = {}
    BY <2>1 DEF Seen, Hits, Left, StreamsSeen, StreamsLeft, Among
  <2>3. metrics[g].total = 0 /\ metrics[g].streaming = 0
    BY DEF Init, NoneCounted
  <2> QED
    BY <2>2, <2>3, FS_EmptySet DEF TotalAddsUp, StreamingAddsUp
<1> QED
  BY <1>1, CountersStep, ExactlyEnough, TypeCorrect, Invariance, PTL DEF Spec
================================================================================
