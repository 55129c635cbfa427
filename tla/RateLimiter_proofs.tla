--------------------------- MODULE RateLimiter_proofs ---------------------------
(***************************************************************************)
(* Proofs about RateLimiter, for every set of requests and keys, every     *)
(* limit, both backends and every length of a run.                         *)
(***************************************************************************)
EXTENDS RateLimiter, FiniteSetTheorems, TLAPS

USE LimitAssumption, TimeAssumption

\* A window is the last multiple of its length that is not after t.
LEMMA WindowBounds ==
  ASSUME NEW t \in Times
  PROVE  /\ WindowOf(t) \in Times
         /\ WindowOf(t) <= t
         /\ t < WindowOf(t) + Window
<1>1. t \in Nat /\ t <= Horizon
  BY DEF Times
<1>2. WindowOf(t) \in Nat /\ WindowOf(t) <= t /\ t < WindowOf(t) + Window
  BY <1>1, SMT DEF WindowOf
<1> QED
  BY <1>1, <1>2 DEF Times

\* The key of a counter, and the window it is for.
LEMMA KeyTyped ==
  ASSUME TypeOK, NEW c \in Counters, NEW r \in Requests
  PROVE  /\ WindowAt(r) \in Times
         /\ CounterKey(c, r) \in CounterKeys
         /\ CounterKey(c, r)[3] = WindowAt(r)
<1>1. WindowAt(r) \in Times
  BY WindowBounds DEF WindowAt, TypeOK
<1> QED
  BY <1>1 DEF CounterKey, CounterKeys, TypeOK

\* Every variable has its type in every reachable state.
THEOREM TypeCorrect == Spec => []TypeOK
<1>1. Init => TypeOK
  BY DEF Init, TypeOK, Times, Lives, Never
<1>2. TypeOK /\ [Next]_vars => TypeOK'
  <2> SUFFICES ASSUME TypeOK, [Next]_vars
               PROVE  TypeOK'
    OBVIOUS
  <2> USE DEF TypeOK, Undecided, Decided
  <2>0. \A c \in Counters, r \in Requests : CounterKey(c, r) \in CounterKeys
    BY KeyTyped
  <2>1. ASSUME NEW r \in Requests, ReadClock(r)
        PROVE  TypeOK'
    BY <2>1 DEF ReadClock, AtIncr
  <2>2. ASSUME NEW r \in Requests, NEW c \in Counters, Incr(r, c)
        PROVE  TypeOK'
    <3>1. count' \in [CounterKeys -> Nat]
      BY <2>0, <2>2 DEF Incr
    <3>2. ticket' \in [Counters -> [Requests -> Nat]]
      BY <2>0, <2>2 DEF Incr
    <3> QED
      BY <2>2, <3>1, <3>2 DEF Incr, AtExpire
  <2>3. ASSUME NEW r \in Requests, NEW c \in Counters, IncrFails(r, c)
        PROVE  TypeOK'
    <3>1. count' \in [CounterKeys -> Nat]
      BY <2>0, <2>3 DEF IncrFails
    <3> QED
      BY <2>3, <3>1 DEF IncrFails
  <2>4. ASSUME NEW r \in Requests, NEW c \in Counters, ExpireAndCheck(r, c)
        PROVE  TypeOK'
    <3>1. now + CounterTtl \in 0..Never
      BY DEF Times, Never
    <3>2. expiry' \in [CounterKeys -> 0..Never]
      BY <2>0, <2>4, <3>1 DEF ExpireAndCheck
    <3> QED
      BY <2>4, <3>2 DEF ExpireAndCheck, Passed
  <2>5. ASSUME NEW r \in Requests, Disconnect(r)
        PROVE  TypeOK'
    BY <2>5 DEF Disconnect
  <2>6. CASE Tick
    <3>1. now + 1 \in Times /\ Never \in 0..Never
      BY <2>6 DEF Tick, Times, Never
    <3> QED
      BY <2>6, <3>1 DEF Tick
  <2>7. CASE Restart
    <3>1. life + 1 \in Lives
      BY <2>7 DEF Restart, Lives
    <3> QED
      BY <2>7, <3>1 DEF Restart
  <2>8. CASE UNCHANGED vars
    BY <2>8 DEF vars
  <2> QED
    BY <2>1, <2>2, <2>3, <2>4, <2>5, <2>6, <2>7, <2>8 DEF Next
<1> QED
  BY <1>1, <1>2, PTL DEF Spec
-----------------------------------------------------------------------------
(***************************************************************************)
(* Why no window admits too many: incr hands out different tickets to the  *)
(* requests of one key and window, and an admitted request holds a ticket  *)
(* within the limit.  Tickets stay different because a counter is not      *)
(* dropped while a request of its window may still increment it.           *)
(***************************************************************************)

\* No request is ahead of the clock or slower than MaxDelay.
InTime ==
  \A r \in Requests :
    /\ pc[r] # "new" => started[r] <= now
    /\ pc[r] \in Undecided => now <= started[r] + MaxDelay

\* A counter outlives its window by CounterTtl - Window.
CountersLast ==
  \A x \in CounterKeys : expiry[x] >= x[3] + CounterTtl

\* Which tickets a request holds, by where it is.
TicketsHeld ==
  \A r \in Requests :
    /\ pc[r] \in {"new", "incr_tpm"} => ticket["tpm"][r] = 0
    /\ pc[r] \in {"new", "incr_tpm", "expire_tpm", "incr_rpm"} => ticket["rpm"][r] = 0
    /\ pc[r] \in {"expire_tpm", "incr_rpm", "expire_rpm", "admitted"} => ticket["tpm"][r] > 0
    /\ pc[r] \in {"expire_rpm", "admitted"} => ticket["rpm"][r] > 0
    /\ pc[r] \in {"incr_rpm", "expire_rpm", "admitted"} => ~ Exceeds(r, "tpm")
    /\ pc[r] = "admitted" => ~ Exceeds(r, "rpm")

\* Until a counter may be dropped, it is at least every ticket it gave.
TicketsCounted ==
  \A c \in Counters, r \in Requests :
    ticket[c][r] > 0 /\ now < WindowAt(r) + CounterTtl
      => ticket[c][r] <= count[CounterKey(c, r)]

TicketsDiffer ==
  \A c \in Counters : \A r, q \in Requests :
    /\ r # q
    /\ key[r] = key[q]
    /\ WindowAt(r) = WindowAt(q)
    /\ born[r] = born[q]
    /\ ticket[c][r] = ticket[c][q]
    => ticket[c][r] = 0

TicketInv == InTime /\ CountersLast /\ TicketsHeld /\ TicketsCounted /\ TicketsDiffer

\* A request about to increment a counter does so before it can be dropped.
LEMMA IncrInTime ==
  ASSUME TypeOK, InTime, NEW r \in Requests, pc[r] \in Undecided
  PROVE  /\ WindowAt(r) \in Times
         /\ WindowAt(r) <= now
         /\ now < WindowAt(r) + CounterTtl
<1>1. started[r] \in Times /\ now \in Nat
  BY DEF TypeOK, Times
<1>2. started[r] <= now /\ now <= started[r] + MaxDelay
  BY DEF InTime, Undecided
<1>3. /\ WindowAt(r) \in Times
      /\ WindowAt(r) <= started[r]
      /\ started[r] < WindowAt(r) + Window
  BY <1>1, WindowBounds DEF WindowAt
<1> QED
  BY <1>1, <1>2, <1>3, DelayAssumption DEF Times

\* The initial state holds no ticket and no counter.
LEMMA TicketInit == Init => TicketInv
<1> SUFFICES ASSUME Init PROVE TicketInv
  OBVIOUS
<1>1. InTime /\ TicketsHeld /\ TicketsCounted /\ TicketsDiffer
  BY DEF Init, InTime, TicketsHeld, TicketsCounted, TicketsDiffer, Undecided, Counters
<1>2. CountersLast
  <2> SUFFICES ASSUME NEW x \in CounterKeys
               PROVE  expiry[x] >= x[3] + CounterTtl
    BY DEF CountersLast
  <2>1. expiry[x] = Never /\ x[3] \in Times
    BY DEF Init, CounterKeys
  <2> QED
    BY <2>1 DEF Never, Times
<1> QED
  BY <1>1, <1>2 DEF TicketInv

\* Reading the clock sets the window of a request that holds no ticket.
LEMMA ReadClockStep ==
  ASSUME TypeOK, TicketInv, NEW r \in Requests, ReadClock(r)
  PROVE  TicketInv'
<1> USE DEF TypeOK, TicketInv, ReadClock, AtIncr
<1>1. \A q \in Requests : q # r =>
        WindowAt(q)' = WindowAt(q) /\ \A c \in Counters : CounterKey(c, q)' = CounterKey(c, q)
  BY DEF WindowAt, CounterKey
<1>2. \A c \in Counters : ticket[c][r] = 0
  BY DEF TicketsHeld, Counters
<1>3. InTime'
  BY DEF InTime, Undecided, Times
<1>4. CountersLast'
  BY DEF CountersLast
<1>5. TicketsHeld'
  BY <1>2 DEF TicketsHeld, Exceeds, Counters
<1>6. TicketsCounted'
  BY <1>1, <1>2 DEF TicketsCounted
<1>7. TicketsDiffer'
  BY <1>1, <1>2 DEF TicketsDiffer
<1> QED
  BY <1>3, <1>4, <1>5, <1>6, <1>7

\* An increment hands out a ticket above all others of its counter.
LEMMA IncrStep ==
  ASSUME TypeOK, TicketInv, NEW r \in Requests, NEW c \in Counters, Incr(r, c)
  PROVE  TicketInv'
<1> DEFINE x == CounterKey(c, r)
<1> USE DEF TypeOK, TicketInv
<1>0. /\ pc[r] = AtIncr(c) /\ pc[r] \in Undecided
      /\ pc' = [pc EXCEPT ![r] = AtExpire(c)]
      /\ ticket' = [ticket EXCEPT ![c][r] = count[x] + 1]
      /\ count' = [count EXCEPT ![x] = count[x] + 1]
      /\ now' = now /\ key' = key /\ started' = started /\ born' = born /\ expiry' = expiry
  BY DEF Incr, AtIncr, Undecided, Counters
<1>1. \A d \in Counters, q \in Requests :
        /\ CounterKey(d, q) \in CounterKeys /\ CounterKey(d, q)' = CounterKey(d, q)
        /\ WindowAt(q)' = WindowAt(q)
  BY <1>0, KeyTyped DEF CounterKey, WindowAt
<1>2. now < WindowAt(r) + CounterTtl
  BY <1>0, IncrInTime
<1>3. \A q \in Requests : CounterKey(c, q) = x => ticket[c][q] <= count[x]
  <2>1. \A q \in Requests : CounterKey(c, q) = x => WindowAt(q) = WindowAt(r)
    BY DEF CounterKey
  <2>2. count[x] \in Nat
    BY <1>1
  <2> QED
    BY <1>2, <2>1, <2>2 DEF TicketsCounted
<1>4. ticket'[c][r] = count[x] + 1 /\ count[x] \in Nat /\ count'[x] = count[x] + 1
  BY <1>0, <1>1
<1>5. \A d \in Counters, q \in Requests : d # c \/ q # r => ticket'[d][q] = ticket[d][q]
  BY <1>0
<1>6. InTime'
  BY <1>0 DEF InTime, Undecided, AtExpire
<1>7. CountersLast'
  BY <1>0 DEF CountersLast
<1>8. TicketsHeld'
  <2> SUFFICES ASSUME NEW q \in Requests
               PROVE  TicketsHeld!(q)'
    BY DEF TicketsHeld
  <2> QED
    BY <1>0, <1>4, <1>5 DEF TicketsHeld, AtIncr, AtExpire, Exceeds, Counters
<1>9. TicketsCounted'
  <2> SUFFICES ASSUME NEW d \in Counters, NEW q \in Requests,
                      ticket'[d][q] > 0, now < WindowAt(q) + CounterTtl
               PROVE  ticket'[d][q] <= count'[CounterKey(d, q)]
    BY <1>0, <1>1 DEF TicketsCounted
  <2>1. CASE d = c /\ q = r
    BY <1>4, <2>1
  <2>2. CASE ~ (d = c /\ q = r)
    <3>1. ticket'[d][q] = ticket[d][q] /\ ticket[d][q] <= count[CounterKey(d, q)]
      BY <1>5, <2>2 DEF TicketsCounted
    <3>2. count'[CounterKey(d, q)] \in {count[CounterKey(d, q)], count[CounterKey(d, q)] + 1}
      BY <1>0, <1>1
    <3>3. ticket[d][q] \in Nat /\ count[CounterKey(d, q)] \in Nat
      BY <1>1
    <3> QED
      BY <3>1, <3>2, <3>3
  <2> QED
    BY <2>1, <2>2
<1>10. TicketsDiffer'
  <2> SUFFICES ASSUME NEW d \in Counters, NEW p \in Requests, NEW q \in Requests,
                      p # q, key[p] = key[q], WindowAt(p) = WindowAt(q), born[p] = born[q],
                      ticket'[d][p] = ticket'[d][q]
               PROVE  ticket'[d][p] = 0
    BY <1>0, <1>1 DEF TicketsDiffer
  <2>1. CounterKey(d, p) = CounterKey(d, q)
    BY DEF CounterKey
  <2>2. CASE d = c /\ p = r
    BY <1>3, <1>4, <1>5, <2>1, <2>2
  <2>3. CASE d = c /\ q = r
    BY <1>3, <1>4, <1>5, <2>1, <2>3
  <2>4. CASE ~ (d = c /\ p = r) /\ ~ (d = c /\ q = r)
    BY <1>5, <2>4 DEF TicketsDiffer
  <2> QED
    BY <2>2, <2>3, <2>4
<1> QED
  BY <1>6, <1>7, <1>8, <1>9, <1>10

\* A lost INCR may only raise a counter.
LEMMA IncrFailsStep ==
  ASSUME TypeOK, TicketInv, NEW r \in Requests, NEW c \in Counters, IncrFails(r, c)
  PROVE  TicketInv'
<1> USE DEF TypeOK, TicketInv
<1>0. /\ pc[r] \in Undecided
      /\ pc' = [pc EXCEPT ![r] = "error"]
      /\ now' = now /\ key' = key /\ started' = started /\ born' = born
      /\ expiry' = expiry /\ ticket' = ticket
      /\ \/ count' = count
         \/ count' = [count EXCEPT ![CounterKey(c, r)] = count[CounterKey(c, r)] + 1]
  BY DEF IncrFails, AtIncr, Undecided
<1>1. \A d \in Counters, q \in Requests :
        /\ CounterKey(d, q) \in CounterKeys /\ CounterKey(d, q)' = CounterKey(d, q)
        /\ WindowAt(q)' = WindowAt(q)
  BY <1>0, KeyTyped DEF CounterKey, WindowAt
<1>2. \A x \in CounterKeys : count'[x] \in Nat /\ count'[x] >= count[x]
  BY <1>0, <1>1
<1>3. InTime' /\ CountersLast'
  BY <1>0 DEF InTime, CountersLast, Undecided
<1>4. TicketsHeld'
  BY <1>0 DEF TicketsHeld, Exceeds
<1>5. TicketsCounted'
  <2> SUFFICES ASSUME NEW d \in Counters, NEW q \in Requests,
                      ticket[d][q] > 0, now < WindowAt(q) + CounterTtl
               PROVE  ticket[d][q] <= count'[CounterKey(d, q)]
    BY <1>0, <1>1 DEF TicketsCounted
  <2>1. ticket[d][q] <= count[CounterKey(d, q)]
    BY DEF TicketsCounted
  <2> QED
    BY <1>1, <1>2, <2>1
<1>6. TicketsDiffer'
  BY <1>0, <1>1 DEF TicketsDiffer
<1> QED
  BY <1>3, <1>4, <1>5, <1>6

\* An EXPIRE only puts off the expiry of a counter beyond its window; the check
\* lets through a ticket within the limit.
LEMMA ExpireAndCheckStep ==
  ASSUME TypeOK, TicketInv, NEW r \in Requests, NEW c \in Counters, ExpireAndCheck(r, c)
  PROVE  TicketInv'
<1> DEFINE x == CounterKey(c, r)
<1> USE DEF TypeOK, TicketInv
<1>0. /\ pc[r] = AtExpire(c) /\ pc[r] \in Undecided
      /\ pc' = [pc EXCEPT ![r] = IF Exceeds(r, c) THEN "limited" ELSE Passed(c)]
      /\ now' = now /\ key' = key /\ started' = started /\ born' = born
      /\ count' = count /\ ticket' = ticket
  BY DEF ExpireAndCheck, AtExpire, Undecided
<1>1. \A d \in Counters, q \in Requests :
        CounterKey(d, q)' = CounterKey(d, q) /\ WindowAt(q)' = WindowAt(q)
  BY <1>0 DEF CounterKey, WindowAt
<1>2. InTime'
  BY <1>0 DEF InTime, Undecided, Passed, AtExpire
<1>3. CountersLast'
  <2>1. /\ x \in CounterKeys /\ x[3] = WindowAt(r)
        /\ WindowAt(r) \in Times /\ WindowAt(r) <= now
    BY <1>0, KeyTyped, IncrInTime
  <2>2. \A y \in CounterKeys : expiry'[y] = expiry[y] \/ (y = x /\ expiry'[y] = now + CounterTtl)
    BY DEF ExpireAndCheck
  <2>3. x[3] \in Nat /\ now \in Nat /\ x[3] + CounterTtl <= now + CounterTtl
    BY <2>1 DEF Times
  <2> QED
    BY <2>2, <2>3 DEF CountersLast
<1>4. TicketsHeld'
  <2> SUFFICES ASSUME NEW q \in Requests
               PROVE  TicketsHeld!(q)'
    BY DEF TicketsHeld
  <2>1. \A d \in Counters : Exceeds(q, d)' = Exceeds(q, d)
    BY <1>0 DEF Exceeds
  <2>2. Counters = {"tpm", "rpm"}
    BY DEF Counters
  <2>3. CASE q = r /\ c = "tpm"
    BY <1>0, <2>1, <2>2, <2>3 DEF TicketsHeld, AtExpire, Passed
  <2>4. CASE q = r /\ c = "rpm"
    BY <1>0, <2>1, <2>2, <2>4 DEF TicketsHeld, AtExpire, Passed
  <2>5. CASE q # r
    BY <1>0, <2>1, <2>2, <2>5 DEF TicketsHeld
  <2> QED
    BY <2>2, <2>3, <2>4, <2>5
<1>5. TicketsCounted'
  BY <1>0, <1>1 DEF TicketsCounted
<1>6. TicketsDiffer'
  BY <1>0, <1>1 DEF TicketsDiffer
<1> QED
  BY <1>2, <1>3, <1>4, <1>5, <1>6

\* A counter is dropped only after the last increment of its window.
LEMMA TickStep ==
  ASSUME TypeOK, TicketInv, Tick
  PROVE  TicketInv'
<1> USE DEF TypeOK, TicketInv
<1>0. /\ now' = now + 1 /\ now \in Nat
      /\ pc' = pc /\ key' = key /\ started' = started /\ born' = born /\ ticket' = ticket
      /\ \A r \in Requests : pc[r] \in Undecided => now + 1 <= started[r] + MaxDelay
  BY DEF Tick, Times
<1>1. \A x \in CounterKeys :
        /\ count'[x] = IF expiry[x] <= now + 1 THEN 0 ELSE count[x]
        /\ expiry'[x] = IF expiry[x] <= now + 1 THEN Never ELSE expiry[x]
  BY DEF Tick
<1>2. \A d \in Counters, q \in Requests :
        /\ CounterKey(d, q)' = CounterKey(d, q) /\ WindowAt(q)' = WindowAt(q)
        /\ CounterKey(d, q) \in CounterKeys /\ CounterKey(d, q)[3] = WindowAt(q)
        /\ WindowAt(q) \in Nat
  BY <1>0, KeyTyped DEF CounterKey, WindowAt, Times
<1>3. InTime'
  BY <1>0 DEF InTime, Times
<1>4. CountersLast'
  <2> SUFFICES ASSUME NEW x \in CounterKeys
               PROVE  expiry'[x] >= x[3] + CounterTtl
    BY DEF CountersLast
  <2>1. x[3] \in Nat /\ x[3] <= Horizon
    BY DEF CounterKeys, Times
  <2>2. expiry[x] >= x[3] + CounterTtl
    BY DEF CountersLast
  <2> QED
    BY <1>1, <2>1, <2>2 DEF Never
<1>5. TicketsHeld'
  BY <1>0 DEF TicketsHeld, Exceeds
<1>6. TicketsCounted'
  <2> SUFFICES ASSUME NEW d \in Counters, NEW q \in Requests,
                      ticket[d][q] > 0, now + 1 < WindowAt(q) + CounterTtl
               PROVE  ticket[d][q] <= count'[CounterKey(d, q)]
    BY <1>0, <1>2 DEF TicketsCounted
  <2>1. ticket[d][q] <= count[CounterKey(d, q)]
    BY <1>0, <1>2 DEF TicketsCounted
  <2>2. expiry[CounterKey(d, q)] >= WindowAt(q) + CounterTtl
    BY <1>2 DEF CountersLast
  <2>3. expiry[CounterKey(d, q)] \in Nat
    BY <1>2 DEF Never
  <2> QED
    BY <1>0, <1>1, <1>2, <2>1, <2>2, <2>3
<1>7. TicketsDiffer'
  BY <1>0, <1>2 DEF TicketsDiffer
<1> QED
  BY <1>3, <1>4, <1>5, <1>6, <1>7

LEMMA TicketStep == TypeOK /\ TicketInv /\ [Next]_vars => TicketInv'
<1> SUFFICES ASSUME TypeOK, TicketInv, [Next]_vars
             PROVE  TicketInv'
  OBVIOUS
<1>1. ASSUME NEW r \in Requests, Disconnect(r)
      PROVE  TicketInv'
  BY <1>1 DEF Disconnect, TypeOK, TicketInv, InTime, CountersLast, TicketsHeld,
     TicketsCounted, TicketsDiffer, WindowAt, CounterKey, Exceeds, Undecided
<1>2. CASE Restart
  <2>1. /\ \A r \in Requests : pc'[r] = IF pc[r] \in Undecided THEN "gone" ELSE pc[r]
        /\ UNCHANGED <<now, key, started, born, ticket, count, expiry>>
    BY <1>2 DEF Restart
  <2>2. InTime' /\ CountersLast'
    BY <2>1 DEF TicketInv, InTime, CountersLast, Undecided
  <2>3. TicketsHeld'
    BY <2>1 DEF TicketInv, TicketsHeld, Exceeds, Undecided
  <2>4. TicketsCounted' /\ TicketsDiffer'
    BY <2>1 DEF TicketInv, TicketsCounted, TicketsDiffer, WindowAt, CounterKey
  <2> QED
    BY <2>2, <2>3, <2>4 DEF TicketInv
<1>3. CASE UNCHANGED vars
  BY <1>3 DEF vars, TicketInv, InTime, CountersLast, TicketsHeld, TicketsCounted,
     TicketsDiffer, WindowAt, CounterKey, Exceeds
<1> QED
  BY <1>1, <1>2, <1>3, ReadClockStep, IncrStep, IncrFailsStep, ExpireAndCheckStep, TickStep
  DEF Next

THEOREM Tickets == Spec => [](TypeOK /\ TicketInv)
  BY TypeCorrect, TicketInit, TicketStep, PTL DEF Spec

\* The admitted requests of a window hold different tickets of 1..limit.
LEMMA AdmittedBound ==
  ASSUME TypeOK, TicketInv
  PROVE  AdmittedWithinLimits
<1> SUFFICES ASSUME NEW c \in Counters, NEW k \in Keys, NEW w \in Times, NEW l \in Lives,
                    Limit[c][k] # Unlimited
             PROVE  Cardinality(Admitted(k, w, l)) <= Limit[c][k]
  BY DEF AdmittedWithinLimits, WithinLimit
<1> DEFINE A == Admitted(k, w, l)
           n == Limit[c][k]
           B == 1..n
           f == [r \in A |-> ticket[c][r]]
<1>1. n \in Nat
  OBVIOUS
<1>2. A \subseteq Requests /\ IsFiniteSet(A) /\ Cardinality(A) \in Nat
  BY RequestsAssumption, FS_Subset, FS_CardinalityType DEF Admitted
<1>3. IsFiniteSet(B) /\ Cardinality(B) = n
  BY <1>1, FS_Interval, SMT
<1>4. f \in [A -> B]
  <2> SUFFICES ASSUME NEW r \in A
               PROVE  ticket[c][r] \in B
    OBVIOUS
  <2>1. r \in Requests /\ pc[r] = "admitted" /\ key[r] = k
    BY DEF Admitted
  <2>2. ticket[c][r] \in Nat
    BY <2>1 DEF TypeOK
  <2>3. ticket[c][r] > 0 /\ ~ Exceeds(r, c)
    BY <2>1 DEF TicketInv, TicketsHeld, Counters
  <2> QED
    BY <1>1, <2>1, <2>2, <2>3 DEF Exceeds
<1>5. \A r, q \in A : r # q => f[r] # f[q]
  <2> SUFFICES ASSUME NEW r \in A, NEW q \in A, r # q, ticket[c][r] = ticket[c][q]
               PROVE  FALSE
    OBVIOUS
  <2>1. ticket[c][r] = 0
    BY DEF Admitted, TicketInv, TicketsDiffer
  <2> QED
    BY <1>4, <2>1
<1> HIDE DEF A, B, f
<1>6. ~ Cardinality(B) < Cardinality(A)
  BY <1>2, <1>3, <1>4, <1>5, FS_PigeonHole
<1> QED
  BY <1>1, <1>2, <1>3, <1>6 DEF A

\* No window admits more of a key's requests than either of its limits.
THEOREM LimitsKept == Spec => []AdmittedWithinLimits
  BY Tickets, AdmittedBound, PTL
-----------------------------------------------------------------------------
\* A grant stands for an admitted request: there are as many of either.
LEMMA GrantsCounted ==
  ASSUME TypeOK, NEW k \in Keys, NEW w \in Times, NEW l \in Lives
  PROVE  Promise!Cardinality(Promise!GrantedIn(k, <<w, l>>)) = Cardinality(Admitted(k, w, l))
<1> DEFINE A == Admitted(k, w, l)
           G == Promise!GrantedIn(k, <<w, l>>)
           f == [r \in A |-> <<r, k, <<w, l>>>>]
<1>1. IsFiniteSet(A)
  BY RequestsAssumption, FS_Subset DEF Admitted
<1>2. G = {<<r, k, <<w, l>>>> : r \in A}
  BY DEF Promise!GrantedIn, Grants, Admitted
<1>3. f \in Bijection(A, G)
  BY <1>2 DEF Bijection, Injection, Surjection, IsInjective
<1>4. Promise!Cardinality(G) = Cardinality(G)
  BY DEF Promise!Cardinality, Cardinality
<1> QED
  BY <1>1, <1>3, <1>4, FS_Bijection DEF ExistsBijection

\* The limiter implements WindowQuota.
THEOREM QuotaImplemented == Spec => ImplementsQuota
<1>1. Init => Promise!Init
  BY DEF Init, Promise!Init, Grants
<1>2. /\ TypeOK /\ TypeOK' /\ AdmittedWithinLimits' /\ [Next]_vars
      => [Promise!Next]_Grants
  <2> SUFFICES ASSUME TypeOK, TypeOK', AdmittedWithinLimits', [Next]_vars,
                      Grants' # Grants
               PROVE  Promise!Next
    BY Zenon
  <2> DEFINE Adm == {q \in Requests : pc[q] = "admitted"}
  <2>1. Grants = {<<q, key[q], <<WindowAt(q), born[q]>>>> : q \in Adm}
    BY DEF Grants
  <2>2. PICK r \in Requests : ExpireAndCheck(r, "rpm") /\ ~ Exceeds(r, "rpm")
    <3>1. ASSUME NEW r \in Requests, ReadClock(r)
          PROVE  Grants' = Grants
      <4>1. Adm' = Adm /\ \A q \in Adm : started'[q] = started[q] /\ born'[q] = born[q] /\ key' = key
        BY <3>1 DEF ReadClock, AtIncr, TypeOK
      <4> QED
        BY <4>1 DEF Grants, WindowAt
    <3>2. ASSUME NEW r \in Requests, NEW c \in Counters, Incr(r, c) \/ IncrFails(r, c)
          PROVE  Grants' = Grants
      <4>1. Adm' = Adm /\ key' = key /\ started' = started /\ born' = born
        BY <3>2 DEF Incr, IncrFails, AtIncr, AtExpire, TypeOK
      <4> QED
        BY <4>1 DEF Grants, WindowAt
    <3>3. ASSUME NEW r \in Requests, NEW c \in Counters, ExpireAndCheck(r, c),
                 c # "rpm" \/ Exceeds(r, c)
          PROVE  Grants' = Grants
      <4>1. Adm' = Adm /\ key' = key /\ started' = started /\ born' = born
        BY <3>3 DEF ExpireAndCheck, AtExpire, Passed, Counters, TypeOK
      <4> QED
        BY <4>1 DEF Grants, WindowAt
    <3>4. ASSUME NEW r \in Requests, Disconnect(r)
          PROVE  Grants' = Grants
      <4>1. Adm' = Adm /\ key' = key /\ started' = started /\ born' = born
        BY <3>4 DEF Disconnect, Undecided, TypeOK
      <4> QED
        BY <4>1 DEF Grants, WindowAt
    <3>5. CASE Tick \/ UNCHANGED vars
      BY <3>5 DEF Tick, vars, Grants, WindowAt
    <3>6. CASE Restart
      <4>1. Adm' = Adm /\ key' = key /\ started' = started /\ born' = born
        BY <3>6 DEF Restart, Undecided, TypeOK
      <4> QED
        BY <4>1 DEF Grants, WindowAt
    <3> QED
      BY <3>1, <3>2, <3>3, <3>4, <3>5, <3>6 DEF Next, Counters
  <2> DEFINE k == key[r]
             w == WindowAt(r)
             l == born[r]
             g == <<r, k, <<w, l>>>>
  <2>3. k \in Keys /\ w \in Times /\ l \in Lives
    BY KeyTyped DEF TypeOK, Counters
  <2>4. /\ pc[r] = "expire_rpm" /\ Adm' = Adm \union {r} /\ r \notin Adm
        /\ key' = key /\ started' = started /\ born' = born
    BY <2>2 DEF ExpireAndCheck, AtExpire, Passed, TypeOK
  <2>5. Grants' = Grants \union {g}
    BY <2>4 DEF Grants, WindowAt
  <2>6. \A h \in Grants : h[1] # r
    BY <2>4 DEF Grants
  <2>7. Quota(k, Promise!Cardinality(Promise!GrantedIn(k, <<w, l>>)) + 1)
    <3>1. Admitted(k, w, l)' = Admitted(k, w, l) \union {r} /\ r \notin Admitted(k, w, l)
      BY <2>4 DEF Admitted, WindowAt
    <3>2. IsFiniteSet(Admitted(k, w, l))
      BY RequestsAssumption, FS_Subset DEF Admitted
    <3>3. Cardinality(Admitted(k, w, l)') = Cardinality(Admitted(k, w, l)) + 1
      BY <3>1, <3>2, FS_AddElement
    <3>4. \A c \in Counters : WithinLimit(c, k, Cardinality(Admitted(k, w, l)'))
      BY <2>3, <2>4 DEF AdmittedWithinLimits, Admitted, WindowAt, WithinLimit
    <3> QED
      BY <2>3, <3>3, <3>4, GrantsCounted DEF Quota
  <2>8. Promise!Grant(r, k, <<w, l>>)
    BY <2>5, <2>6, <2>7 DEF Promise!Grant
  <2> QED
    BY <2>3, <2>8 DEF Promise!Next
<1> QED
  BY <1>1, <1>2, TypeCorrect, LimitsKept, PTL DEF Spec, ImplementsQuota, Promise!Spec
-----------------------------------------------------------------------------
(***************************************************************************)
(* Why nobody is limited too early: a counter never runs ahead of the      *)
(* requests that came to it, whatever fails in between, and so neither     *)
(* does a ticket.                                                          *)
(***************************************************************************)

\* Where a request has not yet incremented counter c.
Before(c) ==
  IF c = "tpm" THEN {"new", "incr_tpm"} ELSE {"new", "incr_tpm", "expire_tpm", "incr_rpm"}

\* The requests that may have incremented counter x.
Spenders(x) ==
  {r \in Requests : CounterKey(x[1], r) = x /\ pc[r] \notin Before(x[1])}

Explained ==
  /\ \A x \in CounterKeys : count[x] <= Cardinality(Spenders(x))
  /\ \A c \in Counters, r \in Requests :
       ticket[c][r] > 0 => ticket[c][r] <= Cardinality(Spenders(CounterKey(c, r)))
  /\ \A r \in Requests : pc[r] = "limited" => Exceeds(r, RefusedBy(r))

\* The requests that spent a counter can be counted.
LEMMA SpendersFinite ==
  ASSUME NEW x
  PROVE  IsFiniteSet(Spenders(x)) /\ Cardinality(Spenders(x)) \in Nat
BY RequestsAssumption, FS_Subset, FS_CardinalityType DEF Spenders

\* If nobody leaves the spenders, the bounds stay what they are.
LEMMA SpendersGrow ==
  ASSUME NEW x, Spenders(x) \subseteq Spenders(x)'
  PROVE  Cardinality(Spenders(x)) <= Cardinality(Spenders(x)')
<1>1. IsFiniteSet(Spenders(x)')
  BY RequestsAssumption, FS_Subset DEF Spenders
<1> QED
  BY <1>1, FS_Subset

\* No step takes a request away from the spenders of its counters, and a request
\* that increments one is new among them.
LEMMA SpendersStep ==
  ASSUME TypeOK, [Next]_vars
  PROVE  /\ \A x \in CounterKeys : Spenders(x) \subseteq Spenders(x)'
         /\ \A r \in Requests, c \in Counters, x \in CounterKeys :
              (Incr(r, c) \/ IncrFails(r, c)) /\ x = CounterKey(c, r) =>
                r \notin Spenders(x) /\ Spenders(x) \union {r} \subseteq Spenders(x)'
<1> USE DEF TypeOK
<1>0. ASSUME NEW x \in CounterKeys, NEW q \in Requests, q \in Spenders(x),
             pc[q] # "new" => started'[q] = started[q] /\ born'[q] = born[q],
             pc'[q] \in Before(x[1]) => pc[q] \in Before(x[1]), UNCHANGED key
      PROVE  q \in Spenders(x)'
  <2>1. x[1] \in Counters /\ pc[q] # "new"
    BY <1>0 DEF Spenders, CounterKeys, Before
  <2>2. CounterKey(x[1], q)' = CounterKey(x[1], q)
    BY <1>0, <2>1 DEF CounterKey, WindowAt
  <2> QED
    BY <1>0, <2>2 DEF Spenders
<1>1. \A x \in CounterKeys : Spenders(x) \subseteq Requests /\ x[1] \in Counters
  BY DEF Spenders, CounterKeys
<1>2. ASSUME NEW r \in Requests, ReadClock(r)
      PROVE  \A x \in CounterKeys : Spenders(x) \subseteq Spenders(x)'
  <2>1. \A x \in CounterKeys, q \in Requests :
          /\ pc[q] # "new" => started'[q] = started[q] /\ born'[q] = born[q]
          /\ pc'[q] \in Before(x[1]) => pc[q] \in Before(x[1])
    BY <1>2 DEF ReadClock, AtIncr, Before
  <2> QED
    BY <1>0, <1>1, <1>2, <2>1 DEF ReadClock
<1>3. ASSUME NEW r \in Requests, NEW c \in Counters, Incr(r, c) \/ IncrFails(r, c)
      PROVE  /\ \A x \in CounterKeys : Spenders(x) \subseteq Spenders(x)'
             /\ \A x \in CounterKeys : x = CounterKey(c, r) =>
                  r \notin Spenders(x) /\ Spenders(x) \union {r} \subseteq Spenders(x)'
  <2>1. pc[r] = AtIncr(c) /\ pc' = [pc EXCEPT ![r] = pc'[r]] /\ pc'[r] \in {AtExpire(c), "error"}
        /\ UNCHANGED <<key, started, born>>
    BY <1>3 DEF Incr, IncrFails
  <2>2. AtIncr(c) \in Before(c) /\ AtExpire(c) \notin Before(c) /\ "error" \notin Before(c)
    BY DEF AtIncr, AtExpire, Before, Counters
  <2>3. \A d \in Counters : pc'[r] \in Before(d) => pc[r] \in Before(d)
    BY <2>1 DEF AtIncr, AtExpire, Before, Counters
  <2>4. \A x \in CounterKeys, q \in Requests :
          /\ pc[q] # "new" => started'[q] = started[q] /\ born'[q] = born[q]
          /\ pc'[q] \in Before(x[1]) => pc[q] \in Before(x[1])
    BY <1>1, <2>1, <2>3
  <2>5. \A x \in CounterKeys : Spenders(x) \subseteq Spenders(x)'
    BY <1>0, <1>1, <2>1, <2>4
  <2>6. ASSUME NEW x \in CounterKeys, x = CounterKey(c, r)
        PROVE  r \notin Spenders(x) /\ r \in Spenders(x)'
    <3>1. x[1] = c /\ CounterKey(c, r)' = CounterKey(c, r)
      BY <2>1, <2>6 DEF CounterKey, WindowAt
    <3>2. r \notin Spenders(x)
      BY <2>1, <2>2, <3>1 DEF Spenders
    <3>3. CounterKey(x[1], r)' = x /\ pc'[r] \notin Before(x[1])
      BY <2>1, <2>2, <2>6, <3>1
    <3>4. r \in Spenders(x)'
      BY <3>3 DEF Spenders
    <3> QED
      BY <3>2, <3>4
  <2> QED
    BY <2>5, <2>6
<1>4. ASSUME NEW r \in Requests, NEW c \in Counters, ExpireAndCheck(r, c)
      PROVE  \A x \in CounterKeys : Spenders(x) \subseteq Spenders(x)'
  <2>1. \A x \in CounterKeys, q \in Requests :
          pc'[q] \in Before(x[1]) => pc[q] \in Before(x[1])
    BY <1>1, <1>4 DEF ExpireAndCheck, AtExpire, Passed, Before, Counters
  <2>2. UNCHANGED <<key, started, born>>
    BY <1>4 DEF ExpireAndCheck
  <2> QED
    BY <1>0, <1>1, <2>1, <2>2
<1>5. ASSUME NEW r \in Requests, Disconnect(r)
      PROVE  \A x \in CounterKeys : Spenders(x) \subseteq Spenders(x)'
  <2>1. \A x \in CounterKeys, q \in Requests :
          pc'[q] \in Before(x[1]) => pc[q] \in Before(x[1])
    BY <1>5 DEF Disconnect, Before
  <2> QED
    BY <1>0, <1>1, <1>5, <2>1 DEF Disconnect
<1>9. ASSUME Restart
      PROVE  \A x \in CounterKeys : Spenders(x) \subseteq Spenders(x)'
  <2>1. \A x \in CounterKeys, q \in Requests :
          pc'[q] \in Before(x[1]) => pc[q] \in Before(x[1])
    BY <1>9 DEF Restart, Before
  <2> QED
    BY <1>0, <1>1, <1>9, <2>1 DEF Restart
<1>6. ASSUME UNCHANGED <<pc, key, started, born>>
      PROVE  \A x \in CounterKeys : Spenders(x) \subseteq Spenders(x)'
  BY <1>0, <1>1, <1>6
<1>7. Tick \/ UNCHANGED vars => UNCHANGED <<pc, key, started, born>>
  BY DEF Tick, vars
<1>8. \A x \in CounterKeys : Spenders(x) \subseteq Spenders(x)'
  BY <1>2, <1>3, <1>4, <1>5, <1>6, <1>7, <1>9 DEF Next
<1> QED
  BY <1>3, <1>8

\* No step lets a counter or a ticket run ahead.
LEMMA ExplainedStep == TypeOK /\ TypeOK' /\ TicketInv /\ Explained /\ [Next]_vars => Explained'
<1> SUFFICES ASSUME TypeOK, TypeOK', TicketInv, Explained, [Next]_vars PROVE Explained'
  OBVIOUS
<1> USE DEF TypeOK
<1>1. \A x \in CounterKeys :
        /\ Cardinality(Spenders(x)) \in Nat /\ Cardinality(Spenders(x)') \in Nat
        /\ Cardinality(Spenders(x)) <= Cardinality(Spenders(x)')
  <2>1. ASSUME NEW x \in CounterKeys PROVE Cardinality(Spenders(x)') \in Nat
    BY RequestsAssumption, FS_Subset, FS_CardinalityType DEF Spenders
  <2> QED
    BY <2>1, SpendersFinite, SpendersStep, SpendersGrow
<1>2. ASSUME NEW r \in Requests, NEW c \in Counters, Incr(r, c) \/ IncrFails(r, c)
      PROVE  \A x \in CounterKeys : x = CounterKey(c, r) =>
               count[x] + 1 <= Cardinality(Spenders(x)')
  <2> SUFFICES ASSUME NEW x \in CounterKeys, x = CounterKey(c, r)
               PROVE  count[x] + 1 <= Cardinality(Spenders(x)')
    OBVIOUS
  <2>1. r \notin Spenders(x) /\ Spenders(x) \union {r} \subseteq Spenders(x)'
    BY <1>2, SpendersStep
  <2>2. Cardinality(Spenders(x) \union {r}) = Cardinality(Spenders(x)) + 1
    BY <2>1, SpendersFinite, FS_AddElement
  <2>3. IsFiniteSet(Spenders(x)')
    BY RequestsAssumption, FS_Subset DEF Spenders
  <2>4. Cardinality(Spenders(x) \union {r}) <= Cardinality(Spenders(x)')
    BY <2>1, <2>3, FS_Subset
  <2>5. count[x] <= Cardinality(Spenders(x)) /\ count[x] \in Nat
    BY <2>1 DEF Explained
  <2> QED
    BY <1>1, <2>1, <2>2, <2>4, <2>5
<1>3. \A x \in CounterKeys : count'[x] <= Cardinality(Spenders(x)')
  <2>1. ASSUME NEW x \in CounterKeys, count'[x] <= count[x]
        PROVE  count'[x] <= Cardinality(Spenders(x)')
    <3>1. count'[x] \in Nat /\ count[x] \in Nat
      OBVIOUS
    <3>2. count[x] <= Cardinality(Spenders(x))
      BY DEF Explained
    <3> QED
      BY <1>1, <2>1, <3>1, <3>2
  <2>2. ASSUME NEW r \in Requests, NEW c \in Counters, Incr(r, c) \/ IncrFails(r, c)
        PROVE  \A x \in CounterKeys :
                 count'[x] <= count[x] \/ (x = CounterKey(c, r) /\ count'[x] = count[x] + 1)
    BY <2>2, KeyTyped DEF Incr, IncrFails
  <2>3. ASSUME NEW r \in Requests,
               ReadClock(r) \/ Disconnect(r) \/ \E c \in Counters : ExpireAndCheck(r, c)
        PROVE  count' = count
    BY <2>3 DEF ReadClock, Disconnect, ExpireAndCheck
  <2>6. Restart => count' = count
    BY DEF Restart
  <2>4. CASE Tick
    BY <2>1, <2>4 DEF Tick
  <2>5. CASE count' = count
    BY <2>1, <2>5
  <2> QED
    BY <1>2, <2>1, <2>2, <2>3, <2>4, <2>5, <2>6 DEF Next, vars
<1>4. ASSUME NEW c \in Counters, NEW r \in Requests, ticket'[c][r] > 0,
             NEW x \in CounterKeys, x = CounterKey(c, r)
      PROVE  ticket'[c][r] <= Cardinality(Spenders(x)')
  <2>1. ticket'[c][r] \in Nat /\ ticket[c][r] \in Nat
    OBVIOUS
  <2>3. CASE ticket'[c][r] = ticket[c][r]
    <3>1. ticket[c][r] <= Cardinality(Spenders(x))
      BY <1>4, <2>3 DEF Explained
    <3> QED
      BY <1>1, <2>1, <2>3, <3>1
  <2>4. CASE Incr(r, c)
    <3>1. ticket'[c][r] = count[x] + 1
      BY <1>4, <2>4 DEF Incr
    <3>2. count[x] + 1 <= Cardinality(Spenders(x)')
      BY <1>2, <1>4, <2>4
    <3> QED
      BY <3>1, <3>2
  <2>5. ASSUME NEW q \in Requests, NEW d \in Counters, Incr(q, d), ~ Incr(r, c)
        PROVE  ticket'[c][r] = ticket[c][r]
    BY <2>5 DEF Incr
  <2>6. ASSUME NEW q \in Requests, NEW d \in Counters,
               ReadClock(q) \/ Disconnect(q) \/ ExpireAndCheck(q, d) \/ IncrFails(q, d)
        PROVE  ticket'[c][r] = ticket[c][r]
    BY <2>6 DEF ReadClock, Disconnect, ExpireAndCheck, IncrFails
  <2>7. Tick \/ Restart \/ UNCHANGED vars => ticket'[c][r] = ticket[c][r]
    BY DEF Tick, Restart, vars
  <2> QED
    BY <2>3, <2>4, <2>5, <2>6, <2>7 DEF Next, Counters
<1>5. ASSUME NEW r \in Requests, NEW c \in Counters, ticket[c][r] > 0
      PROVE  CounterKey(c, r)' = CounterKey(c, r)
  <2>1. pc[r] # "new"
    BY <1>5 DEF TicketInv, TicketsHeld, Counters
  <2>2. key' = key /\ started'[r] = started[r] /\ born'[r] = born[r]
    BY <2>1 DEF Next, vars, ReadClock, Incr, IncrFails, ExpireAndCheck, Disconnect, Tick, Restart
  <2> QED
    BY <2>2 DEF CounterKey, WindowAt
<1>6. ASSUME NEW r \in Requests, NEW c \in Counters, ticket'[c][r] > 0
      PROVE  CounterKey(c, r)' = CounterKey(c, r)
  <2>1. CASE ticket[c][r] > 0
    BY <1>5, <2>1
  <2>2. CASE ~ ticket[c][r] > 0
    <3>1. UNCHANGED <<key, started, born>>
      <4>1. \A q \in Requests : ReadClock(q) => ticket' = ticket
        BY DEF ReadClock
      <4> QED
        BY <1>6, <2>2, <4>1 DEF Next, vars, Incr, IncrFails, ExpireAndCheck, Disconnect, Tick, Restart
    <3> QED
      BY <3>1 DEF CounterKey, WindowAt
  <2> QED
    BY <2>1, <2>2
<1>7. ASSUME NEW r \in Requests, pc'[r] = "limited"
      PROVE  Exceeds(r, RefusedBy(r))'
  <2>0. RefusedBy(r) \in Counters /\ "rpm" \in Counters
    BY DEF RefusedBy, Counters
  <2>1. CASE pc[r] = "limited"
    <3>1. Exceeds(r, RefusedBy(r))
      BY <2>1 DEF Explained
    <3>2. (\A c \in Counters : ticket'[c][r] = ticket[c][r]) /\ key' = key
      <4>1. ASSUME NEW q \in Requests, NEW d \in Counters, Incr(q, d)
            PROVE  (\A c \in Counters : ticket'[c][r] = ticket[c][r]) /\ key' = key
        <5>1. q # r
          BY <2>1, <4>1 DEF Incr, AtIncr
        <5> QED
          BY <4>1, <5>1 DEF Incr
      <4> QED
        BY <4>1 DEF Next, vars, ReadClock, IncrFails, ExpireAndCheck, Disconnect, Tick, Restart
    <3>3. RefusedBy(r)' = RefusedBy(r)
      BY <2>0, <3>2 DEF RefusedBy
    <3> QED
      BY <2>0, <3>1, <3>2, <3>3 DEF Exceeds
  <2>2. CASE pc[r] # "limited"
    <3>1. PICK c \in Counters : ExpireAndCheck(r, c)
      BY <1>7, <2>2
      DEF Next, vars, ReadClock, Incr, IncrFails, ExpireAndCheck, Disconnect, Tick, Restart, Undecided, AtIncr, AtExpire
    <3>2. Exceeds(r, c) /\ ticket' = ticket /\ key' = key /\ pc[r] = AtExpire(c)
      BY <1>7, <3>1 DEF ExpireAndCheck, Passed
    <3>3. RefusedBy(r) = c
      BY <3>2 DEF RefusedBy, TicketInv, TicketsHeld, AtExpire, Counters
    <3> QED
      BY <3>2, <3>3 DEF Exceeds, RefusedBy
  <2> QED
    BY <2>1, <2>2
<1>8. ASSUME NEW c \in Counters, NEW r \in Requests, ticket'[c][r] > 0
      PROVE  ticket'[c][r] <= Cardinality(Spenders(CounterKey(c, r)))'
  <2>1. PICK x \in CounterKeys : x = CounterKey(c, r)
    BY KeyTyped
  <2>2. CounterKey(c, r)' = x
    BY <1>6, <1>8, <2>1
  <2>3. Spenders(CounterKey(c, r))' = Spenders(x)'
    BY <2>2 DEF Spenders
  <2> QED
    BY <1>4, <1>8, <2>1, <2>3
<1> QED
  BY <1>3, <1>7, <1>8 DEF Explained

\* A request is limited only when as many requests of its key and window as the
\* limit it broke have come.
THEOREM LimitedLate == Spec => []LimitedOnlyWhenFull
<1>1. Init => Explained
  <2> SUFFICES ASSUME Init PROVE Explained
    OBVIOUS
  <2>1. \A x \in CounterKeys : count[x] = 0 /\ Cardinality(Spenders(x)) \in Nat
    BY SpendersFinite DEF Init
  <2> QED
    BY <2>1 DEF Init, Explained
<1>2. TypeOK /\ Explained => LimitedOnlyWhenFull
  <2> SUFFICES ASSUME TypeOK, Explained, NEW r \in Requests, pc[r] = "limited"
               PROVE  /\ Limit[RefusedBy(r)][key[r]] # Unlimited
                      /\ Limit[RefusedBy(r)][key[r]] <= Cardinality({q \in Requests :
                           /\ pc[q] # "new" /\ key[q] = key[r]
                           /\ WindowAt(q) = WindowAt(r) /\ born[q] = born[r]})
    BY DEF LimitedOnlyWhenFull
  <2> DEFINE c == RefusedBy(r)
  <2>1. c \in Counters /\ Exceeds(r, c)
    BY DEF Explained, RefusedBy, Counters
  <2> DEFINE came == {q \in Requests :
                        /\ pc[q] # "new" /\ key[q] = key[r]
                        /\ WindowAt(q) = WindowAt(r) /\ born[q] = born[r]}
             x == CounterKey(c, r)
             n == Limit[c][key[r]]
  <2> HIDE DEF c
  <2>2. n \in Nat /\ n # Unlimited /\ ticket[c][r] \in Nat /\ ticket[c][r] > n
    BY <2>1 DEF Exceeds, TypeOK
  <2>3. ticket[c][r] <= Cardinality(Spenders(x))
    BY <2>1, <2>2 DEF Explained
  <2>4. Spenders(x) \subseteq came
    BY DEF Spenders, CounterKey, Before
  <2>5. IsFiniteSet(came) /\ Cardinality(came) \in Nat
    BY RequestsAssumption, FS_Subset, FS_CardinalityType
  <2>6. Cardinality(Spenders(x)) <= Cardinality(came) /\ Cardinality(Spenders(x)) \in Nat
    BY <2>4, <2>5, SpendersFinite, FS_Subset
  <2>7. n <= Cardinality(came)
    BY <2>2, <2>3, <2>5, <2>6
  <2> QED
    BY <2>2, <2>7 DEF c
<1> QED
  BY <1>1, <1>2, Tickets, TypeCorrect, ExplainedStep, PTL DEF Spec
-----------------------------------------------------------------------------
(***************************************************************************)
(* A stretch of Window ticks lies in two windows at most.                  *)
(***************************************************************************)

\* What a burst admits is what two windows admit.
LEMMA TwoWindows ==
  ASSUME NEW t \in Times, NEW s \in Times, t <= s, s < t + Window
  PROVE  WindowOf(s) \in {WindowOf(t), WindowOf(t) + Window}
<1>1. s \in Nat /\ t \in Nat
  BY DEF Times
<1>2. s \div Window \in {t \div Window, (t \div Window) + 1}
  BY <1>1, SMT
<1>3. t \div Window \in Nat
  BY <1>1, SMT
<1> QED
  BY <1>2, <1>3, SMT DEF WindowOf

\* Across the border of two windows a key gets at most twice its limit.
THEOREM BurstsKept == Spec => []BurstsBounded
<1>1. TypeOK /\ AdmittedWithinLimits => BurstsBounded
  <2> SUFFICES ASSUME TypeOK, AdmittedWithinLimits, NEW c \in Counters, NEW k \in Keys,
                      NEW l \in Lives, NEW t \in Times, Limit[c][k] # Unlimited
               PROVE  Cardinality({r \in Requests :
                        /\ pc[r] = "admitted" /\ key[r] = k /\ born[r] = l
                        /\ t <= started[r] /\ started[r] < t + Window}) <= 2 * Limit[c][k]
    BY DEF BurstsBounded
  <2> DEFINE n == Limit[c][k]
             B == {r \in Requests :
                     /\ pc[r] = "admitted" /\ key[r] = k /\ born[r] = l
                     /\ t <= started[r] /\ started[r] < t + Window}
             first == Admitted(k, WindowOf(t), l)
             second == Admitted(k, WindowOf(t) + Window, l)
  <2>1. n \in Nat
    OBVIOUS
  <2>2. B \subseteq first \union second
    <3> SUFFICES ASSUME NEW r \in B PROVE r \in first \union second
      OBVIOUS
    <3>1. started[r] \in Times
      BY DEF TypeOK
    <3> QED
      BY <3>1, TwoWindows DEF Admitted, WindowAt
  <2>3. \A w : /\ IsFiniteSet(Admitted(k, w, l)) /\ Cardinality(Admitted(k, w, l)) \in Nat
    BY RequestsAssumption, FS_Subset, FS_CardinalityType DEF Admitted
  <2>4. \A w \in Times : Cardinality(Admitted(k, w, l)) <= n
    BY DEF AdmittedWithinLimits, WithinLimit
  <2>5. Cardinality(first) <= n
    BY <2>4, WindowBounds
  <2>6. Cardinality(second) <= n
    <3>1. CASE WindowOf(t) + Window \in Times
      BY <2>4, <3>1
    <3>2. CASE WindowOf(t) + Window \notin Times
      <4>1. second = {}
        <5>1. \A r \in Requests : WindowAt(r) \in Times
          BY KeyTyped
        <5> QED
          BY <3>2, <5>1 DEF Admitted
      <4>2. Cardinality(second) = 0
        BY <4>1, FS_EmptySet
      <4> QED
        BY <2>1, <4>2
    <3> QED
      BY <3>1, <3>2
  <2>7. /\ IsFiniteSet(first \union second)
        /\ Cardinality(first \union second) \in Nat
        /\ Cardinality(first \intersect second) \in Nat
        /\ Cardinality(first \union second)
             = Cardinality(first) + Cardinality(second) - Cardinality(first \intersect second)
    BY <2>3, FS_Union, FS_Intersection, FS_CardinalityType
  <2>8. Cardinality(B) \in Nat /\ Cardinality(B) <= Cardinality(first \union second)
    BY <2>2, <2>7, FS_Subset, FS_CardinalityType
  <2> QED
    BY <2>1, <2>3, <2>5, <2>6, <2>7, <2>8
<1> QED
  BY <1>1, TypeCorrect, LimitsKept, PTL
=============================================================================
