----------------------- MODULE WebhookDeliveryProofs ------------------------
(***************************************************************************)
(* What holds of webhook deliveries for any number of them, any fan-out,   *)
(* any size of the limiter, any retry budget, and any faults.              *)
(*                                                                         *)
(* Limiter relates the counter and the queue of the limiter to what the    *)
(* deliveries do; Traced says what a delivery that is over, or whose job   *)
(* ended, has left behind; Counted how many rows and answers it can have   *)
(* at each place of its two lives, the dispatch and the job.               *)
(***************************************************************************)
EXTENDS WebhookDelivery, FiniteSetTheorems, TLAPS

Parkers == {d \in Deliveries : stage[d] = "parked"}

Limiter ==
  /\ closed => waiters = <<>>
  /\ ~queueOn /\ service \in {"draining", "drained"} => closed
  /\ \A i, j \in 1..Len(waiters) : waiters[i] = waiters[j] => i = j
  /\ {waiters[i] : i \in 1..Len(waiters)} = Parkers
  /\ active = Cardinality(InFlight)
  /\ waiters # <<>> => active = Slots

Budget(d) ==
  /\ stage[d] = "sleep" => attempt[d] < RetryCount
  /\ job[d].at # "dead" => job[d].made = 0 \/ job[d].made < RetryCount
  /\ job[d].at \in {"none", "wait", "orphan"} \cup Running => job[d].stalls <= 1

Trace(d) == answers[d] > 0 \/ rows[d] > 0 \/ d \in unrecorded

Traced(d) ==
  /\ ~queueOn /\ service = "drained" /\ stage[d] \in Held => d \in logged
  /\ stage[d] \in {"hook", "over"} => Trace(d) \/ job[d].at # "none"
  /\ stage[d] = "lost" =>
       \/ Trace(d) \/ job[d].at # "none" \/ d \in logged
       \/ dropped[d] \in {"crash", "lookup"} \cup Refused
       \/ queueOn /\ dropped[d] \in Live
  /\ job[d].at = "failing" => Trace(d)
  /\ job[d].at \in {"booking", "done"} => answers[d] > 0
  /\ job[d].at = "dead" => Trace(d) \/ dropped[d] \in {"crash", "reporting"}

(* Nothing has come of the delivery yet. *)
Early  == {"new", "lookup", "parked", "pre", "add"} \cup Refused
Before == Early \cup {"post", "sleep", "record"}

Counted(d) ==
  /\ stage[d] \in Early => job[d].at = "none"
  /\ stage[d] \in Before /\ job[d].at = "none" => rows[d] + answers[d] = 0
  /\ job[d].at = "none" => job[d].stalls = 0 /\ d \notin doubled
  /\ job[d].at \in {"doomed", "reporting"} => job[d].stalls > 0
  /\ d \notin doubled /\ job[d].at # "none" => stage[d] \in {"hook", "over", "lost"}
  /\ d \notin doubled /\ job[d].stalls = 0 =>
       /\ rows[d] + answers[d] <= 1
       /\ job[d].at \in {"wait", "posting", "recording"} => rows[d] + answers[d] = 0

Each == \A d \in Deliveries : Budget(d) /\ Traced(d) /\ Counted(d)

IInv == TypeOK /\ Limiter /\ Each


-----------------------------------------------------------------------------
LEMMA HeadTail ==
  ASSUME NEW S, NEW q \in Seq(S), q # <<>>
  PROVE  /\ Head(q) = q[1] /\ Head(q) \in S
         /\ Tail(q) \in Seq(S) /\ Len(Tail(q)) = Len(q) - 1
         /\ \A i \in 1..Len(Tail(q)) : Tail(q)[i] = q[i + 1]
         /\ Len(q) \in Nat \ {0}
  OBVIOUS

LEMMA Concatenation ==
  ASSUME NEW S, NEW q \in Seq(S), NEW r \in Seq(S)
  PROVE  /\ q \o r \in Seq(S) /\ Len(q \o r) = Len(q) + Len(r)
         /\ \A i \in 1..Len(q) : (q \o r)[i] = q[i]
         /\ \A i \in 1..Len(r) : (q \o r)[Len(q) + i] = r[i]
  OBVIOUS

LEMMA FinitePlaces ==
  ASSUME NEW S, S \subseteq Deliveries
  PROVE  IsFiniteSet(S) /\ Cardinality(S) \in Nat
  BY FS_Subset, FS_CardinalityType, WebhookAssumption DEF WebhookAssumption

LEMMA InitInv == Init => IInv
<1> SUFFICES ASSUME Init PROVE IInv
  OBVIOUS
<1>1. TypeOK
  <2>1. RetryCount \in Nat /\ Slots \in Nat \ {0} /\ MaxQueued \in Nat
    BY WebhookAssumption DEF WebhookAssumption
  <2>2. job \in [Deliveries -> [at: JobPlaces, made: 0..(RetryCount + 1), stalls: 0..2]]
    BY <2>1 DEF Init, JobPlaces
  <2>3. /\ stage \in [Deliveries -> {"new"} \cup Live \cup Ended]
        /\ attempt \in [Deliveries -> {1} \cup 1..RetryCount]
        /\ dropped \in [Deliveries -> {"no", "crash", "reporting"} \cup Live]
    BY DEF Init
  <2>4. rows \in [Deliveries -> 0..Seen] /\ answers \in [Deliveries -> 0..Seen]
    BY DEF Init, Seen
  <2>5. waiters \in Seq(Deliveries) /\ Len(waiters) <= MaxQueued /\ active \in 0..Slots
    BY <2>1 DEF Init
  <2> QED
    BY <2>2, <2>3, <2>4, <2>5 DEF Init, TypeOK
<1>2. InFlight = {} /\ Parkers = {}
  BY DEF Init, InFlight, Parkers, Held
<1>3. Limiter
  BY <1>2, FS_EmptySet DEF Init, Limiter
<1>4. Each
  BY DEF Init, Each, Budget, Traced, Counted, Trace, Held, Live, Refused, Running, Early, Before
<1> QED
  BY <1>1, <1>3, <1>4 DEF IInv

(* A step that moves no delivery into or out of a slot or the queue. *)
LEMMA Steady ==
  ASSUME Limiter, UNCHANGED <<service, queueOn, limiter>>,
         \A c \in Deliveries : /\ stage'[c] \in Held <=> stage[c] \in Held
                               /\ stage'[c] = "parked" <=> stage[c] = "parked"
  PROVE  Limiter'
<1>1. InFlight' = InFlight
  <2>1. ASSUME NEW c \in Deliveries PROVE stage'[c] \in Held <=> stage[c] \in Held
    OBVIOUS
  <2> QED
    BY <2>1 DEF InFlight
<1>3. Parkers' = Parkers
  <2>1. ASSUME NEW c \in Deliveries PROVE stage'[c] = "parked" <=> stage[c] = "parked"
    OBVIOUS
  <2> QED
    BY <2>1 DEF Parkers
<1>2. UNCHANGED <<service, queueOn, closed, active, waiters>>
  BY DEF limiter
<1> QED
  BY <1>1, <1>2, <1>3 DEF Limiter

(* A delivery gives its slot to the first that waits, or frees it. *)
LEMMA Leaving ==
  ASSUME TypeOK, Limiter, NEW d \in Deliveries, stage[d] \in Held,
         NEW end \in Ended, Leave(d, end), UNCHANGED <<service, queueOn>>
  PROVE  /\ Limiter'
         /\ active' \in 0..Slots /\ waiters' \in Seq(Deliveries) /\ Len(waiters') <= MaxQueued
         /\ closed' = closed
         /\ stage' \in [Deliveries -> {"new"} \cup Live \cup Ended]
         /\ stage'[d] = end
         /\ \A c \in Deliveries \ {d} :
              \/ stage'[c] = stage[c]
              \/ ~closed /\ stage[c] = "parked" /\ stage'[c] = "pre"
<1> DEFINE w == Head(waiters)
<1>0. /\ end \notin Held /\ end # "parked" /\ "parked" \notin Held /\ "pre" \in Held
      /\ end \in {"new"} \cup Live \cup Ended /\ "pre" \in {"new"} \cup Live \cup Ended
  BY DEF Ended, Held, Live
<1>1. IsFiniteSet(InFlight) /\ Cardinality(InFlight) \in Nat /\ d \in InFlight
  BY FinitePlaces DEF InFlight
<1>2. /\ IsFiniteSet(InFlight \ {d}) /\ Cardinality(InFlight \ {d}) = Cardinality(InFlight) - 1
      /\ Cardinality(InFlight) - 1 \in Nat
  <2>1. IsFiniteSet(InFlight \ {d}) /\ Cardinality(InFlight \ {d}) = Cardinality(InFlight) - 1
    BY <1>1, FS_RemoveElement
  <2>2. Cardinality(InFlight \ {d}) \in Nat
    BY <2>1, FS_CardinalityType
  <2> QED
    BY <2>1, <2>2
<1>3. CASE waiters = <<>>
  <2>1. InFlight' = InFlight \ {d} /\ Parkers' = Parkers
    BY <1>0, <1>3 DEF InFlight, Parkers, Leave, Move, TypeOK
  <2>2. Limiter'
    BY <2>1, <1>2, <1>3 DEF Limiter, Leave
  <2>3. /\ active' = active - 1 /\ waiters' = waiters /\ closed' = closed
        /\ stage' = [stage EXCEPT ![d] = end]
    BY <1>3 DEF Leave, Move
  <2>4. active' \in 0..Slots
    <3>1. active \in 0..Slots /\ active - 1 \in Nat /\ Slots \in Nat
      BY <1>2, WebhookAssumption DEF TypeOK, Limiter, WebhookAssumption
    <3> QED
      BY <2>3, <3>1
  <2> QED
    BY <2>2, <2>3, <2>4, <1>0 DEF TypeOK
<1>4. CASE waiters # <<>>
  <2>1. /\ w = waiters[1] /\ w \in Deliveries /\ Len(waiters) \in Nat \ {0}
        /\ Tail(waiters) \in Seq(Deliveries) /\ Len(Tail(waiters)) = Len(waiters) - 1
        /\ \A i \in 1..Len(Tail(waiters)) : Tail(waiters)[i] = waiters[i + 1]
    BY <1>4, HeadTail DEF TypeOK
  <2>2. w \in Parkers /\ stage[w] = "parked" /\ w # d /\ ~closed
    BY <2>1, <1>0, <1>4 DEF Limiter, Parkers
  <2>3. /\ stage' = [stage EXCEPT ![d] = end, ![w] = "pre"]
        /\ waiters' = Tail(waiters) /\ active' = active /\ closed' = closed
    BY <1>4 DEF Leave
  <2>a. /\ stage'[d] = end /\ stage'[w] = "pre"
        /\ \A c \in Deliveries \ {d, w} : stage'[c] = stage[c]
    BY <2>1, <2>2, <2>3 DEF TypeOK
  <2>4. InFlight' = (InFlight \ {d}) \cup {w} /\ w \notin InFlight \ {d}
    <3>1. ASSUME NEW c \in Deliveries PROVE stage'[c] \in Held <=> (c # d /\ stage[c] \in Held) \/ c = w
      BY <2>a, <2>2, <1>0
    <3>2. w \in Deliveries /\ stage[w] \notin Held
      BY <2>1, <2>2, <1>0
    <3> QED
      BY <3>1, <3>2 DEF InFlight
  <2>5. Cardinality(InFlight') = Cardinality(InFlight)
    <3>1. Cardinality((InFlight \ {d}) \cup {w}) = Cardinality(InFlight \ {d}) + 1
      BY <2>4, <1>2, FS_AddElement
    <3> QED
      BY <3>1, <2>4, <1>1, <1>2
  <2>6. Parkers' = Parkers \ {w}
    BY <2>2, <2>3, <1>0 DEF Parkers, TypeOK
  <2>7. \A i, j \in 1..Len(waiters') : waiters'[i] = waiters'[j] => i = j
    <3> SUFFICES ASSUME NEW i \in 1..Len(waiters'), NEW j \in 1..Len(waiters'), waiters'[i] = waiters'[j]
                 PROVE  i = j
      OBVIOUS
    <3>1. i + 1 \in 1..Len(waiters) /\ j + 1 \in 1..Len(waiters)
      BY <2>1, <2>3
    <3>2. waiters[i + 1] = waiters[j + 1]
      BY <2>1, <2>3
    <3>3. i + 1 = j + 1
      BY <3>1, <3>2 DEF Limiter
    <3> QED
      BY <3>3, <2>1, <2>3
  <2>8. {waiters'[i] : i \in 1..Len(waiters')} = Parkers'
    <3>1. ASSUME NEW i \in 1..Len(waiters') PROVE waiters'[i] \in Parkers \ {w}
      <4>1. i + 1 \in 1..Len(waiters) /\ 1 \in 1..Len(waiters) /\ i + 1 # 1 /\ waiters'[i] = waiters[i + 1]
        BY <2>1, <2>3
      <4> QED
        BY <4>1, <2>1 DEF Limiter
    <3>2. ASSUME NEW c \in Parkers \ {w} PROVE \E i \in 1..Len(waiters') : waiters'[i] = c
      <4>1. PICK k \in 1..Len(waiters) : waiters[k] = c
        BY DEF Limiter
      <4>2. k # 1 /\ k - 1 \in 1..Len(waiters') /\ (k - 1) + 1 = k
        BY <4>1, <2>1, <2>3
      <4> QED
        BY <4>1, <4>2, <2>1, <2>3
    <3> QED
      BY <3>1, <3>2, <2>6
  <2>9. Limiter'
    BY <2>2, <2>3, <2>5, <2>7, <2>8, <1>4 DEF Limiter
  <2>10. stage' \in [Deliveries -> {"new"} \cup Live \cup Ended]
    BY <2>3, <1>0 DEF TypeOK
  <2>11. Len(waiters') <= MaxQueued
    <3>1. MaxQueued \in Nat
      BY WebhookAssumption DEF WebhookAssumption
    <3> QED
      BY <3>1, <2>1, <2>3 DEF TypeOK
  <2> QED
    BY <2>1, <2>2, <2>3, <2>a, <2>9, <2>10, <2>11 DEF TypeOK
<1> QED
  BY <1>3, <1>4

(* The places of a fan-out: each delivery has one, and the other way round. *)
LEMMA Ordered ==
  ASSUME NEW S \in SUBSET Deliveries, NEW o \in Orders(S)
  PROVE  /\ Cardinality(S) \in Nat
         /\ o \in [1..Cardinality(S) -> S]
         /\ \A i, j \in 1..Cardinality(S) : o[i] = o[j] => i = j
         /\ \A d \in S : /\ PlaceIn(o, d) \in 1..Cardinality(S)
                         /\ o[PlaceIn(o, d)] = d
         /\ \A i \in 1..Cardinality(S) : PlaceIn(o, o[i]) = i
<1> DEFINE n == Cardinality(S)
<1>1. n \in Nat
  BY FinitePlaces
<1>2. /\ o \in [1..n -> S] /\ DOMAIN o = 1..n
      /\ \A d \in S : \E i \in 1..n : \A j \in 1..n : o[j] = d <=> i = j
  BY DEF Orders
<1>3. \A i, j \in 1..n : o[i] = o[j] => i = j
  <2> SUFFICES ASSUME NEW i \in 1..n, NEW j \in 1..n, o[i] = o[j] PROVE i = j
    OBVIOUS
  <2>1. PICK k \in 1..n : \A m \in 1..n : o[m] = o[i] <=> k = m
    BY <1>2
  <2> QED
    BY <2>1
<1>4. ASSUME NEW d \in S PROVE PlaceIn(o, d) \in 1..n /\ o[PlaceIn(o, d)] = d
  <2>1. \E i \in DOMAIN o : o[i] = d
    BY <1>2
  <2> QED
    BY <2>1, <1>2 DEF PlaceIn
<1>5. ASSUME NEW i \in 1..n PROVE PlaceIn(o, o[i]) = i
  <2>1. o[i] \in S
    BY <1>2
  <2> QED
    BY <2>1, <1>3, <1>4
<1> QED
  BY <1>1, <1>2, <1>3, <1>4, <1>5

(* The first k of a fan-out are k. *)
LEMMA Counting ==
  ASSUME NEW S \in SUBSET Deliveries, NEW o \in Orders(S), NEW k \in 0..Cardinality(S)
  PROVE  /\ IsFiniteSet({o[i] : i \in 1..k})
         /\ Cardinality({o[i] : i \in 1..k}) = k
<1> DEFINE T == {o[i] : i \in 1..k}
           f == [i \in 1..k |-> o[i]]
<1>0. Cardinality(S) \in Nat /\ k \in Nat /\ \A i \in 1..k : i \in 1..Cardinality(S)
  BY Ordered
<1>1. f \in Bijection(1..k, T)
  <2>1. f \in [1..k -> T] /\ \A t \in T : \E i \in 1..k : f[i] = t
    OBVIOUS
  <2>2. ASSUME NEW i \in 1..k, NEW j \in 1..k, f[i] = f[j] PROVE i = j
    <3>1. o[i] = o[j]
      BY <2>2
    <3> QED
      BY <3>1, <1>0, Ordered
  <2> HIDE DEF f, T
  <2> QED
    BY <2>1, <2>2 DEF Bijection, Injection, Surjection, IsInjective
<1>2. ExistsBijection(1..k, T)
  BY <1>1 DEF ExistsBijection
<1>3. Cardinality(T) = k
  BY <1>0, <1>2, FS_CountingElements
<1>4. T \subseteq Deliveries
  BY <1>0, Ordered
<1> QED
  BY <1>3, <1>4, FinitePlaces

(* A fan-out takes the free slots, then the places to wait, and refuses the rest. *)
LEMMA FanningOut ==
  ASSUME TypeOK, Limiter, NEW e \in Events, FanOut(e)
  PROVE  /\ Limiter'
         /\ active' \in 0..Slots /\ waiters' \in Seq(Deliveries) /\ Len(waiters') <= MaxQueued
         /\ stage' \in [Deliveries -> {"new"} \cup Live \cup Ended]
         /\ \A c \in Deliveries \ Matching(e) : stage'[c] = stage[c]
         /\ \A c \in Matching(e) :
              /\ stage[c] = "lookup" /\ stage'[c] \in {"late", "pre", "parked", "shed"}
              /\ closed => stage'[c] = "late"
<1> DEFINE M == Matching(e)
           n == Cardinality(M)
           k == Started(n)
           p == Parked(n)
<1>1. PICK o \in Orders(M) :
        /\ stage' = [d \in Deliveries |-> IF EventOf[d] = e THEN Admit(PlaceIn(o, d)) ELSE stage[d]]
        /\ active' = active + k
        /\ waiters' = waiters \o [i \in 1..p |-> o[Room + i]]
  BY DEF FanOut
<1>2. /\ UNCHANGED <<service, queueOn, closed>>
      /\ M \subseteq Deliveries /\ \A c \in M : stage[c] = "lookup"
  BY DEF FanOut, Matching
<1>3. /\ n \in Nat /\ o \in [1..n -> M]
      /\ \A i, j \in 1..n : o[i] = o[j] => i = j
      /\ \A d \in M : PlaceIn(o, d) \in 1..n /\ o[PlaceIn(o, d)] = d
      /\ \A i \in 1..n : PlaceIn(o, o[i]) = i
  BY <1>2, Ordered
<1>4. /\ Slots \in Nat /\ MaxQueued \in Nat
      /\ active \in Nat /\ active <= Slots /\ Len(waiters) \in Nat /\ Len(waiters) <= MaxQueued
      /\ waiters \in Seq(Deliveries) /\ stage \in [Deliveries -> {"new"} \cup Live \cup Ended]
      /\ closed \in BOOLEAN
  BY WebhookAssumption DEF TypeOK, WebhookAssumption
<1>5. Room \in Nat /\ Space \in Nat /\ Room = Slots - active /\ Space = MaxQueued - Len(waiters)
  BY <1>4 DEF Room, Space
<1>6. /\ k \in 0..n /\ p \in Nat /\ active + k <= Slots /\ Len(waiters) + p <= MaxQueued
      /\ p > 0 => ~closed /\ k = Room /\ Room + p <= n
      /\ closed => k = 0 /\ p = 0
      /\ waiters # <<>> => k = 0
      /\ ~closed => \A x \in 1..n : /\ x <= Room <=> x <= k
                                    /\ Room < x /\ x <= Room + Space <=> Room < x /\ x <= Room + p
  <2>1. CASE closed
    BY <2>1, <1>3, <1>4, <1>5 DEF Started, Parked
  <2>2. CASE ~closed
    <3>1. waiters # <<>> => Room = 0
      BY <1>5, <1>4 DEF Limiter
    <3>2. k = (IF n <= Room THEN n ELSE Room) /\ p = (IF n - k <= Space THEN n - k ELSE Space)
      BY <2>2 DEF Started, Parked, Smaller
    <3> HIDE DEF k, p, n
    <3> QED
      BY <2>2, <3>1, <3>2, <1>3, <1>4, <1>5
  <2> QED
    BY <2>1, <2>2
<1>7. /\ \A c \in Deliveries \ M : stage'[c] = stage[c]
      /\ \A c \in M : stage'[c] = Admit(PlaceIn(o, c))
  BY <1>1 DEF Matching
<1>8. ASSUME NEW c \in M
      PROVE  /\ stage'[c] \in {"late", "pre", "parked", "shed"}
             /\ closed => stage'[c] = "late"
             /\ stage'[c] = "pre" <=> PlaceIn(o, c) <= k
             /\ stage'[c] = "parked" <=> \E i \in 1..p : PlaceIn(o, c) = Room + i
  <2> DEFINE x == PlaceIn(o, c)
  <2>1. x \in 1..n /\ stage'[c] = Admit(x)
    BY <1>3, <1>7
  <2>2. Room < x /\ x <= Room + p <=> \E i \in 1..p : x = Room + i
    <3>1. ASSUME Room < x, x <= Room + p PROVE x - Room \in 1..p /\ x = Room + (x - Room)
      BY <3>1, <2>1, <1>5, <1>6
    <3>2. ASSUME NEW i \in 1..p, x = Room + i PROVE Room < x /\ x <= Room + p
      BY <3>2, <1>5, <1>6
    <3> QED
      BY <3>1, <3>2
  <2> HIDE DEF x, n, k, p
  <2>3. CASE closed
    <3>1. Admit(x) = "late"
      BY <2>3 DEF Admit
    <3>2. k = 0 /\ p = 0
      BY <2>3, <1>6
    <3>3. ~(x <= k) /\ ~(Room < x /\ x <= Room + p)
      BY <3>2, <2>1, <1>3, <1>5
    <3> QED
      BY <3>1, <3>3, <2>1, <2>2 DEF x
  <2>4. CASE ~closed
    <3>1. (x <= Room <=> x <= k) /\ (Room < x /\ x <= Room + Space <=> Room < x /\ x <= Room + p)
      BY <2>4, <2>1, <1>6
    <3>2. Admit(x) = IF x <= Room THEN "pre" ELSE IF x <= Room + Space THEN "parked" ELSE "shed"
      BY <2>1, <2>4, <1>3, <1>5 DEF Admit
    <3>3. x \in Nat /\ Room \in Nat /\ Space \in Nat
      BY <2>1, <1>3, <1>5
    <3>4. CASE x <= Room
      BY <2>1, <2>2, <2>4, <3>1, <3>2, <3>3, <3>4 DEF x
    <3>5. CASE ~(x <= Room) /\ x <= Room + Space
      BY <2>1, <2>2, <2>4, <3>1, <3>2, <3>3, <3>5 DEF x
    <3>6. CASE ~(x <= Room) /\ ~(x <= Room + Space)
      BY <2>1, <2>2, <2>4, <3>1, <3>2, <3>3, <3>6 DEF x
    <3> QED
      BY <3>4, <3>5, <3>6
  <2> QED
    BY <2>3, <2>4 DEF x
<1>9. stage' \in [Deliveries -> {"new"} \cup Live \cup Ended]
  <2>1. {"late", "pre", "parked", "shed"} \subseteq {"new"} \cup Live \cup Ended
    BY DEF Live, Refused, Held
  <2>2. ASSUME NEW c \in Deliveries PROVE stage'[c] \in {"new"} \cup Live \cup Ended
    BY <2>1, <1>4, <1>7, <1>8
  <2>3. stage' = [d \in Deliveries |-> stage'[d]]
    BY <1>1
  <2> QED
    BY <2>2, <2>3
<1>10. /\ waiters' \in Seq(Deliveries) /\ Len(waiters') = Len(waiters) + p
       /\ \A i \in 1..Len(waiters) : waiters'[i] = waiters[i]
       /\ \A i \in 1..p : waiters'[Len(waiters) + i] = o[Room + i] /\ Room + i \in 1..n
  <2>1. ASSUME NEW i \in 1..p PROVE Room + i \in 1..n /\ o[Room + i] \in Deliveries
    BY <1>2, <1>3, <1>5, <1>6
  <2> DEFINE q == [i \in 1..p |-> o[Room + i]]
  <2>2. q \in Seq(Deliveries) /\ Len(q) = p /\ \A i \in 1..p : q[i] = o[Room + i]
    BY <2>1, <1>6
  <2> HIDE DEF q, p
  <2>3. waiters' = waiters \o q
    BY <1>1 DEF q, p
  <2>4. /\ waiters' \in Seq(Deliveries) /\ Len(waiters') = Len(waiters) + p
        /\ \A i \in 1..Len(waiters) : waiters'[i] = waiters[i]
    BY <2>2, <2>3, <1>4, Concatenation
  <2>5. ASSUME NEW i \in 1..p PROVE waiters'[Len(waiters) + i] = o[Room + i]
    BY <2>2, <2>3, <1>4, Concatenation
  <2> QED
    BY <2>1, <2>4, <2>5
<1>11. active' \in 0..Slots /\ Len(waiters') <= MaxQueued
  BY <1>1, <1>4, <1>6, <1>10
<1>12. active' = Cardinality(InFlight')
  <2> DEFINE T == {o[i] : i \in 1..k}
  <2>1. IsFiniteSet(T) /\ Cardinality(T) = k /\ k \in Nat
    <3>1. M \in SUBSET Deliveries /\ o \in Orders(M) /\ k \in 0..Cardinality(M) /\ k \in Nat
      BY <1>2, <1>3, <1>6
    <3> HIDE DEF M, k, n
    <3> QED
      BY <3>1, Counting
  <2>2. IsFiniteSet(InFlight) /\ Cardinality(InFlight) = active /\ active \in Nat
    BY <1>4, FinitePlaces DEF InFlight, Limiter
  <2>3. T \subseteq M
    BY <1>3, <1>6
  <2>4. T \cap InFlight = {}
    BY <2>3, <1>2 DEF InFlight, Held
  <2>5. InFlight' = T \cup InFlight
    <3>1. ASSUME NEW c \in M PROVE c \in T <=> stage'[c] \in Held
      <4>1. stage'[c] \in Held <=> PlaceIn(o, c) <= k
        BY <1>8 DEF Held
      <4>2. PlaceIn(o, c) <= k => c \in T
        BY <1>3, <1>6
      <4>3. c \in T => PlaceIn(o, c) <= k
        BY <1>3, <1>6
      <4> QED
        BY <4>1, <4>2, <4>3
    <3>2. ASSUME NEW c \in Deliveries PROVE stage'[c] \in Held <=> c \in T \cup InFlight
      <4>1. CASE c \in M
        BY <4>1, <3>1, <1>2 DEF InFlight, Held
      <4>2. CASE c \notin M
        BY <4>2, <2>3, <1>7 DEF InFlight
      <4> QED
        BY <4>1, <4>2
    <3>3. T \cup InFlight \subseteq Deliveries
      BY <2>3, <1>2 DEF InFlight
    <3> HIDE DEF T
    <3> QED
      BY <3>2, <3>3 DEF InFlight
  <2>6. Cardinality(T \cup InFlight) = k + active
    <3>1. Cardinality(T \cup InFlight) = Cardinality(T) + Cardinality(InFlight) - Cardinality(T \cap InFlight)
      BY <2>1, <2>2, FS_Union
    <3>2. Cardinality(T \cap InFlight) = 0
      BY <2>4, FS_EmptySet
    <3> QED
      BY <3>1, <3>2, <2>1, <2>2
  <2> QED
    BY <2>1, <2>2, <2>5, <2>6, <1>1
<1>13. {waiters'[i] : i \in 1..Len(waiters')} = Parkers'
  <2>1. ASSUME NEW i \in 1..Len(waiters') PROVE waiters'[i] \in Deliveries /\ stage'[waiters'[i]] = "parked"
    <3>1. CASE i <= Len(waiters)
      <4>1. waiters'[i] = waiters[i] /\ waiters[i] \in Parkers
        BY <3>1, <1>4, <1>10 DEF Limiter
      <4>2. waiters[i] \in Deliveries \ M /\ stage[waiters[i]] = "parked"
        BY <4>1, <1>2 DEF Parkers
      <4> QED
        BY <4>1, <4>2, <1>7
    <3>2. CASE i > Len(waiters)
      <4> DEFINE j == i - Len(waiters)
      <4>1. j \in 1..p /\ i = Len(waiters) + j
        BY <3>2, <1>4, <1>6, <1>10
      <4>2. waiters'[i] = o[Room + j] /\ Room + j \in 1..n
        BY <4>1, <1>4, <1>10
      <4>3. waiters'[i] \in M /\ PlaceIn(o, waiters'[i]) = Room + j
        BY <4>2, <1>3
      <4> QED
        BY <4>1, <4>3, <1>2, <1>8
    <3> QED
      BY <3>1, <3>2, <1>4, <1>10
  <2>2. ASSUME NEW c \in Deliveries, stage'[c] = "parked" PROVE \E i \in 1..Len(waiters') : waiters'[i] = c
    <3>1. CASE c \in M
      <4>1. PICK j \in 1..p : PlaceIn(o, c) = Room + j
        BY <2>2, <3>1, <1>8
      <4>2. waiters'[Len(waiters) + j] = c
        <5>1. waiters'[Len(waiters) + j] = o[Room + j]
          BY <1>10
        <5>2. o[PlaceIn(o, c)] = c
          BY <3>1, <1>3
        <5> QED
          BY <4>1, <5>1, <5>2
      <4>3. Len(waiters) + j \in 1..Len(waiters')
        BY <1>4, <1>6, <1>10
      <4> QED
        BY <4>2, <4>3
    <3>2. CASE c \notin M
      <4>1. c \in Parkers
        BY <2>2, <3>2, <1>7 DEF Parkers
      <4>2. PICK i \in 1..Len(waiters) : waiters[i] = c
        BY <4>1 DEF Limiter
      <4> QED
        BY <4>2, <1>4, <1>6, <1>10
    <3> QED
      BY <3>1, <3>2
  <2>3. Parkers' = {c \in Deliveries : stage'[c] = "parked"}
    BY DEF Parkers
  <2> QED
    BY <2>1, <2>2, <2>3
<1>14. \A i, j \in 1..Len(waiters') : waiters'[i] = waiters'[j] => i = j
  <2>1. ASSUME NEW i \in 1..Len(waiters), NEW j \in 1..p PROVE waiters'[i] # waiters'[Len(waiters) + j]
    <3>1. waiters'[i] \in Parkers
      BY <1>10 DEF Limiter
    <3>2. waiters'[Len(waiters) + j] \in M
      BY <1>3, <1>10
    <3> QED
      BY <3>1, <3>2, <1>2 DEF Parkers
  <2>2. ASSUME NEW i \in 1..p, NEW j \in 1..p, waiters'[Len(waiters) + i] = waiters'[Len(waiters) + j]
        PROVE  i = j
    <3>1. Room + i = Room + j
      <4>1. /\ waiters'[Len(waiters) + i] = o[Room + i] /\ Room + i \in 1..n
            /\ waiters'[Len(waiters) + j] = o[Room + j] /\ Room + j \in 1..n
        BY <1>10
      <4> QED
        BY <4>1, <2>2, <1>3
    <3> QED
      BY <3>1, <1>5, <1>6
  <2>3. ASSUME NEW i \in 1..Len(waiters') PROVE i \in 1..Len(waiters) \/ \E j \in 1..p : i = Len(waiters) + j
    <3>1. CASE i > Len(waiters)
      <4>1. i - Len(waiters) \in 1..p /\ i = Len(waiters) + (i - Len(waiters))
        BY <3>1, <1>4, <1>6, <1>10
      <4> QED
        BY <4>1
    <3> QED
      BY <3>1, <1>4, <1>10
  <2>4. \A i, j \in 1..Len(waiters) : waiters'[i] = waiters'[j] => i = j
    BY <1>10 DEF Limiter
  <2> HIDE DEF p
  <2> QED
    BY <2>1, <2>2, <2>3, <2>4
<1>15. waiters' # <<>> => active' = Slots
  <2>1. CASE waiters # <<>>
    BY <2>1, <1>1, <1>4, <1>6 DEF Limiter
  <2>2. CASE p > 0
    BY <2>2, <1>1, <1>4, <1>5, <1>6
  <2>3. CASE waiters = <<>> /\ ~(p > 0)
    BY <2>3, <1>4, <1>6, <1>10
  <2> QED
    BY <2>1, <2>2, <2>3
<1>16. closed' => waiters' = <<>>
  <2>1. ASSUME closed PROVE Len(waiters') = 0
    BY <2>1, <1>6, <1>10 DEF Limiter
  <2> QED
    BY <2>1, <1>2, <1>10
<1>17. Limiter'
  BY <1>2, <1>12, <1>13, <1>14, <1>15, <1>16 DEF Limiter
<1> QED
  BY <1>2, <1>7, <1>8, <1>9, <1>10, <1>11, <1>17

-----------------------------------------------------------------------------
(* What the steps of one delivery leave of it and of the others.           *)

Mine(d) == Budget(d) /\ Traced(d) /\ Counted(d)

Kept(c) ==
  /\ stage'[c] = stage[c] /\ attempt'[c] = attempt[c] /\ job'[c] = job[c]
  /\ rows'[c] = rows[c] /\ answers'[c] = answers[c] /\ dropped'[c] = dropped[c]
  /\ c \in doubled' <=> c \in doubled
  /\ c \in unrecorded' <=> c \in unrecorded
  /\ c \in logged' <=> c \in logged

LEMMA KeptIsMine ==
  ASSUME NEW c \in Deliveries, Mine(c), Kept(c), UNCHANGED <<service, queueOn>>
  PROVE  Mine(c)'
<1>1. Budget(c)'
  BY DEF Mine, Kept, Budget, Running
<1>2. Traced(c)'
  BY DEF Mine, Kept, Traced, Trace, Held, Refused, Live
<1>3. Counted(c)'
  BY DEF Mine, Kept, Counted, Early, Before, Refused
<1> QED
  BY <1>1, <1>2, <1>3 DEF Mine

LEMMA Others ==
  ASSUME Each, NEW d \in Deliveries, UNCHANGED <<service, queueOn>>,
         \A c \in Deliveries \ {d} : Kept(c), Mine(d)'
  PROVE  Each'
<1>1. ASSUME NEW c \in Deliveries PROVE Mine(c)'
  <2>1. CASE c = d
    BY <2>1
  <2>2. CASE c # d
    BY <2>2, KeptIsMine DEF Each, Mine
  <2> QED
    BY <2>1, <2>2
<1> QED
  BY <1>1 DEF Each, Mine

LEMMA Moving ==
  ASSUME TypeOK, NEW d \in Deliveries, NEW s \in {"new"} \cup Live \cup Ended, Move(d, s)
  PROVE  /\ stage' \in [Deliveries -> {"new"} \cup Live \cup Ended]
         /\ stage'[d] = s
         /\ \A c \in Deliveries \ {d} : stage'[c] = stage[c]
BY DEF TypeOK, Move

LEMMA Placing ==
  ASSUME TypeOK, NEW d \in Deliveries, NEW s \in JobPlaces, JobTo(d, s)
  PROVE  /\ job' \in [Deliveries -> [at: JobPlaces, made: 0..(RetryCount + 1), stalls: 0..2]]
         /\ job'[d].at = s /\ job'[d].made = job[d].made /\ job'[d].stalls = job[d].stalls
         /\ \A c \in Deliveries \ {d} : job'[c] = job[c]
BY DEF TypeOK, JobTo

LEMMA Inserting ==
  ASSUME TypeOK, NEW d \in Deliveries, Insert(d)
  PROVE  /\ rows' \in [Deliveries -> 0..Seen] /\ unrecorded' \subseteq Deliveries
         /\ rows'[d] > 0 \/ d \in unrecorded'
         /\ rows[d] = 0 => rows'[d] <= 1
         /\ rows[d] > 0 => rows'[d] > 0
         /\ \A c \in Deliveries \ {d} : rows'[c] = rows[c] /\ (c \in unrecorded' <=> c \in unrecorded)
BY DEF TypeOK, Insert, Bump, Seen

LEMMA Answering ==
  ASSUME TypeOK, NEW d \in Deliveries, answers' = [answers EXCEPT ![d] = Bump(@)]
  PROVE  /\ answers' \in [Deliveries -> 0..Seen] /\ answers'[d] > 0
         /\ answers[d] = 0 => answers'[d] = 1
         /\ \A c \in Deliveries \ {d} : answers'[c] = answers[c]
BY DEF TypeOK, Bump, Seen

LEMMA Numbers ==
  ASSUME TypeOK, NEW d \in Deliveries
  PROVE  /\ RetryCount \in Nat /\ attempt[d] \in Nat \ {0}
         /\ rows[d] \in Nat /\ answers[d] \in Nat
         /\ job[d] \in [at: JobPlaces, made: 0..(RetryCount + 1), stalls: 0..2]
         /\ stage[d] \in {"new"} \cup Live \cup Ended
BY WebhookAssumption DEF TypeOK, WebhookAssumption, Seen

-----------------------------------------------------------------------------
(* The steps of a dispatch. *)

LEMMA PreflightSteps ==
  ASSUME IInv, NEW d \in Deliveries, PreflightFails(d) \/ PreflightPasses(d) \/ PostRefused(d)
  PROVE  IInv'
<1>0. TypeOK /\ Limiter /\ Each /\ Mine(d)
  BY DEF IInv, Each, Mine
<1> USE <1>0
<1>1. PICK s \in {"record", "add", "post", "sleep"} :
        /\ Move(d, s)
        /\ s = "sleep" => attempt[d] < RetryCount
        /\ stage[d] \in {"pre", "post"} /\ (s \in {"add", "post"} => stage[d] = "pre")
        /\ UNCHANGED <<service, queueOn, limiter, attempt, job, rows, answers, history>>
  BY DEF PreflightFails, PreflightPasses, PostRefused, At
<1>2. /\ stage' \in [Deliveries -> {"new"} \cup Live \cup Ended] /\ stage'[d] = s
      /\ \A c \in Deliveries \ {d} : stage'[c] = stage[c]
  BY <1>1, Moving DEF Live, Held
<1>3. TypeOK'
  BY <1>1, <1>2 DEF TypeOK, limiter, history
<1>4. Limiter'
  <2>1. ASSUME NEW c \in Deliveries
        PROVE (stage'[c] \in Held <=> stage[c] \in Held) /\ (stage'[c] = "parked" <=> stage[c] = "parked")
    BY <1>1, <1>2 DEF Held
  <2> QED
    BY <2>1, <1>1, Steady
<1>5. Mine(d)'
  <2>1. Budget(d)'
    BY <1>1, <1>2 DEF Mine, Budget, Running
  <2>2. Traced(d)'
    BY <1>1, <1>2 DEF Mine, Traced, Trace, Held, history
  <2>3. Counted(d)'
    BY <1>1, <1>2, Numbers DEF Mine, Counted, Early, Before, Refused, history
  <2> QED
    BY <2>1, <2>2, <2>3 DEF Mine
<1>6. Each'
  BY <1>1, <1>2, <1>5, Others DEF Kept, history
<1> QED
  BY <1>3, <1>4, <1>6 DEF IInv

LEMMA AddSteps ==
  ASSUME IInv, NEW d \in Deliveries, AddLands(d) \/ AddRejected(d)
  PROVE  IInv'
<1>0. TypeOK /\ Limiter /\ Each /\ Mine(d)
  BY DEF IInv, Each, Mine
<1> USE <1>0
<1>1. /\ stage[d] = "add"
      /\ UNCHANGED <<service, queueOn, limiter, attempt, rows, answers, unrecorded, logged, dropped>>
      /\ \/ Move(d, "hook") /\ JobTo(d, "wait") /\ doubled' = doubled
         \/ Move(d, "post") /\ job' = job /\ doubled' = doubled
         \/ Move(d, "post") /\ JobTo(d, "wait") /\ doubled' = doubled \cup {d}
  BY DEF AddLands, AddRejected, At, history
<1>2. /\ stage' \in [Deliveries -> {"new"} \cup Live \cup Ended] /\ stage'[d] \in {"hook", "post"}
      /\ \A c \in Deliveries \ {d} : stage'[c] = stage[c]
  BY <1>1, Moving DEF Live, Held
<1>3. /\ job' \in [Deliveries -> [at: JobPlaces, made: 0..(RetryCount + 1), stalls: 0..2]]
      /\ \A c \in Deliveries \ {d} : job'[c] = job[c]
      /\ job'[d].made = job[d].made /\ job'[d].stalls = job[d].stalls
  BY <1>1, Placing DEF TypeOK, JobPlaces
<1>4. \/ stage'[d] = "hook" /\ job'[d].at = "wait" /\ doubled' = doubled
      \/ stage'[d] = "post" /\ job'[d].at = job[d].at /\ doubled' = doubled
      \/ stage'[d] = "post" /\ job'[d].at = "wait" /\ doubled' = doubled \cup {d}
  BY <1>1, Moving, Placing DEF Live, Held, JobPlaces
<1>5. TypeOK'
  BY <1>1, <1>2, <1>3 DEF TypeOK, limiter
<1>6. Limiter'
  <2>1. ASSUME NEW c \in Deliveries
        PROVE (stage'[c] \in Held <=> stage[c] \in Held) /\ (stage'[c] = "parked" <=> stage[c] = "parked")
    BY <1>1, <1>2 DEF Held
  <2> QED
    BY <2>1, <1>1, Steady
<1>7. Mine(d)'
  <2>1. job[d].at = "none" /\ job[d].stalls = 0 /\ rows[d] + answers[d] = 0 /\ d \notin doubled
    BY <1>1 DEF Mine, Counted, Early, Before
  <2>2. Budget(d)'
    BY <1>1, <1>3, <1>4, <2>1 DEF Mine, Budget, Running
  <2>3. Traced(d)'
    BY <1>1, <1>4, <2>1 DEF Mine, Traced, Trace, Held
  <2>4. Counted(d)'
    BY <1>1, <1>3, <1>4, <2>1, Numbers DEF Mine, Counted, Early, Before, Refused
  <2> QED
    BY <2>2, <2>3, <2>4 DEF Mine
<1>8. Each'
  <2>1. ASSUME NEW c \in Deliveries \ {d} PROVE Kept(c)
    BY <1>1, <1>2, <1>3 DEF Kept
  <2> QED
    BY <1>1, <1>7, <2>1, Others
<1> QED
  BY <1>5, <1>6, <1>8 DEF IInv

LEMMA PostAnsweredStep ==
  ASSUME IInv, NEW d \in Deliveries, PostAnswered(d)
  PROVE  IInv'
<1>0. TypeOK /\ Limiter /\ Each /\ Mine(d)
  BY DEF IInv, Each, Mine
<1> USE <1>0
<1>1. /\ stage[d] = "post" /\ Move(d, "hook") /\ answers' = [answers EXCEPT ![d] = Bump(@)]
      /\ UNCHANGED <<service, queueOn, limiter, attempt, job, rows, history>>
  BY DEF PostAnswered, At
<1>2. /\ stage' \in [Deliveries -> {"new"} \cup Live \cup Ended] /\ stage'[d] = "hook"
      /\ \A c \in Deliveries \ {d} : stage'[c] = stage[c]
  BY <1>1, Moving DEF Live, Held
<1>3. /\ answers' \in [Deliveries -> 0..Seen] /\ answers'[d] > 0
      /\ answers[d] = 0 => answers'[d] = 1
      /\ \A c \in Deliveries \ {d} : answers'[c] = answers[c]
  BY <1>1, Answering
<1>4. TypeOK'
  BY <1>1, <1>2, <1>3 DEF TypeOK, limiter, history
<1>5. Limiter'
  <2>1. ASSUME NEW c \in Deliveries
        PROVE (stage'[c] \in Held <=> stage[c] \in Held) /\ (stage'[c] = "parked" <=> stage[c] = "parked")
    BY <1>1, <1>2 DEF Held
  <2> QED
    BY <2>1, <1>1, Steady
<1>6. Mine(d)'
  <2>1. Budget(d)'
    BY <1>1, <1>2 DEF Mine, Budget, Running
  <2>2. Traced(d)'
    BY <1>1, <1>2, <1>3 DEF Mine, Traced, Trace, Held, history
  <2>3. d \notin doubled => job[d].at = "none" /\ rows[d] = 0 /\ answers[d] = 0
    BY <1>1, Numbers DEF Mine, Counted, Before, Early
  <2>4. Counted(d)'
    BY <1>1, <1>2, <1>3, <2>3, Numbers DEF Mine, Counted, Early, Before, Refused, history
  <2> QED
    BY <2>1, <2>2, <2>4 DEF Mine
<1>7. Each'
  <2>1. ASSUME NEW c \in Deliveries \ {d} PROVE Kept(c)
    BY <1>1, <1>2, <1>3 DEF Kept, history
  <2> QED
    BY <1>1, <1>6, <2>1, Others
<1> QED
  BY <1>4, <1>5, <1>7 DEF IInv

LEMMA PostAgainStep ==
  ASSUME IInv, NEW d \in Deliveries, PostAgain(d)
  PROVE  IInv'
<1>0. TypeOK /\ Limiter /\ Each /\ Mine(d)
  BY DEF IInv, Each, Mine
<1> USE <1>0
<1>1. /\ stage[d] = "sleep" /\ Move(d, "post") /\ attempt' = [attempt EXCEPT ![d] = @ + 1]
      /\ UNCHANGED <<service, queueOn, limiter, job, rows, answers, history>>
  BY DEF PostAgain, At
<1>2. /\ stage' \in [Deliveries -> {"new"} \cup Live \cup Ended] /\ stage'[d] = "post"
      /\ \A c \in Deliveries \ {d} : stage'[c] = stage[c]
  BY <1>1, Moving DEF Live, Held
<1>3. attempt' \in [Deliveries -> {1} \cup 1..RetryCount]
  <2>1. attempt[d] + 1 \in {1} \cup 1..RetryCount
    BY <1>1, Numbers DEF Mine, Budget
  <2> QED
    BY <1>1, <2>1 DEF TypeOK
<1>4. TypeOK'
  BY <1>1, <1>2, <1>3 DEF TypeOK, limiter, history
<1>5. Limiter'
  <2>1. ASSUME NEW c \in Deliveries
        PROVE (stage'[c] \in Held <=> stage[c] \in Held) /\ (stage'[c] = "parked" <=> stage[c] = "parked")
    BY <1>1, <1>2 DEF Held
  <2> QED
    BY <2>1, <1>1, Steady
<1>6. Mine(d)'
  <2>1. Budget(d)'
    BY <1>1, <1>2 DEF Mine, Budget, Running
  <2>2. Traced(d)'
    BY <1>1, <1>2 DEF Mine, Traced, Trace, Held, history
  <2>3. Counted(d)'
    BY <1>1, <1>2 DEF Mine, Counted, Early, Before, Refused, history
  <2> QED
    BY <2>1, <2>2, <2>3 DEF Mine
<1>7. Each'
  <2>1. ASSUME NEW c \in Deliveries \ {d} PROVE Kept(c)
    BY <1>1, <1>2 DEF Kept, history, TypeOK
  <2> QED
    BY <1>1, <1>6, <2>1, Others
<1> QED
  BY <1>4, <1>5, <1>7 DEF IInv

(* A record written in a slot, or outside of one. *)
LEMMA RecordSteps ==
  ASSUME IInv, NEW d \in Deliveries, Record(d) \/ RecordRefused(d)
  PROVE  IInv'
<1>0. TypeOK /\ Limiter /\ Each /\ Mine(d)
  BY DEF IInv, Each, Mine
<1> USE <1>0
<1>1. /\ \/ stage[d] = "record" /\ Move(d, "hook")
         \/ stage[d] \in Refused /\ Move(d, "over")
      /\ Insert(d)
      /\ UNCHANGED <<service, queueOn, limiter, attempt, job, answers, doubled, logged, dropped>>
  BY DEF Record, RecordRefused, At
<1>2. /\ stage' \in [Deliveries -> {"new"} \cup Live \cup Ended]
      /\ \/ stage[d] = "record" /\ stage'[d] = "hook"
         \/ stage[d] \in Refused /\ stage'[d] = "over"
      /\ \A c \in Deliveries \ {d} : stage'[c] = stage[c]
  BY <1>1, Moving DEF Live, Held, Ended
<1>3. /\ rows' \in [Deliveries -> 0..Seen] /\ unrecorded' \subseteq Deliveries
      /\ rows'[d] > 0 \/ d \in unrecorded'
      /\ rows[d] = 0 => rows'[d] <= 1
      /\ \A c \in Deliveries \ {d} : rows'[c] = rows[c] /\ (c \in unrecorded' <=> c \in unrecorded)
  BY <1>1, Inserting
<1>4. TypeOK'
  BY <1>1, <1>2, <1>3 DEF TypeOK, limiter
<1>5. Limiter'
  <2>1. ASSUME NEW c \in Deliveries
        PROVE (stage'[c] \in Held <=> stage[c] \in Held) /\ (stage'[c] = "parked" <=> stage[c] = "parked")
    BY <1>1, <1>2 DEF Held, Refused
  <2> QED
    BY <2>1, <1>1, Steady
<1>6. Mine(d)'
  <2>1. Budget(d)'
    BY <1>1, <1>2 DEF Mine, Budget, Running
  <2>2. Traced(d)'
    <3>1. Trace(d)'
      BY <1>3 DEF Trace
    <3> QED
      BY <1>1, <1>2, <3>1 DEF Mine, Traced, Held, Refused
  <2>3. d \notin doubled => job[d].at = "none" /\ rows[d] = 0 /\ answers[d] = 0
    BY <1>2, Numbers DEF Mine, Counted, Before, Early, Refused
  <2>4. rows'[d] \in Nat
    BY <1>3 DEF Seen
  <2>5. Counted(d)'
    BY <1>1, <1>2, <1>3, <2>3, <2>4 DEF Mine, Counted, Early, Before, Refused
  <2> QED
    BY <2>1, <2>2, <2>5 DEF Mine
<1>7. Each'
  <2>1. ASSUME NEW c \in Deliveries \ {d} PROVE Kept(c)
    BY <1>1, <1>2, <1>3 DEF Kept
  <2> QED
    BY <1>1, <1>6, <2>1, Others
<1> QED
  BY <1>4, <1>5, <1>7 DEF IInv

(* The end of run(): a delivery that waited may get the slot. *)
LEMMA LeaveSteps ==
  ASSUME IInv, NEW d \in Deliveries, PreflightCancels(d) \/ Finish(d)
  PROVE  IInv'
<1>0. TypeOK /\ Limiter /\ Each /\ Mine(d)
  BY DEF IInv, Each, Mine
<1> USE <1>0
<1>1. PICK end \in {"cancelled", "over"} :
        /\ Leave(d, end)
        /\ stage[d] \in {"pre", "hook"} /\ (end = "over" <=> stage[d] = "hook")
        /\ UNCHANGED <<service, queueOn, attempt, job, rows, answers, history>>
  BY DEF PreflightCancels, Finish, At
<1>2. /\ Limiter'
      /\ active' \in 0..Slots /\ waiters' \in Seq(Deliveries) /\ Len(waiters') <= MaxQueued
      /\ closed' = closed
      /\ stage' \in [Deliveries -> {"new"} \cup Live \cup Ended]
      /\ stage'[d] = end
      /\ \A c \in Deliveries \ {d} :
           \/ stage'[c] = stage[c]
           \/ ~closed /\ stage[c] = "parked" /\ stage'[c] = "pre"
  <2>1. end \in Ended /\ stage[d] \in Held
    BY <1>1 DEF Ended, Held
  <2> QED
    BY <2>1, <1>1, Leaving
<1>3. TypeOK'
  BY <1>1, <1>2 DEF TypeOK, history
<1>4. Mine(d)'
  <2>1. Budget(d)'
    BY <1>1, <1>2 DEF Mine, Budget, Running
  <2>2. Traced(d)'
    BY <1>1, <1>2 DEF Mine, Traced, Trace, Held, history
  <2>3. Counted(d)'
    BY <1>1, <1>2 DEF Mine, Counted, Early, Before, Refused, history
  <2> QED
    BY <2>1, <2>2, <2>3 DEF Mine
<1>5. ASSUME NEW c \in Deliveries PROVE Mine(c)'
  <2>0. Mine(c)
    BY DEF Each, Mine
  <2>1. CASE c = d
    BY <2>1, <1>4
  <2>2. CASE c # d /\ stage'[c] = stage[c]
    BY <2>0, <2>2, <1>1, KeptIsMine DEF Kept, history
  <2>3. CASE ~closed /\ stage[c] = "parked" /\ stage'[c] = "pre"
    <3>1. Budget(c)'
      BY <2>0, <2>3, <1>1 DEF Mine, Budget, Running
    <3>2. Traced(c)'
      BY <2>0, <2>3, <1>1 DEF Mine, Traced, Trace, Held, history, Limiter
    <3>3. Counted(c)'
      BY <2>0, <2>3, <1>1 DEF Mine, Counted, Early, Before, Refused, history
    <3> QED
      BY <3>1, <3>2, <3>3 DEF Mine
  <2> QED
    BY <2>1, <2>2, <2>3, <1>2
<1> QED
  BY <1>2, <1>3, <1>5 DEF IInv, Each, Mine

-----------------------------------------------------------------------------
(* The steps of a job leave the dispatches alone. *)

LEMMA JobStep ==
  ASSUME IInv, NEW d \in Deliveries,
         job' \in [Deliveries -> [at: JobPlaces, made: 0..(RetryCount + 1), stalls: 0..2]],
         \A c \in Deliveries \ {d} : job'[c] = job[c],
         UNCHANGED <<service, queueOn, limiter, stage, attempt, doubled, logged, dropped>>,
         rows' \in [Deliveries -> 0..Seen], answers' \in [Deliveries -> 0..Seen],
         unrecorded' \subseteq Deliveries,
         \A c \in Deliveries \ {d} : /\ rows'[c] = rows[c] /\ answers'[c] = answers[c]
                                     /\ c \in unrecorded' <=> c \in unrecorded,
         Mine(d)'
  PROVE  IInv'
<1>0. TypeOK /\ Limiter /\ Each
  BY DEF IInv
<1>2. TypeOK'
  BY <1>0 DEF TypeOK, limiter
<1>3. Limiter'
  BY <1>0, Steady
<1>4. ASSUME NEW c \in Deliveries \ {d} PROVE Kept(c)
  BY DEF Kept
<1>5. Each'
  BY <1>0, <1>4, Others
<1> QED
  BY <1>2, <1>3, <1>5 DEF IInv

(* A new place for the job, and more attempts or stalls. *)
LEMMA JobOnlySteps ==
  ASSUME IInv, NEW d \in Deliveries,
         \/ WorkerTakes(d) \/ JobBooked(d) \/ JobRefused(d) \/ JobFails(d)
         \/ Stalled(d) \/ DoomedFails(d)
  PROVE  IInv'
<1>0. TypeOK /\ Limiter /\ Each /\ Mine(d)
  BY DEF IInv, Each, Mine
<1> USE <1>0
<1>1. /\ RetryCount \in Nat
      /\ job[d] \in [at: JobPlaces, made: 0..(RetryCount + 1), stalls: 0..2]
      /\ job[d].at # "dead" => job[d].made = 0 \/ job[d].made < RetryCount
      /\ job[d].at \in {"none", "wait", "orphan"} \cup Running => job[d].stalls <= 1
  BY Numbers DEF Mine, Budget
<1>2. UNCHANGED <<service, queueOn, limiter, stage, attempt, rows, answers, history>>
  BY DEF WorkerTakes, JobBooked, JobRefused, JobFails, Stalled, DoomedFails
<1> DEFINE made == job[d].made
           stalls == job[d].stalls
           T == [Deliveries -> [at: JobPlaces, made: 0..(RetryCount + 1), stalls: 0..2]]
<1>3. /\ job' \in T /\ \A c \in Deliveries \ {d} : job'[c] = job[c]
      /\ \/ job[d].at = "wait" /\ job'[d].at = "posting" /\ job'[d].made = made /\ job'[d].stalls = stalls
         \/ job[d].at = "booking" /\ job'[d].at = "done" /\ job'[d].made = made /\ job'[d].stalls = stalls
         \/ job[d].at = "doomed" /\ job'[d].at = "reporting" /\ job'[d].made = made /\ job'[d].stalls = stalls
         \/ /\ job[d].at = "posting" /\ made + 1 < RetryCount
            /\ job'[d].at = "wait" /\ job'[d].made = made + 1 /\ job'[d].stalls = stalls
         \/ job[d].at = "posting" /\ job'[d].at = "recording" /\ job'[d].made = made /\ job'[d].stalls = stalls
         \/ job[d].at = "failing" /\ job'[d].at = "dead" /\ job'[d].made = made + 1 /\ job'[d].stalls = stalls
         \/ /\ job[d].at = "orphan" /\ job'[d].at = "wait" /\ stalls = 0
            /\ job'[d].made = made /\ job'[d].stalls = stalls + 1
         \/ job[d].at = "orphan" /\ job'[d].at = "doomed" /\ job'[d].made = made /\ job'[d].stalls = stalls + 1
  <2>1. job \in T
    BY DEF TypeOK
  <2>2. /\ "wait" \in JobPlaces /\ "posting" \in JobPlaces /\ "done" \in JobPlaces
        /\ "reporting" \in JobPlaces /\ "recording" \in JobPlaces /\ "dead" \in JobPlaces
        /\ "doomed" \in JobPlaces
    BY DEF JobPlaces, Running
  <2>3. CASE WorkerTakes(d)
    BY <2>2, <2>3, Placing DEF WorkerTakes, JobAt
  <2>4. CASE JobBooked(d)
    BY <2>2, <2>4, Placing DEF JobBooked, JobAt
  <2>5. CASE DoomedFails(d)
    BY <2>2, <2>5, Placing DEF DoomedFails, JobAt
  <2>6. CASE JobRefused(d) /\ made + 1 < RetryCount
    <3>1. job[d].at = "posting" /\ job' = [job EXCEPT ![d].at = "wait", ![d].made = @ + 1]
      BY <2>6 DEF JobRefused, JobAt
    <3> QED
      BY <1>1, <2>1, <2>2, <2>6, <3>1
  <2>7. CASE JobRefused(d) /\ ~(made + 1 < RetryCount)
    BY <2>2, <2>7, Placing DEF JobRefused, JobAt
  <2>8. CASE JobFails(d)
    <3>1. job[d].at = "failing" /\ job' = [job EXCEPT ![d].at = "dead", ![d].made = @ + 1]
      BY <2>8 DEF JobFails, JobAt
    <3> QED
      BY <1>1, <2>1, <2>2, <3>1
  <2>9. CASE Stalled(d)
    <3>1. /\ job[d].at = "orphan"
          /\ job' = [job EXCEPT ![d].at = IF stalls = 0 THEN "wait" ELSE "doomed", ![d].stalls = @ + 1]
      BY <2>9 DEF Stalled, JobAt
    <3> QED
      BY <1>1, <2>1, <2>2, <3>1
  <2> QED
    BY <2>3, <2>4, <2>5, <2>6, <2>7, <2>8, <2>9
<1>4. made \in Nat /\ stalls \in Nat
  BY <1>1
<1>5. Mine(d)'
  <2>1. Budget(d)'
    BY <1>1, <1>2, <1>3, <1>4 DEF Mine, Budget, Running, JobPlaces
  <2>2. Traced(d)'
    BY <1>1, <1>2, <1>3, <1>4 DEF Mine, Traced, Trace, Held, history, Running, JobPlaces
  <2>3. Counted(d)'
    BY <1>1, <1>2, <1>3, <1>4 DEF Mine, Counted, Early, Before, Refused, history, Running, JobPlaces
  <2> QED
    BY <2>1, <2>2, <2>3 DEF Mine
<1> QED
  BY <1>2, <1>3, <1>5, JobStep DEF history, TypeOK

LEMMA JobAnsweredStep ==
  ASSUME IInv, NEW d \in Deliveries, JobAnswered(d)
  PROVE  IInv'
<1>0. TypeOK /\ Limiter /\ Each /\ Mine(d)
  BY DEF IInv, Each, Mine
<1> USE <1>0
<1>1. /\ job[d].at = "posting" /\ JobTo(d, "booking")
      /\ answers' = [answers EXCEPT ![d] = Bump(@)]
      /\ UNCHANGED <<service, queueOn, limiter, stage, attempt, rows, history>>
  BY DEF JobAnswered, JobAt
<1>3. /\ answers' \in [Deliveries -> 0..Seen] /\ answers'[d] > 0
      /\ answers[d] = 0 => answers'[d] = 1
      /\ \A c \in Deliveries \ {d} : answers'[c] = answers[c]
  BY <1>1, Answering
<1>4. /\ job' \in [Deliveries -> [at: JobPlaces, made: 0..(RetryCount + 1), stalls: 0..2]]
      /\ job'[d].at = "booking" /\ job'[d].made = job[d].made /\ job'[d].stalls = job[d].stalls
      /\ \A c \in Deliveries \ {d} : job'[c] = job[c]
  BY <1>1, Placing DEF JobPlaces, Running
<1>5. Mine(d)'
  <2>1. Budget(d)'
    BY <1>1, <1>4 DEF Mine, Budget, Running
  <2>2. Traced(d)'
    BY <1>1, <1>3, <1>4 DEF Mine, Traced, Trace, Held, history
  <2>3. d \notin doubled /\ job[d].stalls = 0 => rows[d] = 0 /\ answers[d] = 0
    BY <1>1, Numbers DEF Mine, Counted
  <2>4. Counted(d)'
    BY <1>1, <1>3, <1>4, <2>3, Numbers DEF Mine, Counted, Early, Before, Refused, history
  <2> QED
    BY <2>1, <2>2, <2>4 DEF Mine
<1> QED
  BY <1>1, <1>3, <1>4, <1>5, JobStep DEF history, TypeOK

(* The processor records its final attempt, onWorkerFailed a job that ran out of stalls. *)
LEMMA JobRecordSteps ==
  ASSUME IInv, NEW d \in Deliveries, JobRecord(d) \/ OnWorkerFailed(d)
  PROVE  IInv'
<1>0. TypeOK /\ Limiter /\ Each /\ Mine(d)
  BY DEF IInv, Each, Mine
<1> USE <1>0
<1>1. PICK s \in {"failing", "dead"} :
        /\ JobTo(d, s) /\ Insert(d)
        /\ s = "failing" => job[d].at = "recording"
        /\ s = "dead" => job[d].at = "reporting"
        /\ UNCHANGED <<service, queueOn, limiter, stage, attempt, answers, doubled, logged, dropped>>
  BY DEF JobRecord, OnWorkerFailed, JobAt
<1>3. /\ rows' \in [Deliveries -> 0..Seen] /\ unrecorded' \subseteq Deliveries
      /\ rows'[d] > 0 \/ d \in unrecorded'
      /\ rows[d] = 0 => rows'[d] <= 1
      /\ \A c \in Deliveries \ {d} : rows'[c] = rows[c] /\ (c \in unrecorded' <=> c \in unrecorded)
  BY <1>1, Inserting
<1>4. /\ job' \in [Deliveries -> [at: JobPlaces, made: 0..(RetryCount + 1), stalls: 0..2]]
      /\ job'[d].at = s /\ job'[d].made = job[d].made /\ job'[d].stalls = job[d].stalls
      /\ \A c \in Deliveries \ {d} : job'[c] = job[c]
  <2>1. s \in JobPlaces
    BY DEF JobPlaces, Running
  <2> QED
    BY <1>1, <2>1, Placing
<1>5. Mine(d)'
  <2>1. Budget(d)'
    BY <1>1, <1>4 DEF Mine, Budget, Running
  <2>2. Trace(d)'
    BY <1>3 DEF Trace
  <2>3. Traced(d)'
    BY <1>1, <1>4, <2>2 DEF Mine, Traced, Held
  <2>4. /\ d \notin doubled /\ job[d].stalls = 0 => rows[d] = 0 /\ answers[d] = 0
        /\ rows'[d] \in Nat
    BY <1>1, <1>3, Numbers DEF Mine, Counted, Seen
  <2>5. Counted(d)'
    BY <1>1, <1>3, <1>4, <2>4 DEF Mine, Counted, Early, Before, Refused
  <2> QED
    BY <2>1, <2>3, <2>5 DEF Mine
<1> QED
  BY <1>1, <1>3, <1>4, <1>5, JobStep DEF TypeOK

-----------------------------------------------------------------------------
(* The steps of a call of dispatch, which take all its deliveries along.   *)

LEMMA ReadSteps ==
  ASSUME IInv, NEW e \in Events, Dispatch(e) \/ LookupFails(e)
  PROVE  IInv'
<1>0. TypeOK /\ Limiter /\ Each
  BY DEF IInv
<1>1. PICK s \in {"lookup", "missed"} :
        stage' = [d \in Deliveries |-> IF EventOf[d] = e THEN s ELSE stage[d]]
  BY DEF Dispatch, LookupFails
<1>2. /\ UNCHANGED <<service, queueOn, limiter, attempt, job, rows, answers, history>>
      /\ \A d \in Deliveries : EventOf[d] = e => stage[d] \in {"new", "lookup"}
  BY DEF Dispatch, LookupFails, Matching
<1>3. ASSUME NEW c \in Deliveries
      PROVE  \/ stage'[c] = stage[c]
             \/ stage[c] \in {"new", "lookup"} /\ stage'[c] \in {"lookup", "missed"}
  BY <1>1, <1>2
<1>4. stage' \in [Deliveries -> {"new"} \cup Live \cup Ended]
  BY <1>0, <1>1 DEF TypeOK, Live, Ended
<1>5. TypeOK'
  BY <1>0, <1>2, <1>4 DEF TypeOK, limiter, history
<1>6. Limiter'
  <2>1. ASSUME NEW c \in Deliveries
        PROVE (stage'[c] \in Held <=> stage[c] \in Held) /\ (stage'[c] = "parked" <=> stage[c] = "parked")
    BY <1>3 DEF Held
  <2> QED
    BY <2>1, <1>0, <1>2, Steady
<1>7. ASSUME NEW c \in Deliveries PROVE Mine(c)'
  <2>0. Mine(c)
    BY <1>0 DEF Each, Mine
  <2>1. CASE stage'[c] = stage[c]
    BY <2>0, <2>1, <1>2, KeptIsMine DEF Kept, history
  <2>2. CASE stage[c] \in {"new", "lookup"} /\ stage'[c] \in {"lookup", "missed"}
    <3>1. Budget(c)'
      BY <2>0, <2>2, <1>2 DEF Mine, Budget, Running
    <3>2. Traced(c)'
      BY <2>0, <2>2, <1>2 DEF Mine, Traced, Trace, Held, history
    <3>3. Counted(c)'
      BY <2>0, <2>2, <1>2 DEF Mine, Counted, Early, Before, Refused, history
    <3> QED
      BY <3>1, <3>2, <3>3 DEF Mine
  <2> QED
    BY <2>1, <2>2, <1>3
<1> QED
  BY <1>5, <1>6, <1>7 DEF IInv, Each, Mine

LEMMA FanOutStep ==
  ASSUME IInv, NEW e \in Events, FanOut(e)
  PROVE  IInv'
<1>0. TypeOK /\ Limiter /\ Each
  BY DEF IInv
<1>1. /\ Limiter'
      /\ active' \in 0..Slots /\ waiters' \in Seq(Deliveries) /\ Len(waiters') <= MaxQueued
      /\ stage' \in [Deliveries -> {"new"} \cup Live \cup Ended]
      /\ \A c \in Deliveries \ Matching(e) : stage'[c] = stage[c]
      /\ \A c \in Matching(e) :
           /\ stage[c] = "lookup" /\ stage'[c] \in {"late", "pre", "parked", "shed"}
           /\ closed => stage'[c] = "late"
  BY <1>0, FanningOut
<1>2. UNCHANGED <<service, queueOn, closed, attempt, job, rows, answers, history>>
  BY DEF FanOut
<1>3. TypeOK'
  BY <1>0, <1>1, <1>2 DEF TypeOK, history
<1>4. ASSUME NEW c \in Deliveries PROVE Mine(c)'
  <2>0. Mine(c)
    BY <1>0 DEF Each, Mine
  <2>1. CASE c \notin Matching(e)
    BY <2>0, <2>1, <1>1, <1>2, KeptIsMine DEF Kept, history
  <2>2. CASE c \in Matching(e)
    <3>1. Budget(c)'
      BY <2>0, <2>2, <1>1, <1>2 DEF Mine, Budget, Running
    <3>2. Traced(c)'
      BY <2>0, <2>2, <1>0, <1>1, <1>2 DEF Mine, Traced, Trace, Held, history, Limiter
    <3>3. Counted(c)'
      BY <2>0, <2>2, <1>1, <1>2 DEF Mine, Counted, Early, Before, Refused, history
    <3> QED
      BY <3>1, <3>2, <3>3 DEF Mine
  <2> QED
    BY <2>1, <2>2
<1> QED
  BY <1>1, <1>3, <1>4 DEF IInv, Each, Mine

-----------------------------------------------------------------------------
(* The steps of the process. *)

LEMMA ShutdownStep ==
  ASSUME IInv, Shutdown
  PROVE  IInv'
<1>0. TypeOK /\ Limiter /\ Each
  BY DEF IInv
<1>1. /\ service' = "draining"
      /\ UNCHANGED <<queueOn, attempt, job, rows, answers, history>>
      /\ \/ queueOn /\ UNCHANGED <<closed, active, waiters, stage>>
         \/ /\ ~queueOn /\ closed' = TRUE /\ waiters' = <<>> /\ active' = active
            /\ stage' = [d \in Deliveries |-> IF stage[d] = "parked" THEN "late" ELSE stage[d]]
  BY DEF Shutdown, limiter
<1>2. ASSUME NEW c \in Deliveries
      PROVE  \/ stage'[c] = stage[c]
             \/ ~queueOn /\ stage[c] = "parked" /\ stage'[c] = "late"
  BY <1>1
<1>3. TypeOK'
  <2>1. stage' \in [Deliveries -> {"new"} \cup Live \cup Ended]
    BY <1>0, <1>1 DEF TypeOK, Live, Refused
  <2>2. waiters' \in Seq(Deliveries) /\ Len(waiters') <= MaxQueued
    <3>1. waiters' = waiters \/ waiters' = <<>>
      BY <1>1
    <3>2. MaxQueued \in Nat /\ waiters \in Seq(Deliveries) /\ Len(waiters) <= MaxQueued
      BY <1>0, WebhookAssumption DEF TypeOK, WebhookAssumption
    <3>3. <<>> \in Seq(Deliveries) /\ Len(<<>>) = 0
      OBVIOUS
    <3>4. CASE waiters' = waiters
      BY <3>2, <3>4
    <3>5. CASE waiters' = <<>>
      BY <3>2, <3>3, <3>5
    <3> QED
      BY <3>1, <3>4, <3>5
  <2> QED
    BY <1>0, <1>1, <2>1, <2>2 DEF TypeOK, history
<1>4. Limiter'
  <2>1. CASE queueOn /\ UNCHANGED <<closed, active, waiters, stage>>
    <3>1. InFlight' = InFlight /\ Parkers' = Parkers
      BY <2>1 DEF InFlight, Parkers
    <3> QED
      BY <2>1, <3>1, <1>0, <1>1 DEF Limiter
  <2>2. CASE /\ ~queueOn /\ closed' = TRUE /\ waiters' = <<>> /\ active' = active
             /\ stage' = [d \in Deliveries |-> IF stage[d] = "parked" THEN "late" ELSE stage[d]]
    <3>1. ASSUME NEW c \in Deliveries
          PROVE  (stage'[c] \in Held <=> stage[c] \in Held) /\ stage'[c] # "parked"
      BY <2>2 DEF Held
    <3>2. InFlight' = InFlight /\ Parkers' = {}
      BY <3>1 DEF InFlight, Parkers
    <3> QED
      BY <2>2, <3>2, <1>0 DEF Limiter
  <2> QED
    BY <1>1, <2>1, <2>2
<1>5. ASSUME NEW c \in Deliveries PROVE Mine(c)'
  <2>0. Mine(c)
    BY <1>0 DEF Each, Mine
  <2>1. Budget(c)'
    BY <2>0, <1>1, <1>2 DEF Mine, Budget, Running
  <2>2. Traced(c)'
    BY <2>0, <1>1, <1>2 DEF Mine, Traced, Trace, Held, history, Refused, Live
  <2>3. Counted(c)'
    BY <2>0, <1>1, <1>2 DEF Mine, Counted, Early, Before, Refused, history
  <2> QED
    BY <2>1, <2>2, <2>3 DEF Mine
<1> QED
  BY <1>3, <1>4, <1>5 DEF IInv, Each, Mine

LEMMA DrainEndsStep ==
  ASSUME IInv, DrainEnds
  PROVE  IInv'
<1>0. TypeOK /\ Limiter /\ Each
  BY DEF IInv
<1>1. /\ service = "draining" /\ service' = "drained" /\ logged' = logged \cup InFlight
      /\ UNCHANGED <<queueOn, closed, active, waiters, stage, attempt, job, rows, answers,
                     doubled, unrecorded, dropped>>
  BY DEF DrainEnds, limiter
<1>2. TypeOK'
  BY <1>0, <1>1 DEF TypeOK, InFlight
<1>3. Limiter'
  <2>1. InFlight' = InFlight /\ Parkers' = Parkers
    BY <1>1 DEF InFlight, Parkers
  <2> QED
    BY <2>1, <1>0, <1>1 DEF Limiter
<1>4. ASSUME NEW c \in Deliveries PROVE Mine(c)'
  <2>0. Mine(c)
    BY <1>0 DEF Each, Mine
  <2>1. Budget(c)'
    BY <2>0, <1>1 DEF Mine, Budget, Running
  <2>2. Traced(c)'
    BY <2>0, <1>1 DEF Mine, Traced, Trace, InFlight, Held, Refused, Live
  <2>3. Counted(c)'
    BY <2>0, <1>1 DEF Mine, Counted, Early, Before, Refused
  <2> QED
    BY <2>1, <2>2, <2>3 DEF Mine
<1> QED
  BY <1>2, <1>3, <1>4 DEF IInv, Each, Mine

(* What the end of a process costs a delivery. *)
LEMMA ProcessEndsSteps ==
  ASSUME IInv, Exit \/ Crash
  PROVE  IInv'
<1>0. TypeOK /\ Limiter /\ Each
  BY DEF IInv
<1>1. PICK killed \in BOOLEAN : ProcessEnds(killed) /\ (killed \/ service = "drained")
  BY DEF Exit, Crash
<1>2. /\ service' = "down" /\ closed' = FALSE /\ active' = 0 /\ waiters' = <<>>
      /\ stage' = [d \in Deliveries |-> IF stage[d] \in Live THEN "lost" ELSE stage[d]]
      /\ job' = [d \in Deliveries |->
           [job[d] EXCEPT !.at = IF @ \in Running THEN "orphan" ELSE IF @ = "reporting" THEN "dead" ELSE @]]
      /\ dropped' = [d \in Deliveries |->
           IF stage[d] \in Live /\ job[d].at = "none" THEN IF killed THEN "crash" ELSE stage[d]
           ELSE IF job[d].at = "reporting" THEN IF killed THEN "crash" ELSE "reporting" ELSE dropped[d]]
      /\ UNCHANGED <<queueOn, attempt, rows, answers, doubled, unrecorded, logged>>
  BY <1>1 DEF ProcessEnds
<1>3. ASSUME NEW c \in Deliveries
      PROVE  /\ stage'[c] = IF stage[c] \in Live THEN "lost" ELSE stage[c]
             /\ job'[c].at = IF job[c].at \in Running THEN "orphan"
                             ELSE IF job[c].at = "reporting" THEN "dead" ELSE job[c].at
             /\ job'[c].made = job[c].made /\ job'[c].stalls = job[c].stalls
             /\ job'[c] \in [at: JobPlaces, made: 0..(RetryCount + 1), stalls: 0..2]
             /\ dropped'[c] = IF stage[c] \in Live /\ job[c].at = "none"
                                THEN IF killed THEN "crash" ELSE stage[c]
                              ELSE IF job[c].at = "reporting" THEN IF killed THEN "crash" ELSE "reporting"
                              ELSE dropped[c]
  <2>1. job[c] \in [at: JobPlaces, made: 0..(RetryCount + 1), stalls: 0..2]
    BY <1>0, Numbers
  <2>2. "orphan" \in JobPlaces /\ "dead" \in JobPlaces
    BY DEF JobPlaces
  <2> QED
    BY <1>2, <2>1, <2>2
<1>4. stage' \in [Deliveries -> {"new"} \cup Live \cup Ended]
  <2>1. ASSUME NEW c \in Deliveries PROVE stage'[c] \in {"new"} \cup Live \cup Ended
    BY <1>0, <1>3, Numbers DEF Ended
  <2> QED
    BY <2>1, <1>2
<1>5. job' \in [Deliveries -> [at: JobPlaces, made: 0..(RetryCount + 1), stalls: 0..2]]
  BY <1>2, <1>3
<1>6. dropped' \in [Deliveries -> {"no", "crash", "reporting"} \cup Live]
  <2>1. ASSUME NEW c \in Deliveries PROVE dropped'[c] \in {"no", "crash", "reporting"} \cup Live
    BY <1>0, <1>3 DEF TypeOK
  <2> QED
    BY <2>1, <1>2
<1>7. TypeOK'
  <2>1. Slots \in Nat /\ MaxQueued \in Nat
    BY WebhookAssumption DEF WebhookAssumption
  <2>2. active' \in 0..Slots /\ waiters' \in Seq(Deliveries) /\ Len(waiters') <= MaxQueued
    BY <1>2, <2>1
  <2> QED
    BY <1>0, <1>2, <1>4, <1>5, <1>6, <2>2 DEF TypeOK
<1>8. Limiter'
  <2>1. ASSUME NEW c \in Deliveries PROVE stage'[c] \notin Held /\ stage'[c] # "parked"
    BY <1>3 DEF Held, Live
  <2>2. InFlight' = {} /\ Parkers' = {}
    BY <2>1 DEF InFlight, Parkers
  <2> QED
    BY <1>2, <2>2, FS_EmptySet DEF Limiter
<1>9. ASSUME NEW c \in Deliveries PROVE Mine(c)'
  <2>0. Mine(c)
    BY <1>0 DEF Each, Mine
  <2>1. Budget(c)'
    BY <2>0, <1>2, <1>3 DEF Mine, Budget, Running, Live, Refused, Held
  <2>2. Traced(c)'
    <3>1. ~killed /\ ~queueOn => stage[c] # "parked"
      <4>1. ~killed /\ ~queueOn => Parkers = {}
        BY <1>0, <1>1 DEF Limiter
      <4> QED
        BY <4>1 DEF Parkers
    <3>2. stage'[c] = "lost" =>
            \/ Trace(c)' \/ job'[c].at # "none" \/ c \in logged'
            \/ dropped'[c] \in {"crash", "lookup"} \cup Refused
            \/ queueOn' /\ dropped'[c] \in Live
      <4>1. CASE stage[c] \in Live
        BY <4>1, <3>1, <2>0, <1>0, <1>1, <1>2, <1>3 DEF Mine, Traced, Live, Refused, TypeOK
      <4>2. CASE stage[c] \notin Live
        BY <4>2, <2>0, <1>2, <1>3 DEF Mine, Traced, Trace, Running
      <4> QED
        BY <4>1, <4>2
    <3>3. stage'[c] \in {"hook", "over"} => Trace(c)' \/ job'[c].at # "none"
      BY <2>0, <1>2, <1>3 DEF Mine, Traced, Trace, Live, Held, Running
    <3>4. /\ job'[c].at = "failing" => Trace(c)'
          /\ job'[c].at \in {"booking", "done"} => answers'[c] > 0
          /\ job'[c].at = "dead" => Trace(c)' \/ dropped'[c] \in {"crash", "reporting"}
      BY <2>0, <1>2, <1>3 DEF Mine, Traced, Trace, Running
    <3> QED
      BY <3>2, <3>3, <3>4, <1>2 DEF Traced, Held, Refused, Live
  <2>3. Counted(c)'
    BY <2>0, <1>2, <1>3 DEF Mine, Counted, Early, Before, Refused, Live, Held, Running
  <2> QED
    BY <2>1, <2>2, <2>3 DEF Mine
<1> QED
  BY <1>7, <1>8, <1>9 DEF IInv, Each, Mine

LEMMA RestartStep ==
  ASSUME IInv, Restart
  PROVE  IInv'
<1>0. TypeOK /\ Limiter /\ Each
  BY DEF IInv
<1>1. /\ service' = "up"
      /\ UNCHANGED <<queueOn, closed, active, waiters, stage, attempt, job, rows, answers,
                     doubled, unrecorded, logged, dropped>>
  BY DEF Restart, limiter, history
<1>2. TypeOK'
  BY <1>0, <1>1 DEF TypeOK
<1>3. Limiter'
  <2>1. InFlight' = InFlight /\ Parkers' = Parkers
    BY <1>1 DEF InFlight, Parkers
  <2> QED
    BY <2>1, <1>0, <1>1 DEF Limiter
<1>4. Each'
  BY <1>0, <1>1 DEF Each, Budget, Traced, Counted, Trace, Held, Refused, Live, Running, Early, Before
<1> QED
  BY <1>2, <1>3, <1>4 DEF IInv

LEMMA StutterStep ==
  ASSUME IInv, UNCHANGED vars
  PROVE  IInv'
<1>0. TypeOK /\ Limiter /\ Each
  BY DEF IInv
<1>1. UNCHANGED <<service, queueOn, closed, active, waiters, stage, attempt, job, rows, answers,
                  doubled, unrecorded, logged, dropped>>
  BY DEF vars, limiter, history
<1>2. InFlight' = InFlight /\ Parkers' = Parkers
  BY <1>1 DEF InFlight, Parkers
<1> QED
  BY <1>0, <1>1, <1>2 DEF IInv, TypeOK, Limiter, Each, Budget, Traced, Counted, Trace, Held, Refused,
                          Live, Running, Early, Before, Ended, JobPlaces, Seen

LEMMA InvStep == IInv /\ [Next]_vars => IInv'
<1> SUFFICES ASSUME IInv, [Next]_vars PROVE IInv'
  OBVIOUS
<1>1. ASSUME NEW e \in Events, Read(e) PROVE IInv'
  BY <1>1, ReadSteps, FanOutStep DEF Read
<1>2. ASSUME NEW d \in Deliveries, Deliver(d) PROVE IInv'
  BY <1>2, PreflightSteps, AddSteps, PostAnsweredStep, PostAgainStep, RecordSteps, LeaveSteps DEF Deliver
<1>3. ASSUME NEW d \in Deliveries, Process(d) PROVE IInv'
  BY <1>3, JobOnlySteps, JobAnsweredStep, JobRecordSteps DEF Process
<1>4. CASE System
  BY <1>1, <1>2, <1>3, <1>4, RestartStep DEF System
<1>5. ASSUME NEW e \in Events, Dispatch(e) PROVE IInv'
  BY <1>5, ReadSteps
<1>6. CASE Shutdown \/ DrainEnds \/ Exit \/ Crash
  BY <1>6, ShutdownStep, DrainEndsStep, ProcessEndsSteps
<1>7. CASE UNCHANGED vars
  BY <1>7, StutterStep
<1> QED
  BY <1>4, <1>5, <1>6, <1>7 DEF Next

-----------------------------------------------------------------------------
\* The invariant the four theorems below rest on holds in every behaviour of
\* webhook.service.ts, the processor and the limiter.
THEOREM Invariance == Spec => []IInv
<1>1. Init => IInv
  BY InitInv
<1>2. IInv /\ [Next]_vars => IInv'
  BY InvStep
<1> QED
  BY <1>1, <1>2, PTL DEF Spec

\* Every variable keeps its type: no attempt, stall or queue of the limiter
\* goes past its limit.
THEOREM TypeCorrect == Spec => []TypeOK
<1>1. IInv => TypeOK
  BY DEF IInv
<1> QED
  BY <1>1, Invariance, PTL

\* ConcurrencyLimiter never loses or doubles a slot, and nobody waits while one
\* is free.
THEOREM LimiterCorrect == Spec => []SlotsAddUp
<1>1. IInv => SlotsAddUp
  <2> SUFFICES ASSUME IInv PROVE SlotsAddUp
    OBVIOUS
  <2>1. waiters \in Seq(Deliveries) /\ Limiter
    BY DEF IInv, TypeOK
  <2>2. DOMAIN waiters = 1..Len(waiters)
    BY <2>1
  <2> QED
    BY <2>1, <2>2 DEF Limiter, SlotsAddUp, Parkers
<1> QED
  BY <1>1, Invariance, PTL

\* A delivery that is over was answered or cancelled, left a row or a line of
\* the drain, or is one of the losses NothingVanishes names.
THEOREM DeliveriesTraced == Spec => []NothingVanishes
<1>1. IInv => NothingVanishes
  <2> SUFFICES ASSUME IInv, NEW d \in Deliveries, Settled(d)
               PROVE  \/ answers[d] > 0 \/ rows[d] > 0 \/ stage[d] = "cancelled" \/ d \in logged
                      \/ stage[d] = "missed" \/ d \in unrecorded
                      \/ dropped[d] \in {"crash", "lookup", "reporting"} \cup Refused
                      \/ queueOn /\ dropped[d] \in Live
    BY DEF NothingVanishes
  <2>1. Traced(d)
    BY DEF IInv, Each
  <2>2. stage[d] \in {"missed", "cancelled", "over", "lost"} /\ job[d].at \in {"none", "done", "dead"}
    BY DEF Settled, Ended
  <2>3. CASE stage[d] \in {"missed", "cancelled"}
    BY <2>3
  <2>4. CASE job[d].at # "none"
    BY <2>1, <2>2, <2>4 DEF Traced, Trace
  <2>5. CASE stage[d] \in {"over", "lost"} /\ job[d].at = "none"
    BY <2>1, <2>5 DEF Traced, Trace
  <2> QED
    BY <2>2, <2>3, <2>4, <2>5
<1> QED
  BY <1>1, Invariance, PTL

\* No delivery has both a recorded failure and an answer, or two of either,
\* outside the two at-least-once cases the code documents.
THEOREM RecordsCorrect == Spec => []RecordsAreTrue
<1>1. IInv => RecordsAreTrue
  BY DEF IInv, Each, Counted, RecordsAreTrue
<1> QED
  BY <1>1, Invariance, PTL
=============================================================================
