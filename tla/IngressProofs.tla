--------------------------- MODULE IngressProofs ----------------------------
(***************************************************************************)
(* What holds of webhook ingress for any number of deliveries and          *)
(* conversations, any budget of runs, replays, redrives and faults.        *)
(*                                                                         *)
(* Chains relates the chain of every key to the jobs on it; Kept says what *)
(* stands for a delivery at each await of each caller, which is what a     *)
(* crash finds there; Turns says which one of request, sweep, redrive and  *)
(* job has a delivery, and what the others find in its rows meanwhile.     *)
(***************************************************************************)
EXTENDS Ingress, TLAPS

EventType  == [st : States, attempts : Nat, payload : BOOLEAN, fresh : BOOLEAN]
LetterType == [d : Deliveries, redriven : BOOLEAN]
CallType   == [at : Points, d : Deliveries \cup {""}, tries : Nat, row : 0..MaxLetters]
JobType    == [st : JobStates, tries : 0..MaxTries - 1, stalls : 0..MaxStalls]

(* The redrive holds a row that is there. *)
RowHeld ==
  call["redrive"].at # "idle" =>
    /\ call["redrive"].row \in 1..Len(letters)
    /\ letters[call["redrive"].row].d = call["redrive"].d

Typed == TypeOK /\ RowHeld

-----------------------------------------------------------------------------
(* Types *)

LEMMA Constant ==
  /\ MaxTries \in Nat /\ MaxTries > 0 /\ MaxReplays \in Nat /\ MaxLetters \in Nat
  /\ MaxFaults \in Nat /\ MaxRedrives \in Nat
  /\ "sweep" \in Callers /\ "redrive" \in Callers /\ Deliveries \subseteq Callers
  /\ "sweep" \notin Deliveries /\ "redrive" \notin Deliveries
  /\ Deliveries \subseteq JobIds /\ 1..MaxLetters \subseteq JobIds
  /\ \A n \in 1..MaxLetters : n \notin Deliveries
  /\ \A d \in Deliveries : LaneOf[d] \in Lanes
BY IngressAssumption DEF IngressAssumption, Callers, JobIds

LEMMA Types ==
  ASSUME TypeOK
  PROVE  /\ event \in [Deliveries -> EventType]
         /\ letters \in Seq(LetterType) /\ Len(letters) \in 0..MaxLetters
         /\ \A n \in 1..Len(letters) : letters[n] \in LetterType /\ n \in 1..MaxLetters
         /\ call \in [Callers -> CallType]
         /\ \A a \in Callers : call[a].at # "idle" => call[a].d \in Deliveries
         /\ job \in [JobIds -> JobType]
         /\ lane \in [Lanes -> Seq(JobIds)]
         /\ DOMAIN letters = 1..Len(letters)
<1>1. /\ event \in [Deliveries -> EventType] /\ letters \in Seq(LetterType) /\ Len(letters) <= MaxLetters
      /\ call \in [Callers -> CallType]
      /\ \A a \in Callers : call[a].at # "idle" => call[a].d \in Deliveries
      /\ job \in [JobIds -> JobType] /\ lane \in [Lanes -> Seq(JobIds)]
  BY DEF TypeOK, EventType, LetterType, CallType, JobType
<1>2. Len(letters) \in Nat /\ DOMAIN letters = 1..Len(letters) /\ MaxLetters \in Nat
  BY <1>1, Constant
<1>3. \A n \in 1..Len(letters) : letters[n] \in LetterType
  BY <1>1, <1>2
<1>4. \A n \in 1..Len(letters) : n \in 1..MaxLetters
  BY <1>1, <1>2
<1> QED
  BY <1>1, <1>2, <1>3, <1>4

LEMMA JobIns ==
  \A st \in {"none", "waiting", "done", "failed"} : JobIn(st) \in JobType /\ JobIn(st).st = st
BY Constant DEF JobIn, JobType, JobStates, MaxStalls

(* About names a delivery, and the same for as long as the job is kept. *)
LEMMA AboutTyped ==
  ASSUME TypeOK, NEW id \in JobIds, job[id].st # "none"
  PROVE  /\ About(id) \in Deliveries /\ LaneOf[About(id)] \in Lanes
         /\ id \in Deliveries => About(id) = id
         /\ id \notin Deliveries => id \in 1..Len(letters) /\ About(id) = letters[id].d
<1>1. id \in Deliveries \cup 1..Len(letters)
  BY DEF TypeOK
<1>2. CASE id \in Deliveries
  BY <1>2, Constant DEF About
<1>3. CASE id \notin Deliveries
  <2>1. id \in 1..Len(letters) /\ letters[id] \in LetterType
    BY <1>1, <1>3, Types
  <2>2. letters[id].d \in Deliveries
    BY <2>1 DEF LetterType
  <2> QED
    BY <1>3, <2>1, <2>2, Constant DEF About
<1> QED
  BY <1>2, <1>3

LEMMA Going ==
  ASSUME TypeOK, NEW a \in Callers, NEW p \in Points \ {"idle"}, call[a].at # "idle", Goto(a, p)
  PROVE  /\ call' \in [Callers -> CallType]
         /\ call'[a].at = p /\ call'[a].d = call[a].d
         /\ call'[a].tries = call[a].tries /\ call'[a].row = call[a].row
         /\ \A b \in Callers \ {a} : call'[b] = call[b]
         /\ \A b \in Callers : call'[b].at # "idle" => call'[b].d \in Deliveries
<1>1. call \in [Callers -> CallType] /\ \A b \in Callers : call[b].at # "idle" => call[b].d \in Deliveries
  BY Types
<1>2. /\ call' \in [Callers -> CallType]
      /\ call'[a].at = p /\ call'[a].d = call[a].d
      /\ call'[a].tries = call[a].tries /\ call'[a].row = call[a].row
      /\ \A b \in Callers \ {a} : call'[b] = call[b]
  BY <1>1 DEF Goto, CallType
<1> QED
  BY <1>1, <1>2

LEMMA Stopping ==
  ASSUME TypeOK, NEW a \in Callers, Rest(a)
  PROVE  /\ call' \in [Callers -> CallType]
         /\ call'[a].at = "idle"
         /\ \A b \in Callers \ {a} : call'[b] = call[b]
         /\ \A b \in Callers : call'[b].at # "idle" => call'[b].d \in Deliveries
<1>1. call \in [Callers -> CallType] /\ \A b \in Callers : call[b].at # "idle" => call[b].d \in Deliveries
  BY Types
<1>2. Idle \in CallType /\ Idle.at = "idle"
  BY Constant DEF Idle, CallType, Points
<1>3. call' = [call EXCEPT ![a] = Idle]
  BY DEF Rest
<1> HIDE DEF Idle
<1> QED
  BY <1>1, <1>2, <1>3

(* A caller takes up a delivery. *)
LEMMA Beginning ==
  ASSUME TypeOK, NEW a \in Callers, NEW r \in CallType, r.d \in Deliveries, call' = [call EXCEPT ![a] = r]
  PROVE  /\ call' \in [Callers -> CallType] /\ call'[a] = r
         /\ \A b \in Callers \ {a} : call'[b] = call[b]
         /\ \A b \in Callers : call'[b].at # "idle" => call'[b].d \in Deliveries
<1>1. call \in [Callers -> CallType] /\ \A b \in Callers : call[b].at # "idle" => call[b].d \in Deliveries
  BY Types
<1> QED
  BY <1>1

LEMMA Appending ==
  ASSUME TypeOK, NEW d \in Deliveries, Len(letters) < MaxLetters, letters' = Append(letters, Letter(d))
  PROVE  /\ letters' \in Seq(LetterType) /\ Len(letters') = Len(letters) + 1 /\ Len(letters') <= MaxLetters
         /\ letters'[Len(letters) + 1] = Letter(d)
         /\ \A n \in 1..Len(letters) : letters'[n] = letters[n] /\ n \in 1..Len(letters')
<1>1. letters \in Seq(LetterType) /\ Len(letters) \in Nat /\ MaxLetters \in Nat
  BY Types, Constant
<1>2. Letter(d) \in LetterType
  BY DEF Letter, LetterType
<1> HIDE DEF Letter
<1> QED
  BY <1>1, <1>2

LEMMA TypeInit == Init => Typed
<1> SUFFICES ASSUME Init PROVE Typed
  OBVIOUS
<1>1. Idle \in CallType /\ Idle.at = "idle"
  BY Constant DEF Idle, CallType, Points
<1>2. call \in [Callers -> CallType] /\ \A a \in Callers : call[a].at = "idle"
  BY <1>1 DEF Init
<1>3. event \in [Deliveries -> EventType]
  BY DEF Init, EventType, States
<1>4. job \in [JobIds -> JobType] /\ \A id \in JobIds : job[id].st = "none"
  BY JobIns DEF Init
<1>5. letters \in Seq(LetterType) /\ Len(letters) = 0 /\ lane \in [Lanes -> Seq(JobIds)]
  BY DEF Init
<1>6. TypeOK
  <2>1. Len(letters) <= MaxLetters /\ picked \subseteq 1..Len(letters) /\ swept \subseteq [d : Deliveries, tries : Nat]
    BY <1>5, Constant DEF Init
  <2>2. faults \in 0..MaxFaults /\ redrives \in 0..MaxRedrives /\ handled \in [Deliveries -> 0..2]
    BY Constant DEF Init
  <2>3. /\ queueOn \in BOOLEAN /\ enabled \in BOOLEAN /\ raced \subseteq Deliveries /\ forfeited \subseteq Deliveries
    BY DEF Init
  <2> QED
    BY <1>2, <1>3, <1>4, <1>5, <2>1, <2>2, <2>3
    DEF TypeOK, EventType, LetterType, CallType, JobType
<1>7. RowHeld
  BY <1>2, Constant DEF RowHeld
<1> QED
  BY <1>6, <1>7 DEF Typed

LEMMA RowKept ==
  ASSUME RowHeld,
         call'["redrive"].at # "idle" =>
           /\ call["redrive"].at # "idle"
           /\ call'["redrive"].d = call["redrive"].d /\ call'["redrive"].row = call["redrive"].row,
         \A n \in 1..Len(letters) : n \in 1..Len(letters') /\ letters'[n].d = letters[n].d
  PROVE  RowHeld'
BY DEF RowHeld

LEMMA Counting ==
  ASSUME TypeOK, NEW f, Fault(f)
  PROVE  faults' \in 0..MaxFaults
<1>1. faults \in 0..MaxFaults /\ redrives \in 0..MaxRedrives /\ redrives \in Nat
  <2>1. faults \in 0..MaxFaults /\ redrives \in 0..MaxRedrives
    BY DEF TypeOK
  <2> QED
    BY <2>1, Constant
<1>2. f \in Faults /\ faults + redrives + CostOf[f] <= MaxFaults /\ faults' = faults + CostOf[f]
  BY DEF Fault
<1>3. CostOf[f] \in Nat \ {0}
  BY <1>2, IngressAssumption DEF IngressAssumption
<1> QED
  BY <1>1, <1>2, <1>3, Constant

LEMMA Handling ==
  ASSUME TypeOK, NEW d \in Deliveries, Once(d)
  PROVE  /\ handled' \in [Deliveries -> 0..2] /\ handled'[d] > 0
         /\ \A c \in Deliveries : handled[c] > 0 => handled'[c] > 0
<1>1. handled \in [Deliveries -> 0..2]
  BY DEF TypeOK
<1>2. handled' = [handled EXCEPT ![d] = IF handled[d] = 0 THEN 1 ELSE 2]
  BY DEF Once
<1>3. handled'[d] = IF handled[d] = 0 THEN 1 ELSE 2
  BY <1>1, <1>2
<1>4. \A c \in Deliveries \ {d} : handled'[c] = handled[c]
  BY <1>1, <1>2
<1>5. handled' \in [Deliveries -> 0..2]
  BY <1>1, <1>2
<1> QED
  BY <1>3, <1>4, <1>5

(* The job an add is about. *)
LEMMA JobOfTyped ==
  ASSUME Typed, NEW a \in Callers, call[a].at # "idle"
  PROVE  /\ JobOf(a) \in JobIds /\ call[a].d \in Deliveries
         /\ JobOf(a) \in Deliveries \cup 1..Len(letters) /\ About(JobOf(a)) = call[a].d
         /\ a # "redrive" => JobOf(a) = call[a].d
         /\ a = "redrive" => JobOf(a) = call[a].row /\ JobOf(a) \in 1..Len(letters)
<1>1. call[a].d \in Deliveries /\ \A n \in 1..Len(letters) : n \in 1..MaxLetters
  BY Types DEF Typed
<1>2. CASE a # "redrive"
  BY <1>1, <1>2, Constant DEF JobOf, About
<1>3. CASE a = "redrive"
  BY <1>1, <1>3, Constant DEF Typed, RowHeld, JobOf, About
<1> QED
  BY <1>2, <1>3

(* A new state of one job. *)
LEMMA JobTyped ==
  ASSUME TypeOK, NEW id \in JobIds, NEW r \in JobType, job' = [job EXCEPT ![id] = r],
         id \in Deliveries \cup 1..Len(letters)
  PROVE  /\ job' \in [JobIds -> JobType] /\ job'[id] = r
         /\ \A c \in JobIds \ {id} : job'[c] = job[c]
         /\ \A c \in JobIds : job'[c].st # "none" => c \in Deliveries \cup 1..Len(letters)
<1>1. job \in [JobIds -> JobType]
  BY Types
<1>2. \A c \in JobIds : job[c].st # "none" => c \in Deliveries \cup 1..Len(letters)
  BY DEF TypeOK
<1> QED
  BY <1>1, <1>2

(* Steps that write neither rows nor jobs. *)
LEMMA TypedCalls ==
  ASSUME Typed, UNCHANGED <<event, letters, job, lane>>,
         call' \in [Callers -> CallType],
         \A b \in Callers : call'[b].at # "idle" => call'[b].d \in Deliveries,
         RowHeld',
         queueOn' = queueOn, enabled' \in BOOLEAN,
         swept' \subseteq [d : Deliveries, tries : Nat], picked' \subseteq 1..Len(letters),
         faults' \in 0..MaxFaults, redrives' \in 0..MaxRedrives,
         raced' \subseteq Deliveries, forfeited' \subseteq Deliveries,
         handled' \in [Deliveries -> 0..2]
  PROVE  Typed'
<1>1. TypeOK'
  BY DEF Typed, TypeOK, CallType
<1> QED
  BY <1>1 DEF Typed

LEMMA TypedEnqueue ==
  ASSUME Typed, NEW a \in Callers,
         Add(a) \/ AddRejected(a) \/ AddInline(a) \/ InlineTakes(a) \/ InlineEnds(a)
  PROVE  Typed'
<1> USE DEF Typed
<1>1. call[a].at \in {"add", "inline", "took"} /\ call[a].at # "idle" /\ call[a].d \in Deliveries
  BY Types DEF Add, AddRejected, AddInline, InlineTakes, InlineEnds
<1>2. PICK p \in {"ok", "inline", "took", "failed"} : Goto(a, p)
  BY DEF Add, AddRejected, AddInline, InlineTakes, InlineEnds
<1>3. /\ call' \in [Callers -> CallType]
      /\ call'[a].at = p /\ call'[a].d = call[a].d /\ call'[a].row = call[a].row
      /\ \A b \in Callers \ {a} : call'[b] = call[b]
      /\ \A b \in Callers : call'[b].at # "idle" => call'[b].d \in Deliveries
  BY <1>1, <1>2, Going DEF Points
<1>4. /\ UNCHANGED <<queueOn, enabled, event, letters, swept, picked, lane, redrives, forfeited>>
      /\ faults' \in 0..MaxFaults /\ raced' \subseteq Deliveries /\ handled' \in [Deliveries -> 0..2]
  <2>1. UNCHANGED <<queueOn, enabled, event, letters, swept, picked, lane, redrives, forfeited>>
    BY
    DEF Add, AddRejected, AddInline, InlineTakes, InlineEnds, config, rows,
        batches, queue, budget, history
  <2>2. faults \in 0..MaxFaults /\ raced \subseteq Deliveries /\ handled \in [Deliveries -> 0..2]
    BY DEF TypeOK
  <2>3. faults' \in 0..MaxFaults
    BY <2>2, Counting
    DEF Add, AddRejected, AddInline, InlineTakes, InlineEnds, budget
  <2>4. raced' \subseteq Deliveries
    BY <2>2, <1>1 DEF Add, AddRejected, AddInline, InlineTakes, InlineEnds, history
  <2>5. handled' \in [Deliveries -> 0..2]
    BY <2>2, <1>1, Handling
    DEF Add, AddRejected, AddInline, InlineTakes, InlineEnds, history
  <2> QED
    BY <2>1, <2>3, <2>4, <2>5
<1>5. RowHeld'
  <2>1. CASE a = "redrive"
    BY <2>1, <1>1, <1>3, <1>4, RowKept
  <2>2. CASE a # "redrive"
    BY <2>2, <1>3, <1>4, Constant, RowKept
  <2> QED
    BY <2>1, <2>2
<1>6. job' \in [JobIds -> JobType] /\ \A c \in JobIds : job'[c].st # "none" => c \in Deliveries \cup 1..Len(letters)
  <2>1. job' = job \/ job' = [job EXCEPT ![JobOf(a)] = JobIn("waiting")]
    BY DEF Add, AddRejected, AddInline, InlineTakes, InlineEnds, queue
  <2>2. JobIn("waiting") \in JobType
    BY JobIns
  <2>3. CASE job' = job
    BY <2>3, Types DEF TypeOK
  <2>4. CASE job' = [job EXCEPT ![JobOf(a)] = JobIn("waiting")]
    BY <2>2, <2>4, <1>1, JobOfTyped, JobTyped
  <2> QED
    BY <2>1, <2>3, <2>4
<1>7. TypeOK'
  BY <1>3, <1>4, <1>6 DEF TypeOK, CallType, JobType
<1> QED
  BY <1>5, <1>7

LEMMA TypedRequest ==
  ASSUME Typed, NEW d \in Deliveries,
         Receive(d) \/ MarkDispatched(d) \/ MarkFailed(d) \/ SaveLetter(d) \/ MarkLost(d) \/ Age(d)
  PROVE  Typed'
<1> USE DEF Typed
<1>0. d \in Callers /\ d # "redrive" /\ d # "sweep"
  BY Constant
<1>1. /\ call' \in [Callers -> CallType]
      /\ \A b \in Callers \ {d} : call'[b] = call[b]
      /\ \A b \in Callers : call'[b].at # "idle" => call'[b].d \in Deliveries
  <2>1. CASE Receive(d)
    <3>1. Idle \in CallType
      BY Constant DEF Idle, CallType, Points
    <3>2. "add" \in Points /\ d \in Deliveries \cup {""}
      BY DEF Points
    <3>3. /\ [Idle EXCEPT !.at = "add", !.d = d] \in CallType
          /\ [Idle EXCEPT !.at = "add", !.d = d].d = d
      BY <3>1, <3>2 DEF CallType
    <3> QED
      BY <1>0, <2>1, <3>3, Beginning DEF Receive
  <2>2. CASE MarkDispatched(d) \/ SaveLetter(d)
    BY <1>0, <2>2, Stopping DEF MarkDispatched, SaveLetter
  <2>3. CASE MarkFailed(d)
    BY <1>0, <2>3, Going DEF MarkFailed, Points
  <2>4. CASE MarkLost(d)
    BY <1>0, <2>4, Going, Stopping DEF MarkLost, Points
  <2>5. CASE Age(d)
    BY <2>5, Types DEF Age
  <2> QED
    BY <2>1, <2>2, <2>3, <2>4, <2>5
<1>2. event' \in [Deliveries -> EventType]
  <2>0. event \in [Deliveries -> EventType]
    BY Types
  <2>1. CASE Receive(d)
    <3>1. [st |-> "pending", attempts |-> 0, payload |-> TRUE, fresh |-> TRUE] \in EventType
      BY DEF EventType, States
    <3> QED
      BY <2>0, <2>1, <3>1 DEF Receive
  <2>2. CASE MarkDispatched(d)
    BY <2>0, <2>2 DEF MarkDispatched, EventType, States
  <2>3. CASE MarkFailed(d)
    <3>1. /\ event[d].st \in States /\ event[d].attempts + 1 \in Nat
          /\ event[d].payload \in BOOLEAN
      BY <2>0 DEF EventType
    <3>3. event' = [event EXCEPT ![d].attempts = @ + 1, ![d].fresh = TRUE]
      BY <2>3 DEF MarkFailed
    <3> QED
      BY <2>0, <3>1, <3>3 DEF EventType
  <2>4. CASE Age(d)
    BY <2>0, <2>4 DEF Age, EventType
  <2>5. CASE SaveLetter(d) \/ MarkLost(d)
    BY <2>0, <2>5 DEF SaveLetter, MarkLost, rows
  <2> QED
    BY <2>1, <2>2, <2>3, <2>4, <2>5
<1>3. /\ letters' \in Seq(LetterType) /\ Len(letters') <= MaxLetters
      /\ \A n \in 1..Len(letters) : letters'[n] = letters[n] /\ n \in 1..Len(letters')
  <2>1. CASE SaveLetter(d)
    BY <2>1, Appending DEF SaveLetter
  <2>2. CASE ~SaveLetter(d)
    BY <2>2, Types
    DEF Receive, MarkDispatched, MarkFailed, MarkLost, Age, rows, TypeOK
  <2> QED
    BY <2>1, <2>2
<1>4. /\ UNCHANGED <<queueOn, enabled, swept, picked, job, lane, redrives, forfeited, handled>>
      /\ faults' \in 0..MaxFaults /\ raced' \subseteq Deliveries
  <2>1. UNCHANGED <<queueOn, enabled, swept, picked, job, lane, redrives, forfeited, handled>>
    BY
    DEF Receive, MarkDispatched, MarkFailed, SaveLetter, MarkLost, Age, config,
        rows, batches, queue, budget, history
  <2>2. faults \in 0..MaxFaults /\ raced \subseteq Deliveries
    BY DEF TypeOK
  <2>3. faults' \in 0..MaxFaults
    BY <2>2, Counting
    DEF Receive, MarkDispatched, MarkFailed, SaveLetter, MarkLost, Age, budget
  <2>4. raced' \subseteq Deliveries
    BY <2>2
    DEF Receive, MarkDispatched, MarkFailed, SaveLetter, MarkLost, Age, history
  <2> QED
    BY <2>1, <2>3, <2>4
<1>5. RowHeld'
  BY <1>0, <1>1, <1>3, Constant, RowKept
<1>6. /\ picked' \subseteq 1..Len(letters')
      /\ \A id \in JobIds : job'[id].st # "none" => id \in Deliveries \cup 1..Len(letters')
  BY <1>3, <1>4 DEF TypeOK
<1>7. TypeOK'
  BY <1>1, <1>2, <1>3, <1>4, <1>6 DEF TypeOK, EventType, LetterType, CallType
<1> QED
  BY <1>5, <1>7

(* Steps that leave the queue alone. *)
LEMMA TypedRows ==
  ASSUME Typed, UNCHANGED <<queueOn, enabled, job, lane>>,
         event' \in [Deliveries -> EventType],
         letters' \in Seq(LetterType), Len(letters') <= MaxLetters,
         \A n \in 1..Len(letters) : n \in 1..Len(letters'),
         call' \in [Callers -> CallType],
         \A b \in Callers : call'[b].at # "idle" => call'[b].d \in Deliveries,
         RowHeld',
         swept' \subseteq [d : Deliveries, tries : Nat], picked' \subseteq 1..Len(letters'),
         faults' \in 0..MaxFaults, redrives' \in 0..MaxRedrives,
         raced' \subseteq Deliveries, forfeited' \subseteq Deliveries,
         handled' \in [Deliveries -> 0..2]
  PROVE  Typed'
<1>1. \A id \in JobIds : job'[id].st # "none" => id \in Deliveries \cup 1..Len(letters')
  BY DEF Typed, TypeOK
<1>2. /\ queueOn' \in BOOLEAN /\ enabled' \in BOOLEAN /\ lane' \in [Lanes -> Seq(JobIds)]
      /\ job' \in [JobIds -> JobType]
  BY DEF Typed, TypeOK, JobType
<1>3. TypeOK'
  BY <1>1, <1>2 DEF TypeOK, EventType, LetterType, CallType, JobType
<1> QED
  BY <1>3 DEF Typed

SweepSteps == \/ SweepStart \/ SweepRow \/ SweepMark \/ SweepClose \/ SweepRetry
              \/ SweepCount \/ SweepLetter \/ SweepExhaust \/ SweepLost

LEMMA TypedSweep == ASSUME Typed, SweepSteps PROVE Typed'
<1> USE DEF Typed
<1>0. "sweep" \in Callers /\ "sweep" # "redrive" /\ "redrive" \in Callers
  BY Constant
<1>d. call["sweep"].at # "idle" => Deal \in Deliveries /\ call["sweep"].tries \in Nat
  BY <1>0, Types DEF Deal, CallType
<1>1. /\ call' \in [Callers -> CallType]
      /\ call'["redrive"] = call["redrive"]
      /\ \A b \in Callers : call'[b].at # "idle" => call'[b].d \in Deliveries
  <2>1. CASE SweepStart
    BY <2>1, Types DEF SweepStart
  <2>2. CASE SweepRow
    <3>1. PICK s \in swept :
             IF enabled
             THEN call' = [call EXCEPT !["sweep"] = [at |-> "add", d |-> s.d, tries |-> s.tries, row |-> 0]]
             ELSE UNCHANGED call
      BY <2>2 DEF SweepRow
    <3>2. s.d \in Deliveries /\ s.tries \in Nat
      BY DEF TypeOK
    <3>6. "add" \in Points /\ s.d \in Deliveries \cup {""}
      BY <3>2 DEF Points
    <3>7. 0 \in 0..MaxLetters
      BY Constant
    <3>3. [at |-> "add", d |-> s.d, tries |-> s.tries, row |-> 0] \in CallType
      BY <3>2, <3>6, <3>7 DEF CallType
    <3>4. CASE enabled
      <4>1. call' = [call EXCEPT !["sweep"] = [at |-> "add", d |-> s.d, tries |-> s.tries, row |-> 0]]
        BY <3>1, <3>4
      <4> QED
        BY <1>0, <3>2, <3>3, <4>1, Beginning
    <3>5. CASE ~enabled
      BY <3>1, <3>5, Types
    <3> QED
      BY <3>4, <3>5
  <2>3. CASE SweepMark \/ SweepCount \/ SweepLetter
    BY <1>0, <2>3, Going DEF SweepMark, SweepCount, SweepLetter, Points
  <2>4. CASE SweepClose \/ SweepRetry \/ SweepExhaust \/ SweepLost
    BY <1>0, <2>4, Stopping DEF SweepClose, SweepRetry, SweepExhaust, SweepLost
  <2> QED
    BY <2>1, <2>2, <2>3, <2>4 DEF SweepSteps
<1>2. event' \in [Deliveries -> EventType]
  <2>0. event \in [Deliveries -> EventType]
    BY Types
  <2>1. CASE SweepMark
    BY <2>0, <2>1 DEF SweepMark, EventType, States
  <2>2. CASE SweepRetry
    <3>1. call["sweep"].tries + 1 \in Nat /\ Deal \in Deliveries
      BY <2>2, <1>d DEF SweepRetry
    <3>2. event' = [event EXCEPT ![Deal] = [@ EXCEPT !.attempts = call["sweep"].tries + 1, !.fresh = TRUE]]
      BY <2>2 DEF SweepRetry
    <3> QED
      BY <2>0, <3>1, <3>2 DEF EventType
  <2>3. CASE SweepExhaust
    <3>1. call["sweep"].tries + 1 \in Nat
      BY <2>3, <1>d DEF SweepExhaust
    <3>2. [st |-> "failed", attempts |-> call["sweep"].tries + 1, payload |-> FALSE, fresh |-> TRUE] \in EventType
      BY <3>1 DEF EventType, States
    <3> QED
      BY <2>0, <2>3, <3>2 DEF SweepExhaust
  <2>4. CASE ~(SweepMark \/ SweepRetry \/ SweepExhaust)
    BY <2>0, <2>4
    DEF SweepSteps, SweepStart, SweepRow, SweepClose, SweepCount, SweepLetter,
        SweepLost, rows
  <2> QED
    BY <2>1, <2>2, <2>3, <2>4
<1>3. /\ letters' \in Seq(LetterType) /\ Len(letters') <= MaxLetters
      /\ \A n \in 1..Len(letters) : letters'[n].d = letters[n].d /\ n \in 1..Len(letters')
  <2>0. letters \in Seq(LetterType) /\ Len(letters) <= MaxLetters /\ Len(letters) \in Nat
    BY Types, Constant
  <2>1. CASE SweepLetter
    BY <1>d, <2>1, Appending DEF SweepLetter
  <2>2. CASE SweepClose
    <3>1. letters' = [n \in 1..Len(letters) |->
                   IF letters[n].d = Deal THEN [letters[n] EXCEPT !.redriven = TRUE] ELSE letters[n]]
      BY <2>0, <2>2, Types DEF SweepClose
    <3>2. \A n \in 1..Len(letters) : letters[n] \in LetterType
      BY Types
    <3>3. \A n \in 1..Len(letters) : letters'[n] \in LetterType /\ letters'[n].d = letters[n].d
      BY <3>1, <3>2 DEF LetterType
    <3>4. letters' \in Seq(LetterType) /\ Len(letters') = Len(letters)
      BY <2>0, <3>1, <3>3
    <3> QED
      BY <2>0, <3>3, <3>4
  <2>3. CASE ~(SweepLetter \/ SweepClose)
    BY <2>0, <2>3
    DEF SweepSteps, SweepStart, SweepRow, SweepMark, SweepRetry, SweepCount,
        SweepExhaust, SweepLost, rows
  <2> QED
    BY <2>1, <2>2, <2>3
<1>4. /\ UNCHANGED <<queueOn, enabled, picked, job, lane, redrives, handled>>
      /\ swept' \subseteq [d : Deliveries, tries : Nat]
      /\ faults' \in 0..MaxFaults /\ raced' \subseteq Deliveries /\ forfeited' \subseteq Deliveries
  <2>1. UNCHANGED <<queueOn, enabled, picked, job, lane, redrives, handled>>
    BY
    DEF SweepSteps, SweepStart, SweepRow, SweepMark, SweepClose, SweepRetry,
        SweepCount, SweepLetter, SweepExhaust,
           SweepLost, config, rows, batches, queue, budget, history
  <2>2. /\ faults \in 0..MaxFaults /\ raced \subseteq Deliveries /\ forfeited \subseteq Deliveries
        /\ swept \subseteq [d : Deliveries, tries : Nat] /\ event \in [Deliveries -> EventType]
    BY Types DEF TypeOK
  <2>3. faults' \in 0..MaxFaults
    BY <2>2, Counting
    DEF SweepSteps, SweepStart, SweepRow, SweepMark, SweepClose, SweepRetry,
        SweepCount, SweepLetter,
           SweepExhaust, SweepLost, budget
  <2>4. raced' \subseteq Deliveries
    <3>1. CASE SweepStart
      BY <3>1, <2>2 DEF SweepStart
    <3>2. CASE ~SweepStart
      BY <3>2, <2>2, <1>d
      DEF SweepSteps, SweepRow, SweepMark, SweepClose, SweepRetry, SweepCount,
          SweepLetter,
           SweepExhaust, SweepLost, history
    <3> QED
      BY <3>1, <3>2
  <2>5. forfeited' \subseteq Deliveries
    BY <2>2, <1>d
    DEF SweepSteps, SweepStart, SweepRow, SweepMark, SweepClose, SweepRetry,
        SweepCount, SweepLetter,
           SweepExhaust, SweepLost, history
  <2>6. swept' \subseteq [d : Deliveries, tries : Nat]
    <3>1. CASE SweepStart
      <4>1. PICK stale \in SUBSET Deliveries : swept' = {[d |-> d, tries |-> event[d].attempts] : d \in stale}
        BY <3>1 DEF SweepStart
      <4>2. \A d \in Deliveries : event[d].attempts \in Nat
        BY <2>2 DEF EventType
      <4> QED
        BY <4>1, <4>2
    <3>2. CASE SweepRow
      BY <3>2, <2>2 DEF SweepRow
    <3>3. CASE ~(SweepStart \/ SweepRow)
      BY <3>3, <2>2
      DEF SweepSteps, SweepMark, SweepClose, SweepRetry, SweepCount, SweepLetter,
          SweepExhaust,
           SweepLost, batches
    <3> QED
      BY <3>1, <3>2, <3>3
  <2> QED
    BY <2>1, <2>3, <2>4, <2>5, <2>6
<1>5. RowHeld'
  BY <1>1, <1>3, RowKept
<1>6. /\ picked' \subseteq 1..Len(letters') /\ redrives' \in 0..MaxRedrives /\ handled' \in [Deliveries -> 0..2]
  BY <1>3, <1>4 DEF TypeOK
<1> QED
  BY <1>1, <1>2, <1>3, <1>4, <1>5, <1>6, TypedRows

RedriveSteps == \/ RedriveStart \/ RedriveRow \/ RedriveRetire \/ RedriveClose
                \/ RedriveFailed \/ RedriveLost

LEMMA TypedRedrive == ASSUME Typed, RedriveSteps PROVE Typed'
<1> USE DEF Typed
<1>0. "redrive" \in Callers
  BY Constant
<1>d. call["redrive"].at # "idle" => call["redrive"].d \in Deliveries /\ call["redrive"].row \in 1..Len(letters)
  BY <1>0, Types DEF RowHeld
<1>t. /\ letters \in Seq(LetterType) /\ Len(letters) <= MaxLetters /\ Len(letters) \in Nat
      /\ \A n \in 1..Len(letters) : letters[n] \in LetterType /\ n \in 1..MaxLetters
      /\ event \in [Deliveries -> EventType] /\ DOMAIN letters = 1..Len(letters)
      /\ picked \subseteq 1..Len(letters)
  <2>1. picked \subseteq 1..Len(letters)
    BY DEF TypeOK
  <2> QED
    BY <2>1, Types, Constant
<1>3. /\ letters' \in Seq(LetterType) /\ Len(letters') = Len(letters)
      /\ \A n \in 1..Len(letters) : letters'[n].d = letters[n].d
  <2>1. CASE RedriveClose
    <3>1. letters' = [letters EXCEPT ![call["redrive"].row].redriven = TRUE]
      BY <2>1 DEF RedriveClose
    <3>2. /\ DOMAIN letters' = 1..Len(letters)
          /\ \A n \in 1..Len(letters) : letters'[n] \in LetterType /\ letters'[n].d = letters[n].d
      BY <1>t, <3>1 DEF LetterType
    <3>3. letters' = [n \in 1..Len(letters) |-> letters'[n]]
      BY <1>t, <3>1
    <3> QED
      BY <1>t, <3>2, <3>3
  <2>2. CASE ~RedriveClose
    BY <1>t, <2>2
    DEF RedriveSteps, RedriveStart, RedriveRow, RedriveRetire, RedriveFailed,
        RedriveLost, rows
  <2> QED
    BY <2>1, <2>2
<1>1. /\ call' \in [Callers -> CallType]
      /\ \A b \in Callers : call'[b].at # "idle" => call'[b].d \in Deliveries
      /\ RowHeld'
  <2>1. CASE RedriveStart
    BY <2>1, <1>3, Types, RowKept DEF RedriveStart
  <2>2. CASE RedriveRow
    <3>1. PICK n \in picked :
            call' = [call EXCEPT !["redrive"] = [at |-> "add", d |-> letters[n].d, tries |-> 0, row |-> n]]
      BY <2>2 DEF RedriveRow
    <3>2. letters[n].d \in Deliveries /\ n \in 1..Len(letters) /\ n \in 0..MaxLetters
      <4>1. n \in 1..Len(letters) /\ n \in 1..MaxLetters
        BY <1>t
      <4>2. letters[n].d \in Deliveries
        BY <1>t, <4>1 DEF LetterType
      <4> QED
        BY <4>1, <4>2, Constant
    <3>3. [at |-> "add", d |-> letters[n].d, tries |-> 0, row |-> n] \in CallType
      <4>1. "add" \in Points /\ letters[n].d \in Deliveries \cup {""}
        BY <3>2 DEF Points
      <4> QED
        BY <3>2, <4>1 DEF CallType
    <3>4. /\ call' \in [Callers -> CallType]
          /\ call'["redrive"] = [at |-> "add", d |-> letters[n].d, tries |-> 0, row |-> n]
          /\ \A b \in Callers : call'[b].at # "idle" => call'[b].d \in Deliveries
      BY <1>0, <3>1, <3>2, <3>3, Beginning
    <3>5. call'["redrive"].row = n /\ call'["redrive"].d = letters[n].d
      BY <3>4
    <3>6. RowHeld'
      BY <1>3, <3>2, <3>5 DEF RowHeld
    <3> QED
      BY <3>4, <3>6
  <2>3. CASE RedriveRetire
    <3>1. call["redrive"].at # "idle" /\ Goto("redrive", "close")
      BY <2>3 DEF RedriveRetire
    <3>2. /\ call' \in [Callers -> CallType]
          /\ call'["redrive"].d = call["redrive"].d /\ call'["redrive"].row = call["redrive"].row
          /\ \A b \in Callers : call'[b].at # "idle" => call'[b].d \in Deliveries
      BY <1>0, <3>1, Going DEF Points
    <3> QED
      BY <1>3, <3>1, <3>2, RowKept
  <2>4. CASE RedriveClose \/ RedriveFailed \/ RedriveLost
    <3>1. Rest("redrive")
      BY <2>4 DEF RedriveClose, RedriveFailed, RedriveLost
    <3>2. /\ call' \in [Callers -> CallType] /\ call'["redrive"].at = "idle"
          /\ \A b \in Callers : call'[b].at # "idle" => call'[b].d \in Deliveries
      BY <1>0, <3>1, Stopping
    <3> QED
      BY <3>2 DEF RowHeld
  <2> QED
    BY <2>1, <2>2, <2>3, <2>4 DEF RedriveSteps
<1>2. event' \in [Deliveries -> EventType]
  <2>1. CASE RedriveRetire
    BY <1>t, <2>1 DEF RedriveRetire, EventType, States
  <2>2. CASE ~RedriveRetire
    BY <1>t, <2>2
    DEF RedriveSteps, RedriveStart, RedriveRow, RedriveClose, RedriveFailed,
        RedriveLost, rows
  <2> QED
    BY <2>1, <2>2
<1>4. /\ UNCHANGED <<queueOn, enabled, swept, job, lane, forfeited, handled>>
      /\ picked' \subseteq 1..Len(letters') /\ faults' \in 0..MaxFaults /\ redrives' \in 0..MaxRedrives
      /\ raced' \subseteq Deliveries
  <2>1. UNCHANGED <<queueOn, enabled, swept, job, lane, forfeited, handled>>
    BY
    DEF RedriveSteps, RedriveStart, RedriveRow, RedriveRetire, RedriveClose,
        RedriveFailed, RedriveLost,
           config, rows, batches, queue, budget, history
  <2>2. faults \in 0..MaxFaults /\ redrives \in 0..MaxRedrives /\ raced \subseteq Deliveries
    BY DEF TypeOK
  <2>3. faults' \in 0..MaxFaults
    BY <2>2, Counting
    DEF RedriveSteps, RedriveStart, RedriveRow, RedriveRetire, RedriveClose,
        RedriveFailed,
           RedriveLost, budget
  <2>4. redrives' \in 0..MaxRedrives
    <3>1. CASE RedriveStart
      <4>1. redrives < MaxRedrives /\ redrives' = redrives + 1
        BY <3>1 DEF RedriveStart
      <4> QED
        BY <2>2, <4>1, Constant
    <3>2. CASE ~RedriveStart
      BY <2>2, <3>2
      DEF RedriveSteps, RedriveRow, RedriveRetire, RedriveClose, RedriveFailed,
          RedriveLost, budget
    <3> QED
      BY <3>1, <3>2
  <2>5. picked' \subseteq 1..Len(letters)
    BY <1>t
    DEF RedriveSteps, RedriveStart, RedriveRow, RedriveRetire, RedriveClose,
        RedriveFailed, RedriveLost, batches
  <2>6. raced' \subseteq Deliveries
    <3>1. CASE RedriveStart
      <4>1. \A n \in picked' : letters[n].d \in Deliveries
        BY <1>t, <2>5 DEF LetterType
      <4> QED
        BY <2>2, <3>1, <4>1 DEF RedriveStart
    <3>2. CASE ~RedriveStart
      BY <1>d, <2>2, <3>2
      DEF RedriveSteps, RedriveRow, RedriveRetire, RedriveClose, RedriveFailed,
          RedriveLost, history
    <3> QED
      BY <3>1, <3>2
  <2> QED
    BY <1>3, <2>1, <2>3, <2>4, <2>5, <2>6
<1>5. \A n \in 1..Len(letters) : n \in 1..Len(letters')
  BY <1>3
<1>6. /\ swept' \subseteq [d : Deliveries, tries : Nat] /\ handled' \in [Deliveries -> 0..2]
      /\ forfeited' \subseteq Deliveries /\ Len(letters') <= MaxLetters
  BY <1>3, <1>4, <1>t DEF TypeOK
<1> QED
  BY <1>1, <1>2, <1>3, <1>4, <1>5, <1>6, TypedRows

-----------------------------------------------------------------------------
(* KeyedAsyncLock *)

Chained == {"lane", "running", "took"}

(* The chain of a key holds its jobs, each once, and the dispatched one is
   the first of it. *)
ChainsOf(k) ==
  /\ \A i, j \in 1..Len(lane[k]) : lane[k][i] = lane[k][j] => i = j
  /\ \A i \in 1..Len(lane[k]) :
       lane[k][i] \in JobIds /\ job[lane[k][i]].st \in Chained /\ LaneOf[About(lane[k][i])] = k
  /\ \A id \in JobIds : job[id].st \in Chained /\ LaneOf[About(id)] = k =>
       \E i \in 1..Len(lane[k]) : lane[k][i] = id
  /\ \A id \in JobIds : job[id].st \in {"running", "took"} /\ LaneOf[About(id)] = k => lane[k][1] = id

Chains == \A k \in Lanes : ChainsOf(k)

(* What a job is about does not change. *)
LEMMA AboutKept ==
  ASSUME Typed, \A n \in 1..Len(letters) : letters'[n].d = letters[n].d, NEW id \in JobIds, job[id].st # "none"
  PROVE  About(id)' = About(id)
<1>1. id \in Deliveries \cup 1..Len(letters)
  BY DEF Typed, TypeOK
<1> QED
  BY <1>1 DEF About

LEMMA FirstOfChain ==
  ASSUME Typed, Chains, NEW id \in JobIds, job[id].st \in Chained
  PROVE  /\ LaneOf[About(id)] \in Lanes /\ lane[LaneOf[About(id)]] \in Seq(JobIds)
         /\ lane[LaneOf[About(id)]] # <<>> /\ Len(lane[LaneOf[About(id)]]) \in Nat \ {0}
<1> DEFINE k == LaneOf[About(id)]
<1>1. k \in Lanes
  BY AboutTyped DEF Typed, Chained
<1>2. lane[k] \in Seq(JobIds)
  BY <1>1, Types DEF Typed
<1>3. \E i \in 1..Len(lane[k]) : lane[k][i] = id
  BY <1>1 DEF Chains, ChainsOf
<1>4. Len(lane[k]) \in Nat \ {0}
  BY <1>2, <1>3
<1> QED
  BY <1>1, <1>2, <1>4

(* Steps that neither chain a job nor end one. *)
LEMMA ChainsStay ==
  ASSUME Typed, Chains, lane' = lane,
         \A n \in 1..Len(letters) : letters'[n].d = letters[n].d,
         \A id \in JobIds : /\ job'[id].st \in Chained => job[id].st \in Chained
                            /\ job[id].st \in Chained => job'[id].st \in Chained
                            /\ job'[id].st \in {"running", "took"} => job[id].st \in {"running", "took"}
  PROVE  Chains'
<1> SUFFICES ASSUME NEW k \in Lanes PROVE ChainsOf(k)'
  BY DEF Chains
<1>1. ChainsOf(k)
  BY DEF Chains
<1>2. \A id \in JobIds : job[id].st \in Chained => About(id)' = About(id)
  BY AboutKept DEF Chained
<1>3. /\ \A i, j \in 1..Len(lane'[k]) : lane'[k][i] = lane'[k][j] => i = j
      /\ \A i \in 1..Len(lane'[k]) :
           lane'[k][i] \in JobIds /\ job'[lane'[k][i]].st \in Chained /\ LaneOf[About(lane[k][i])'] = k
  BY <1>1, <1>2 DEF ChainsOf
<1>4. \A id \in JobIds : job'[id].st \in Chained /\ LaneOf[About(id)'] = k =>
        \E i \in 1..Len(lane'[k]) : lane'[k][i] = id
  BY <1>1, <1>2 DEF ChainsOf
<1>5. \A id \in JobIds : job'[id].st \in {"running", "took"} /\ LaneOf[About(id)'] = k => lane'[k][1] = id
  BY <1>1, <1>2 DEF ChainsOf, Chained
<1> QED
  BY <1>3, <1>4, <1>5 DEF ChainsOf, About

LEMMA ChainsTake ==
  ASSUME Typed, Chains, NEW id \in JobIds, Take(id)
  PROVE  Chains'
<1> SUFFICES ASSUME NEW k \in Lanes PROVE ChainsOf(k)'
  BY DEF Chains
<1>0. ChainsOf(k) /\ lane[k] \in Seq(JobIds) /\ Len(lane[k]) \in Nat
  BY Types DEF Chains, Typed
<1>1. /\ job[id].st = "waiting" /\ letters' = letters
      /\ job' = [job EXCEPT ![id].st = "lane"]
      /\ lane' = [lane EXCEPT ![LaneOf[About(id)]] = Append(@, id)]
  BY DEF Take, rows
<1>2. /\ job'[id].st = "lane" /\ \A c \in JobIds \ {id} : job'[c] = job[c]
  BY <1>1, Types DEF Typed, JobType
<1>3. \A c : About(c)' = About(c)
  BY <1>1 DEF About
<1>4. \A i \in 1..Len(lane[k]) : lane[k][i] # id
  BY <1>0, <1>1 DEF ChainsOf, Chained
<1>5. CASE LaneOf[About(id)] = k
  <2>1. lane'[k] = Append(lane[k], id)
    BY <1>1, <1>5, Types DEF Typed
  <2>2. /\ Len(lane'[k]) = Len(lane[k]) + 1 /\ lane'[k][Len(lane[k]) + 1] = id
        /\ \A i \in 1..Len(lane[k]) : lane'[k][i] = lane[k][i] /\ i \in 1..Len(lane'[k])
    BY <1>0, <2>1
  <2>3. \A i \in 1..Len(lane'[k]) : i \in 1..Len(lane[k]) \/ i = Len(lane[k]) + 1
    BY <1>0, <2>2
  <2>4. \A i, j \in 1..Len(lane'[k]) : lane'[k][i] = lane'[k][j] => i = j
    BY <1>0, <1>4, <2>2, <2>3 DEF ChainsOf
  <2>5. \A i \in 1..Len(lane'[k]) :
          lane'[k][i] \in JobIds /\ job'[lane'[k][i]].st \in Chained /\ LaneOf[About(lane'[k][i])] = k
    BY <1>0, <1>2, <1>4, <1>5, <2>2, <2>3 DEF ChainsOf, Chained
  <2>6. \A c \in JobIds : job'[c].st \in Chained /\ LaneOf[About(c)] = k =>
          \E i \in 1..Len(lane'[k]) : lane'[k][i] = c
    <3>1. Len(lane[k]) + 1 \in 1..Len(lane'[k])
      BY <1>0, <2>2
    <3>2. ASSUME NEW c \in JobIds \ {id}, job'[c].st \in Chained, LaneOf[About(c)] = k
          PROVE  \E i \in 1..Len(lane'[k]) : lane'[k][i] = c
      <4>1. PICK i \in 1..Len(lane[k]) : lane[k][i] = c
        BY <1>0, <1>2, <3>2 DEF ChainsOf
      <4> QED
        BY <2>2, <4>1
    <3> QED
      BY <2>2, <3>1, <3>2
  <2>7. \A c \in JobIds : job'[c].st \in {"running", "took"} /\ LaneOf[About(c)] = k => lane'[k][1] = c
    <3> SUFFICES ASSUME NEW c \in JobIds, job'[c].st \in {"running", "took"}, LaneOf[About(c)] = k
                 PROVE  lane'[k][1] = c
      OBVIOUS
    <3>1. c # id /\ job[c].st \in {"running", "took"}
      BY <1>2
    <3>2. lane[k][1] = c /\ 1 \in 1..Len(lane[k])
      <4>1. \E i \in 1..Len(lane[k]) : lane[k][i] = c
        BY <1>0, <3>1 DEF ChainsOf, Chained
      <4>2. 1 \in 1..Len(lane[k])
        BY <1>0, <4>1
      <4> QED
        BY <1>0, <3>1, <4>2 DEF ChainsOf
    <3> QED
      BY <2>2, <3>2
  <2> QED
    BY <1>3, <2>4, <2>5, <2>6, <2>7 DEF ChainsOf
<1>6. CASE LaneOf[About(id)] # k
  <2>1. lane'[k] = lane[k]
    BY <1>1, <1>6, Types DEF Typed
  <2>2. \A c \in JobIds : LaneOf[About(c)] = k => job'[c] = job[c]
    BY <1>2, <1>6
  <2>3. \A i \in 1..Len(lane[k]) : job'[lane[k][i]] = job[lane[k][i]]
    BY <1>0, <2>2 DEF ChainsOf
  <2> QED
    BY <1>0, <1>3, <2>1, <2>2, <2>3 DEF ChainsOf
<1> QED
  BY <1>5, <1>6

(* The first of a chain leaves it. *)
LEMMA ChainsLeave ==
  ASSUME Typed, Chains, NEW id \in JobIds, job[id].st \in {"running", "took"}, letters' = letters,
         job'[id].st \notin Chained, \A c \in JobIds \ {id} : job'[c] = job[c],
         lane' = [lane EXCEPT ![LaneOf[About(id)]] = Tail(@)]
  PROVE  Chains' /\ lane' \in [Lanes -> Seq(JobIds)]
<1> DEFINE h == LaneOf[About(id)]
<1>0. h \in Lanes /\ lane[h] \in Seq(JobIds) /\ lane[h] # <<>> /\ Len(lane[h]) \in Nat \ {0} /\ lane[h][1] = id
  BY FirstOfChain DEF Chained, Chains, ChainsOf
<1>1. /\ Tail(lane[h]) \in Seq(JobIds) /\ Len(Tail(lane[h])) = Len(lane[h]) - 1
      /\ \A i \in 1..Len(Tail(lane[h])) : Tail(lane[h])[i] = lane[h][i + 1]
  BY <1>0
<1>2. lane \in [Lanes -> Seq(JobIds)]
  BY Types DEF Typed
<1>3. lane' \in [Lanes -> Seq(JobIds)] /\ lane'[h] = Tail(lane[h]) /\ \A k \in Lanes \ {h} : lane'[k] = lane[k]
  BY <1>0, <1>1, <1>2
<1>4. \A c : About(c)' = About(c)
  BY DEF About
<1>5. ASSUME NEW k \in Lanes PROVE ChainsOf(k)'
  <2>0. ChainsOf(k)
    BY DEF Chains
  <2>1. CASE k # h
    <3>1. \A c \in JobIds : LaneOf[About(c)] = k => job'[c] = job[c]
      BY <2>1
    <3>2. \A i \in 1..Len(lane[k]) : job'[lane[k][i]] = job[lane[k][i]]
      BY <2>0, <3>1 DEF ChainsOf
    <3>3. lane'[k] = lane[k]
      BY <1>3, <2>1
    <3>4. \A i, j \in 1..Len(lane'[k]) : lane'[k][i] = lane'[k][j] => i = j
      BY <2>0, <3>3 DEF ChainsOf
    <3>7. \A i \in 1..Len(lane[k]) :
            lane[k][i] \in JobIds /\ job[lane[k][i]].st \in Chained /\ LaneOf[About(lane[k][i])] = k
      BY <2>0 DEF ChainsOf
    <3>8. \A i \in 1..Len(lane[k]) : job'[lane[k][i]].st \in Chained
      BY <3>2, <3>7
    <3>9. \A i \in 1..Len(lane'[k]) :
            lane'[k][i] \in JobIds /\ job'[lane'[k][i]].st \in Chained /\ LaneOf[About(lane'[k][i])] = k
      BY <3>3, <3>7, <3>8
    <3>5. \A c \in JobIds : job'[c].st \in Chained /\ LaneOf[About(c)] = k =>
            \E i \in 1..Len(lane'[k]) : lane'[k][i] = c
      BY <2>0, <3>1, <3>3 DEF ChainsOf
    <3>6. \A c \in JobIds : job'[c].st \in {"running", "took"} /\ LaneOf[About(c)] = k => lane'[k][1] = c
      BY <2>0, <3>1, <3>3 DEF ChainsOf
    <3> QED
      BY <1>4, <3>4, <3>5, <3>6, <3>9 DEF ChainsOf
  <2>2. CASE k = h
    <3>1. /\ Len(lane'[k]) = Len(lane[k]) - 1
          /\ \A i \in 1..Len(lane'[k]) : /\ lane'[k][i] = lane[k][i + 1]
                                         /\ i + 1 \in 1..Len(lane[k]) /\ 1 \in 1..Len(lane[k]) /\ i + 1 # 1
      BY <1>0, <1>1, <1>3, <2>2
    <3>2. \A i \in 1..Len(lane'[k]) : lane'[k][i] # id
      BY <1>0, <2>0, <2>2, <3>1 DEF ChainsOf
    <3>3. \A i, j \in 1..Len(lane'[k]) : lane'[k][i] = lane'[k][j] => i = j
      <4> SUFFICES ASSUME NEW i \in 1..Len(lane'[k]), NEW j \in 1..Len(lane'[k]), lane'[k][i] = lane'[k][j]
                   PROVE  i = j
        OBVIOUS
      <4>1. i + 1 \in 1..Len(lane[k]) /\ j + 1 \in 1..Len(lane[k]) /\ lane[k][i + 1] = lane[k][j + 1]
        BY <3>1
      <4>2. i + 1 = j + 1
        BY <2>0, <4>1 DEF ChainsOf
      <4> QED
        BY <4>2
    <3>4. \A i \in 1..Len(lane'[k]) :
            lane'[k][i] \in JobIds /\ job'[lane'[k][i]].st \in Chained /\ LaneOf[About(lane'[k][i])] = k
      BY <2>0, <3>1, <3>2 DEF ChainsOf
    <3>5. \A c \in JobIds : job'[c].st \in Chained /\ LaneOf[About(c)] = k =>
            \E i \in 1..Len(lane'[k]) : lane'[k][i] = c
      <4> SUFFICES ASSUME NEW c \in JobIds, job'[c].st \in Chained, LaneOf[About(c)] = k
                   PROVE  \E i \in 1..Len(lane'[k]) : lane'[k][i] = c
        OBVIOUS
      <4>1. c # id /\ job[c].st \in Chained
        OBVIOUS
      <4>2. PICK i \in 1..Len(lane[k]) : lane[k][i] = c
        BY <2>0, <4>1 DEF ChainsOf
      <4>3. i # 1
        BY <1>0, <2>2, <4>1, <4>2
      <4>4. i - 1 \in 1..Len(lane'[k]) /\ (i - 1) + 1 = i
        BY <1>0, <2>2, <3>1, <4>3
      <4>5. lane'[k][i - 1] = lane[k][(i - 1) + 1]
        BY <3>1, <4>4
      <4>6. lane'[k][i - 1] = c
        BY <4>2, <4>4, <4>5
      <4> QED
        BY <4>4, <4>6
    <3>6. \A c \in JobIds : job'[c].st \in {"running", "took"} /\ LaneOf[About(c)] = k => lane'[k][1] = c
      <4> SUFFICES ASSUME NEW c \in JobIds, job'[c].st \in {"running", "took"}, LaneOf[About(c)] = k
                   PROVE  FALSE
        OBVIOUS
      <4>1. c # id
        BY DEF Chained
      <4>2. lane[k][1] = c
        BY <2>0, <4>1 DEF ChainsOf
      <4> QED
        BY <1>0, <2>2, <4>1, <4>2
    <3> QED
      BY <1>4, <3>3, <3>4, <3>5, <3>6 DEF ChainsOf
  <2> QED
    BY <2>1, <2>2
<1> QED
  BY <1>3, <1>5 DEF Chains

Jobs(id) == Take(id) \/ Start(id) \/ JobTakes(id) \/ JobEnds(id) \/ JobFails(id) \/ JobLetter(id) \/ JobLetterLost(id)

(* What a step does to its job; the others keep theirs. *)
LEMMA JobStep ==
  ASSUME Typed, NEW id \in JobIds, Jobs(id)
  PROVE  /\ job[id].st \in {"waiting"} \cup Active /\ About(id) \in Deliveries
         /\ job' \in [JobIds -> JobType]
         /\ \A c \in JobIds \ {id} : job'[c] = job[c]
         /\ \A c \in JobIds : job'[c].st # "none" => c \in Deliveries \cup 1..Len(letters)
         /\ Take(id) => job[id].st = "waiting" /\ job'[id].st = "lane"
         /\ Start(id) => job[id].st = "lane" /\ job'[id].st = "running"
         /\ JobTakes(id) => job[id].st = "running" /\ job'[id].st = "took"
         /\ JobEnds(id) => job[id].st = "took" /\ job'[id].st = "done"
         /\ JobFails(id) => job[id].st \in {"running", "took"} /\ job'[id].st \in {"letter", "waiting"}
         /\ JobLetter(id) \/ JobLetterLost(id) => job[id].st = "letter" /\ job'[id].st = "failed"
<1> USE DEF Typed
<1>0. job[id] \in JobType /\ job \in [JobIds -> JobType]
  BY Types
<1>1. job[id].st \in {"waiting"} \cup Active
  BY
  DEF Jobs, Take, Start, JobTakes, JobEnds, JobFails, JobLetter, JobLetterLost,
      Active
<1>2. id \in Deliveries \cup 1..Len(letters) /\ About(id) \in Deliveries
  BY <1>1, AboutTyped DEF TypeOK, Active
<1>3. PICK r \in JobType :
        /\ job' = [job EXCEPT ![id] = r]
        /\ Take(id) => job[id].st = "waiting" /\ r.st = "lane"
        /\ Start(id) => job[id].st = "lane" /\ r.st = "running"
        /\ JobTakes(id) => job[id].st = "running" /\ r.st = "took"
        /\ JobEnds(id) => job[id].st = "took" /\ r.st = "done"
        /\ JobFails(id) => job[id].st \in {"running", "took"} /\ r.st \in {"letter", "waiting"}
        /\ JobLetter(id) \/ JobLetterLost(id) => job[id].st = "letter" /\ r.st = "failed"
  <2>1. CASE Take(id)
    <3>1. [job[id] EXCEPT !.st = "lane"] \in JobType /\ [job[id] EXCEPT !.st = "lane"].st = "lane"
      BY <1>0 DEF JobType, JobStates, Active
    <3>2. job' = [job EXCEPT ![id] = [job[id] EXCEPT !.st = "lane"]]
      BY <2>1 DEF Take
    <3>3. job[id].st = "waiting"
      BY <2>1 DEF Take
    <3> QED
      BY <3>1, <3>2, <3>3
      DEF Start, JobTakes, JobEnds, JobFails, JobLetter, JobLetterLost
  <2>2. CASE Start(id)
    <3>1. [job[id] EXCEPT !.st = "running"] \in JobType /\ [job[id] EXCEPT !.st = "running"].st = "running"
      BY <1>0 DEF JobType, JobStates, Active
    <3>2. job' = [job EXCEPT ![id] = [job[id] EXCEPT !.st = "running"]]
      BY <2>2 DEF Start
    <3>3. job[id].st = "lane"
      BY <2>2 DEF Start
    <3> QED
      BY <3>1, <3>2, <3>3
      DEF Take, JobTakes, JobEnds, JobFails, JobLetter, JobLetterLost
  <2>3. CASE JobLetter(id) \/ JobLetterLost(id)
    <3>1. JobIn("failed") \in JobType
      BY JobIns
    <3>2. job' = [job EXCEPT ![id] = JobIn("failed")] /\ job[id].st = "letter"
      BY <2>3 DEF JobLetter, JobLetterLost
    <3> QED
      BY <3>1, <3>2, JobIns DEF Take, Start, JobTakes, JobEnds, JobFails
  <2>4. CASE JobTakes(id) \/ JobEnds(id) \/ JobFails(id)
    <3>0. job[id].st \in {"running", "took"}
      BY <2>4 DEF JobTakes, JobEnds, JobFails
    <3>n. ~Take(id) /\ ~Start(id) /\ ~JobLetter(id) /\ ~JobLetterLost(id)
      BY <3>0 DEF Take, Start, JobLetter, JobLetterLost
    <3>1. CASE JobTakes(id) /\ ~JobEnds(id) /\ ~JobFails(id)
      <4>1. [job[id] EXCEPT !.st = "took"] \in JobType /\ [job[id] EXCEPT !.st = "took"].st = "took"
        BY <1>0 DEF JobType, JobStates, Active
      <4>2. job' = [job EXCEPT ![id] = [job[id] EXCEPT !.st = "took"]] /\ job[id].st = "running"
        BY <3>1 DEF JobTakes
      <4> QED
        BY <3>1, <3>n, <4>1, <4>2
    <3>2. CASE JobEnds(id) /\ ~JobFails(id)
      <4>1. JobIn("done") \in JobType
        BY JobIns
      <4>2. job' = [job EXCEPT ![id] = JobIn("done")] /\ job[id].st = "took"
        BY <3>2 DEF JobEnds
      <4>3. ~JobTakes(id)
        BY <4>2 DEF JobTakes
      <4> QED
        BY <3>2, <3>n, JobIns, <4>1, <4>2, <4>3
    <3>3. CASE JobFails(id)
      <4>1. job' = [job EXCEPT ![id] = IF job[id].tries + 1 >= MaxTries
                                THEN [job[id] EXCEPT !.st = "letter"]
                                ELSE [job[id] EXCEPT !.st = "waiting", !.tries = job[id].tries + 1]]
        BY <3>3 DEF JobFails
      <4>2. [job[id] EXCEPT !.st = "letter"] \in JobType /\ [job[id] EXCEPT !.st = "letter"].st = "letter"
        BY <1>0 DEF JobType, JobStates, Active
      <4>3. CASE job[id].tries + 1 >= MaxTries
        <5>1. job' = [job EXCEPT ![id] = [job[id] EXCEPT !.st = "letter"]]
          BY <4>1, <4>3
        <5>2. job'[id].st = "letter"
          BY <1>0, <4>2, <5>1
        <5>3. ~JobTakes(id) /\ ~JobEnds(id)
          BY <1>0, <5>2, JobIns DEF JobTakes, JobEnds, JobType
        <5> QED
          BY <3>0, <3>n, <4>2, <5>1, <5>3
      <4>4. CASE ~(job[id].tries + 1 >= MaxTries)
        <5>1. job' = [job EXCEPT ![id] = [job[id] EXCEPT !.st = "waiting", !.tries = job[id].tries + 1]]
          BY <4>1, <4>4
        <5>2. job[id].tries + 1 \in 0..MaxTries - 1
          BY <1>0, <4>4, Constant DEF JobType
        <5>3. /\ [job[id] EXCEPT !.st = "waiting", !.tries = job[id].tries + 1] \in JobType
              /\ [job[id] EXCEPT !.st = "waiting", !.tries = job[id].tries + 1].st = "waiting"
          BY <1>0, <5>2 DEF JobType, JobStates
        <5>4. job'[id].st = "waiting"
          BY <1>0, <5>1, <5>3
        <5>5. ~JobTakes(id) /\ ~JobEnds(id)
          BY <1>0, <5>4, JobIns DEF JobTakes, JobEnds, JobType
        <5> QED
          BY <3>0, <3>n, <5>1, <5>3, <5>5
      <4> QED
        BY <4>3, <4>4
    <3> QED
      BY <2>4, <3>1, <3>2, <3>3
  <2> QED
    BY <2>1, <2>2, <2>3, <2>4 DEF Jobs
<1>4. /\ job' \in [JobIds -> JobType] /\ job'[id] = r
      /\ \A c \in JobIds \ {id} : job'[c] = job[c]
      /\ \A c \in JobIds : job'[c].st # "none" => c \in Deliveries \cup 1..Len(letters)
  BY <1>2, <1>3, JobTyped
<1> QED
  BY <1>1, <1>2, <1>3, <1>4

Base == Typed /\ Chains

LEMMA BaseJobs == ASSUME Base, NEW id \in JobIds, Jobs(id) PROVE Base'
<1> USE DEF Base
<1>0. Typed /\ TypeOK /\ RowHeld /\ Chains
  BY DEF Typed
<1>1. /\ job[id].st \in {"waiting"} \cup Active /\ About(id) \in Deliveries
      /\ job' \in [JobIds -> JobType]
      /\ \A c \in JobIds \ {id} : job'[c] = job[c]
      /\ \A c \in JobIds : job'[c].st # "none" => c \in Deliveries \cup 1..Len(letters)
  BY <1>0, JobStep
<1>2. /\ UNCHANGED <<queueOn, enabled, event, call, swept, picked, redrives>>
  BY
  DEF Jobs, Take, Start, JobTakes, JobEnds, JobFails, JobLetter, JobLetterLost,
      config, rows, batches, budget
<1>3. /\ letters' \in Seq(LetterType) /\ Len(letters') <= MaxLetters
      /\ \A n \in 1..Len(letters) : letters'[n] = letters[n] /\ n \in 1..Len(letters')
  <2>1. CASE JobLetter(id)
    BY <1>0, <1>1, <2>1, Appending DEF JobLetter
  <2>2. CASE ~JobLetter(id)
    <3>1. letters' = letters
      BY <2>2
      DEF Jobs, Take, Start, JobTakes, JobEnds, JobFails, JobLetterLost, rows
    <3>2. letters \in Seq(LetterType) /\ Len(letters) <= MaxLetters
      BY <1>0, Types, Constant
    <3> QED
      BY <3>1, <3>2
  <2> QED
    BY <2>1, <2>2
<1>4. Chains' /\ lane' \in [Lanes -> Seq(JobIds)]
  <2>0. lane \in [Lanes -> Seq(JobIds)] /\ \A n \in 1..Len(letters) : letters'[n].d = letters[n].d
    BY <1>0, <1>3, Types
  <2>1. CASE Take(id)
    <3>1. lane' \in [Lanes -> Seq(JobIds)]
      <4>1. lane' = [lane EXCEPT ![LaneOf[About(id)]] = Append(lane[LaneOf[About(id)]], id)]
        BY <2>1 DEF Take
      <4>2. LaneOf[About(id)] \in Lanes
        BY <1>1, Constant
      <4>3. Append(lane[LaneOf[About(id)]], id) \in Seq(JobIds)
        BY <2>0, <4>2
      <4> QED
        BY <2>0, <4>1, <4>3
    <3> QED
      BY <1>0, <2>1, <3>1, ChainsTake
  <2>2. CASE JobEnds(id) \/ JobFails(id)
    <3>1. job[id].st \in {"running", "took"} /\ job'[id].st \notin Chained
      BY <1>0, <2>2, JobStep DEF Chained
    <3>2. letters' = letters /\ lane' = [lane EXCEPT ![LaneOf[About(id)]] = Tail(@)]
      BY <2>2 DEF JobEnds, JobFails, rows
    <3> QED
      BY <1>0, <1>1, <3>1, <3>2, ChainsLeave
  <2>3. CASE JobTakes(id) \/ JobLetter(id) \/ JobLetterLost(id)
    <3>1. lane' = lane
      BY <2>3 DEF JobTakes, JobLetter, JobLetterLost, queue
    <3>2. \/ job[id].st = "running" /\ job'[id].st = "took"
          \/ job[id].st = "letter" /\ job'[id].st = "failed"
      BY <1>0, <2>3, JobStep
    <3>3. \A c \in JobIds : /\ job'[c].st \in Chained => job[c].st \in Chained
                            /\ job[c].st \in Chained => job'[c].st \in Chained
                            /\ job'[c].st \in {"running", "took"} => job[c].st \in {"running", "took"}
      BY <1>1, <3>2 DEF Chained
    <3> QED
      BY <1>0, <2>0, <3>1, <3>3, ChainsStay
  <2>4. CASE Start(id)
    <3>1. lane' = lane /\ letters' = letters /\ Head(lane[LaneOf[About(id)]]) = id
      BY <2>4 DEF Start, rows
    <3>2. job[id].st = "lane" /\ job'[id].st = "running"
      BY <1>0, <2>4, JobStep
    <3>3. /\ lane[LaneOf[About(id)]] \in Seq(JobIds) /\ lane[LaneOf[About(id)]] # <<>>
      BY <1>0, <3>2, FirstOfChain DEF Chained
    <3>4. lane[LaneOf[About(id)]][1] = id
      BY <3>1, <3>3
    <3>5. ASSUME NEW k \in Lanes PROVE ChainsOf(k)'
      <4>0. ChainsOf(k)
        BY DEF Chains
      <4>1. \A c \in JobIds : job'[c].st \in Chained <=> job[c].st \in Chained
        BY <1>1, <3>2 DEF Chained
      <4>2. \A c \in JobIds : job'[c].st \in {"running", "took"} => c = id \/ job[c].st \in {"running", "took"}
        BY <1>1
      <4>3. /\ \A i, j \in 1..Len(lane[k]) : lane[k][i] = lane[k][j] => i = j
            /\ \A i \in 1..Len(lane[k]) :
                 lane[k][i] \in JobIds /\ job'[lane[k][i]].st \in Chained /\ LaneOf[About(lane[k][i])] = k
        BY <4>0, <4>1 DEF ChainsOf
      <4>4. \A c \in JobIds : job'[c].st \in Chained /\ LaneOf[About(c)] = k => \E i \in 1..Len(lane[k]) : lane[k][i] = c
        BY <4>0, <4>1 DEF ChainsOf
      <4>5. \A c \in JobIds : job'[c].st \in {"running", "took"} /\ LaneOf[About(c)] = k => lane[k][1] = c
        BY <3>4, <4>0, <4>2 DEF ChainsOf
      <4>6. \A c : About(c)' = About(c)
        BY <3>1 DEF About
      <4> QED
        BY <3>1, <4>3, <4>4, <4>5, <4>6 DEF ChainsOf
    <3> QED
      BY <2>0, <3>1, <3>5 DEF Chains
  <2> QED
    BY <2>1, <2>2, <2>3, <2>4 DEF Jobs
<1>5. RowHeld'
  BY <1>0, <1>2, <1>3, RowKept
<1>6. /\ handled' \in [Deliveries -> 0..2] /\ raced' \subseteq Deliveries /\ forfeited' \subseteq Deliveries
      /\ faults' \in 0..MaxFaults
  <2>1. handled \in [Deliveries -> 0..2] /\ raced \subseteq Deliveries /\ forfeited \subseteq Deliveries /\ faults \in 0..MaxFaults
    BY <1>0 DEF TypeOK
  <2>2. handled' \in [Deliveries -> 0..2]
    <3>1. CASE JobTakes(id)
      BY <1>0, <1>1, <3>1, Handling DEF JobTakes
    <3>2. CASE ~JobTakes(id)
      BY <2>1, <3>2
      DEF Jobs, Take, Start, JobEnds, JobFails, JobLetter, JobLetterLost, history
    <3> QED
      BY <3>1, <3>2
  <2>3. raced' \subseteq Deliveries /\ forfeited' \subseteq Deliveries
    BY <1>1, <2>1
    DEF Jobs, Take, Start, JobTakes, JobEnds, JobFails, JobLetter, JobLetterLost,
        history
  <2>4. faults' \in 0..MaxFaults
    <3>1. CASE JobLetterLost(id)
      BY <1>0, <3>1, Counting DEF JobLetterLost
    <3>2. CASE ~JobLetterLost(id)
      BY <2>1, <3>2
      DEF Jobs, Take, Start, JobTakes, JobEnds, JobFails, JobLetter, budget
    <3> QED
      BY <3>1, <3>2
  <2> QED
    BY <2>2, <2>3, <2>4
<1>7. /\ picked' \subseteq 1..Len(letters')
      /\ \A c \in JobIds : job'[c].st # "none" => c \in Deliveries \cup 1..Len(letters')
  BY <1>0, <1>1, <1>2, <1>3 DEF TypeOK
<1>8. TypeOK'
  BY <1>0, <1>1, <1>2, <1>3, <1>4, <1>6, <1>7 DEF TypeOK, LetterType, JobType
<1> QED
  BY <1>4, <1>5, <1>8 DEF Typed

Requests(d) == Receive(d) \/ MarkDispatched(d) \/ MarkFailed(d) \/ SaveLetter(d) \/ MarkLost(d) \/ Age(d)
Enqueues(a) == Add(a) \/ AddRejected(a) \/ AddInline(a) \/ InlineTakes(a) \/ InlineEnds(a)

(* Rows are appended, and keep their delivery. *)
LEMMA LettersStay ==
  ASSUME Typed
  PROVE  /\ \A a \in Callers : Enqueues(a) => letters' = letters
         /\ \A d \in Deliveries : Requests(d) =>
              letters' = letters \/ (Len(letters) < MaxLetters /\ letters' = Append(letters, Letter(d)))
         /\ SweepSteps =>
              \/ letters' = letters
              \/ Len(letters) < MaxLetters /\ Deal \in Deliveries /\ letters' = Append(letters, Letter(Deal))
              \/ letters' = [n \in 1..Len(letters) |->
                   IF letters[n].d = Deal THEN [letters[n] EXCEPT !.redriven = TRUE] ELSE letters[n]]
         /\ RedriveSteps =>
              \/ letters' = letters
              \/ /\ call["redrive"].row \in 1..Len(letters)
                 /\ letters' = [letters EXCEPT ![call["redrive"].row].redriven = TRUE]
         /\ \A id \in JobIds : Jobs(id) =>
              letters' = letters \/ (Len(letters) < MaxLetters /\ letters' = Append(letters, Letter(About(id))))
<1>1. \A a \in Callers : Enqueues(a) => letters' = letters
  BY DEF Enqueues, Add, AddRejected, AddInline, InlineTakes, InlineEnds, rows
<1>2. ASSUME NEW d \in Deliveries, Requests(d)
      PROVE  letters' = letters \/ (Len(letters) < MaxLetters /\ letters' = Append(letters, Letter(d)))
  <2>1. CASE SaveLetter(d)
    BY <2>1 DEF SaveLetter
  <2>2. CASE ~SaveLetter(d)
    <3>1. letters' = letters
      BY <1>2, <2>2
      DEF Requests, Receive, MarkDispatched, MarkFailed, MarkLost, Age, rows
    <3> QED
      BY <3>1
  <2> QED
    BY <2>1, <2>2
<1>3. ASSUME SweepSteps
      PROVE  \/ letters' = letters
             \/ Len(letters) < MaxLetters /\ Deal \in Deliveries /\ letters' = Append(letters, Letter(Deal))
             \/ letters' = [n \in 1..Len(letters) |->
                  IF letters[n].d = Deal THEN [letters[n] EXCEPT !.redriven = TRUE] ELSE letters[n]]
  <2>1. CASE SweepLetter
    <3>1. Deal \in Deliveries
      BY <2>1, Types, Constant DEF SweepLetter, Deal, Typed
    <3> QED
      BY <2>1, <3>1 DEF SweepLetter
  <2>2. CASE SweepClose
    <3>1. DOMAIN letters = 1..Len(letters)
      BY Types DEF Typed
    <3> QED
      BY <2>2, <3>1 DEF SweepClose
  <2>3. CASE ~(SweepLetter \/ SweepClose)
    BY <1>3, <2>3
    DEF SweepSteps, SweepStart, SweepRow, SweepMark, SweepRetry, SweepCount,
        SweepExhaust, SweepLost, rows
  <2> QED
    BY <2>1, <2>2, <2>3
<1>4. ASSUME RedriveSteps
      PROVE  \/ letters' = letters
             \/ /\ call["redrive"].row \in 1..Len(letters)
                /\ letters' = [letters EXCEPT ![call["redrive"].row].redriven = TRUE]
  BY <1>4, Constant
  DEF RedriveSteps, RedriveStart, RedriveRow, RedriveRetire, RedriveClose,
      RedriveFailed, RedriveLost,
     rows, Typed, RowHeld
<1>5. ASSUME NEW id \in JobIds, Jobs(id)
      PROVE  letters' = letters \/ (Len(letters) < MaxLetters /\ letters' = Append(letters, Letter(About(id))))
  <2>1. CASE JobLetter(id)
    BY <2>1 DEF JobLetter
  <2>2. CASE ~JobLetter(id)
    <3>1. letters' = letters
      BY <1>5, <2>2
      DEF Jobs, Take, Start, JobTakes, JobEnds, JobFails, JobLetterLost, rows
    <3> QED
      BY <3>1
  <2> QED
    BY <2>1, <2>2
<1> QED
  BY <1>1, <1>2, <1>3, <1>4, <1>5

Work == \/ \E a \in Callers : Enqueues(a)
        \/ \E d \in Deliveries : Requests(d)
        \/ SweepSteps \/ RedriveSteps

(* What a step does to the letters that are there. *)
LEMMA LettersGrow ==
  ASSUME Typed, Work \/ \E id \in JobIds : Jobs(id)
  PROVE  /\ Len(letters) \in Nat /\ Len(letters') \in Nat /\ Len(letters) <= Len(letters')
         /\ \A n \in 1..Len(letters) : letters'[n].d = letters[n].d /\ n \in 1..Len(letters')
<1>0. /\ letters \in Seq(LetterType) /\ Len(letters) \in Nat /\ DOMAIN letters = 1..Len(letters)
      /\ \A n \in 1..Len(letters) : letters[n] \in LetterType
  BY Types DEF Typed
<1>1. CASE letters' = letters
  BY <1>0, <1>1
<1>2. ASSUME NEW d \in Deliveries, Len(letters) < MaxLetters, letters' = Append(letters, Letter(d))
      PROVE  /\ Len(letters') \in Nat /\ Len(letters) <= Len(letters')
             /\ \A n \in 1..Len(letters) : letters'[n].d = letters[n].d /\ n \in 1..Len(letters')
  BY <1>0, <1>2, Appending DEF Typed
<1>3. CASE letters' = [n \in 1..Len(letters) |->
                IF letters[n].d = Deal THEN [letters[n] EXCEPT !.redriven = TRUE] ELSE letters[n]]
  <2>1. \A n \in 1..Len(letters) : letters'[n] \in LetterType /\ letters'[n].d = letters[n].d
    BY <1>0, <1>3 DEF LetterType
  <2>2. letters' \in Seq(LetterType) /\ Len(letters') = Len(letters)
    BY <1>0, <1>3, <2>1
  <2> QED
    BY <1>0, <2>1, <2>2
<1>4. CASE /\ call["redrive"].row \in 1..Len(letters)
           /\ letters' = [letters EXCEPT ![call["redrive"].row].redriven = TRUE]
  <2>1. /\ DOMAIN letters' = 1..Len(letters)
        /\ \A n \in 1..Len(letters) : letters'[n] \in LetterType /\ letters'[n].d = letters[n].d
    BY <1>0, <1>4 DEF LetterType
  <2>2. letters' = [n \in 1..Len(letters) |-> letters'[n]]
    BY <1>0, <1>4
  <2>3. Len(letters') = Len(letters)
    BY <1>0, <2>1, <2>2
  <2> QED
    BY <1>0, <2>1, <2>3
<1>5. \A id \in JobIds : Jobs(id) => About(id) \in Deliveries
  BY JobStep
<1> QED
  BY <1>1, <1>2, <1>3, <1>4, <1>5, LettersStay DEF Work

LEMMA BaseWork == ASSUME Base, Work PROVE Base'
<1> USE DEF Base
<1>1. Typed'
  BY TypedEnqueue, TypedRequest, TypedSweep, TypedRedrive
  DEF Work, Enqueues, Requests
<1>2. \A n \in 1..Len(letters) : letters'[n].d = letters[n].d
  BY LettersGrow
<1>3. lane' = lane
  BY DEF Work, Enqueues, Add, AddRejected, AddInline, InlineTakes, InlineEnds,
     Requests, Receive, MarkDispatched, MarkFailed, SaveLetter, MarkLost, Age,
     SweepSteps, SweepStart, SweepRow, SweepMark, SweepClose, SweepRetry, SweepCount, SweepLetter, SweepExhaust, SweepLost,
     RedriveSteps, RedriveStart, RedriveRow, RedriveRetire, RedriveClose, RedriveFailed, RedriveLost, queue
<1>4. CASE job' = job
  BY <1>2, <1>3, <1>4, ChainsStay, <1>1
<1>5. ASSUME NEW a \in Callers, Enqueues(a)
      PROVE  Chains'
  <2>1. CASE job' # job
    <3>1. job \in [JobIds -> JobType]
      BY Types DEF Typed
    <3>4. /\ job[JobOf(a)].st = "none"
          /\ job' = [job EXCEPT ![JobOf(a)] = JobIn("waiting")]
      BY <1>5, <2>1
      DEF Enqueues, Add, AddRejected, AddInline, InlineTakes, InlineEnds, queue
    <3>2. \A c \in JobIds : job'[c] # job[c] => job[c].st = "none" /\ job'[c].st = "waiting"
      <4> SUFFICES ASSUME NEW c \in JobIds, job'[c] # job[c] PROVE job[c].st = "none" /\ job'[c].st = "waiting"
        OBVIOUS
      <4>1. c = JobOf(a)
        BY <3>1, <3>4
      <4> QED
        BY <3>1, <3>4, <4>1, JobIns
    <3>3. \A c \in JobIds : /\ job'[c].st \in Chained => job[c].st \in Chained
                            /\ job[c].st \in Chained => job'[c].st \in Chained
                            /\ job'[c].st \in {"running", "took"} => job[c].st \in {"running", "took"}
      BY <3>2 DEF Chained
    <3> QED
      BY <1>2, <1>3, <3>3, ChainsStay
  <2> QED
    BY <2>1, <1>1, <1>4
<1>6. job' = job \/ \E a \in Callers : Enqueues(a)
  BY
  DEF Work, Requests, Receive, MarkDispatched, MarkFailed, SaveLetter, MarkLost,
      Age,
     SweepSteps, SweepStart, SweepRow, SweepMark, SweepClose, SweepRetry, SweepCount, SweepLetter, SweepExhaust, SweepLost,
     RedriveSteps, RedriveStart, RedriveRow, RedriveRetire, RedriveClose, RedriveFailed, RedriveLost, queue
<1> QED
  BY <1>1, <1>4, <1>5, <1>6

LEMMA BaseCrash == ASSUME Base, Crash PROVE Base'
<1> USE DEF Base
<1>0. Typed /\ TypeOK /\ RowHeld
  BY DEF Typed
<1>1. Idle \in CallType /\ Idle.at = "idle"
  BY Constant DEF Idle, CallType, Points
<1>2. call' \in [Callers -> CallType] /\ \A a \in Callers : call'[a].at = "idle"
  BY <1>1 DEF Crash
<1>3. job \in [JobIds -> JobType]
  BY <1>0, Types
<1>4. \A id \in JobIds :
        /\ id \in Doomed => job'[id] = JobIn("failed")
        /\ id \notin Doomed /\ job[id].st \in Active =>
             job'[id] = [job[id] EXCEPT !.st = "waiting", !.stalls = @ + 1]
        /\ job[id].st \notin Active => job'[id] = job[id]
  BY DEF Crash, Doomed
<1>5. \A id \in JobIds : /\ job'[id] \in JobType /\ job'[id].st \notin Active
                         /\ job'[id].st # "none" => job[id].st # "none"
  <2> SUFFICES ASSUME NEW id \in JobIds
               PROVE  /\ job'[id] \in JobType /\ job'[id].st \notin Active
                      /\ job'[id].st # "none" => job[id].st # "none"
    OBVIOUS
  <2>1. CASE id \in Doomed
    BY <1>4, <2>1, JobIns DEF Doomed, Active
  <2>2. CASE id \notin Doomed /\ job[id].st \in Active
    <3>1. job[id] \in JobType /\ job[id].stalls # MaxStalls
      BY <1>3, <2>2 DEF Doomed
    <3>2. job[id].stalls + 1 \in 0..MaxStalls
      BY <3>1 DEF JobType, MaxStalls
    <3>3. /\ [job[id] EXCEPT !.st = "waiting", !.stalls = @ + 1] \in JobType
          /\ [job[id] EXCEPT !.st = "waiting", !.stalls = @ + 1].st = "waiting"
      BY <3>1, <3>2 DEF JobType, JobStates
    <3> QED
      BY <1>4, <2>2, <3>3 DEF Active
  <2>3. CASE job[id].st \notin Active
    BY <1>3, <1>4, <2>3
  <2> QED
    BY <2>1, <2>2, <2>3
<1>6. job' \in [JobIds -> JobType]
  BY <1>5 DEF Crash
<1>7. /\ UNCHANGED <<queueOn, enabled, event, letters, redrives, handled>>
      /\ swept' = {} /\ picked' = {} /\ lane' = [k \in Lanes |-> <<>>]
  BY DEF Crash, config, rows
<1>8. faults' \in 0..MaxFaults /\ raced' \subseteq Deliveries /\ forfeited' \subseteq Deliveries
  <2>1. raced \subseteq Deliveries /\ forfeited \subseteq Deliveries
    BY <1>0 DEF TypeOK
  <2> QED
    BY <1>0, <2>1, Counting DEF Crash
<1>9. RowHeld'
  BY <1>2, Constant DEF RowHeld
<1>10. TypeOK'
  <2>1. lane' \in [Lanes -> Seq(JobIds)]
    BY <1>7
  <2>2. \A id \in JobIds : job'[id].st # "none" => id \in Deliveries \cup 1..Len(letters')
    BY <1>0, <1>5, <1>7 DEF TypeOK
  <2>3. \A a \in Callers : call'[a].at # "idle" => call'[a].d \in Deliveries
    BY <1>2
  <2>4. /\ swept' \subseteq [d : Deliveries, tries : Nat] /\ picked' \subseteq 1..Len(letters')
    BY <1>7
  <2> QED
    BY <1>0, <1>2, <1>6, <1>7, <1>8, <2>1, <2>2, <2>3, <2>4
    DEF TypeOK, CallType, JobType
<1>11. Chains'
  <2> SUFFICES ASSUME NEW k \in Lanes PROVE ChainsOf(k)'
    BY DEF Chains
  <2>1. lane'[k] = <<>> /\ Len(lane'[k]) = 0 /\ 1..Len(lane'[k]) = {}
    BY <1>7
  <2>2. \A id \in JobIds : job'[id].st \notin Chained
    BY <1>5 DEF Chained, Active
  <2>3. \A i \in 1..Len(lane'[k]) : FALSE
    BY <2>1
  <2>4. \A id \in JobIds : job'[id].st \notin {"running", "took"}
    BY <2>2 DEF Chained
  <2> QED
    BY <2>2, <2>3, <2>4 DEF ChainsOf
<1> QED
  BY <1>9, <1>10, <1>11 DEF Typed

LEMMA BaseIdle == ASSUME Base, SetEnabled \/ UNCHANGED vars PROVE Base'
<1>1. /\ UNCHANGED <<queueOn, rows, call, batches, queue, budget, history>> /\ enabled' \in BOOLEAN
  BY DEF SetEnabled, vars, config, Base, Typed, TypeOK
<1>2. Typed'
  <2>1. UNCHANGED <<queueOn, event, letters, call, swept, picked, job, lane, faults, redrives, handled, raced, forfeited>>
    BY <1>1 DEF rows, batches, queue, budget, history
  <2> QED
    BY <1>1, <2>1 DEF Base, Typed, TypeOK, RowHeld
<1>3. Chains'
  BY <1>1, ChainsStay DEF Base, rows, queue
<1> QED
  BY <1>2, <1>3 DEF Base

(* The steps of the specification, sorted by what they touch. *)
LEMMA Sorted ==
  ASSUME [Next]_vars
  PROVE  Work \/ (\E id \in JobIds : Jobs(id)) \/ Crash \/ SetEnabled \/ UNCHANGED vars
BY Constant
DEF Next, System, Request, Enqueue, Sweep, Redrive, Process, Misfortune, Work,
    Enqueues, Requests, SweepSteps,
   RedriveSteps, Jobs

LEMMA BaseInit == Init => Base
<1> SUFFICES ASSUME Init PROVE Base
  OBVIOUS
<1>1. ASSUME NEW k \in Lanes PROVE ChainsOf(k)
  <2>1. \A id \in JobIds : job[id].st = "none"
    BY JobIns DEF Init
  <2>2. lane[k] = <<>> /\ \A i \in 1..Len(lane[k]) : FALSE
    BY DEF Init
  <2> QED
    BY <2>1, <2>2 DEF ChainsOf, Chained
<1> QED
  BY <1>1, TypeInit DEF Base, Chains

LEMMA BaseStep == Base /\ [Next]_vars => Base'
<1> SUFFICES ASSUME Base, [Next]_vars PROVE Base'
  OBVIOUS
<1> QED
  BY Sorted, BaseWork, BaseJobs, BaseCrash, BaseIdle

(* Every variable of the ingress has its type, in every state, for any bounds
   and faults. *)
THEOREM IngressTypeCorrect == Spec => []TypeOK
<1>1. Base => TypeOK
  BY DEF Base, Typed
<1> QED
  BY <1>1, BaseInit, BaseStep, PTL DEF Spec

(* No two jobs of a conversation are dispatched at the same time, as the host
   sees it, however many there are, through retries and restarts: both would be
   the first of the chain. *)
THEOREM OneJobPerLane == Spec => []OneAtATime
<1>1. Base => OneAtATime
  <2> SUFFICES ASSUME Base, NEW i \in JobIds, NEW j \in JobIds,
                      job[i].st \in {"running", "took"}, job[j].st \in {"running", "took"},
                      LaneOf[About(i)] = LaneOf[About(j)]
               PROVE  i = j
    BY DEF OneAtATime
  <2>1. LaneOf[About(i)] \in Lanes
    BY AboutTyped DEF Base, Typed
  <2> QED
    BY <2>1 DEF Base, Chains, ChainsOf
<1> QED
  BY <1>1, BaseInit, BaseStep, PTL DEF Spec

-----------------------------------------------------------------------------
(* What stands for a delivery *)

AliveFor(d) == \E id \in JobIds : Alive(id) /\ About(id) = d

Safe(d)   == d \in forfeited \/ handled[d] > 0 \/ AliveFor(d)
Secure(d) == Safe(d) \/ Open(d)

(* Letter n is not needed: its delivery is safe, or has a later open letter. *)
Later(n)  == \E m \in 1..Len(letters) : m > n /\ letters[m].d = letters[n].d /\ ~letters[m].redriven
Beyond(n) == Safe(letters[n].d) \/ Later(n)

Kept ==
  /\ \A d \in Deliveries : event[d].st = "pending" => event[d].payload
  /\ \A d \in Deliveries : event[d].st \in {"dispatched", "failed"} => Secure(d)
  /\ \A n \in 1..Len(letters) : Secure(letters[n].d)
  /\ \A id \in JobIds : job[id].st # "none" => Secure(About(id))
  /\ \A n \in 1..Len(letters) : job[n].st # "none" => Beyond(n)
  /\ \A id \in JobIds : job[id].st = "took" => handled[About(id)] > 0
  /\ \A a \in Callers : call[a].at = "took" => handled[call[a].d] > 0
  /\ \A a \in Callers : a # "redrive" /\ call[a].at \in {"ok", "close", "exhaust"} => Secure(call[a].d)
  /\ call["redrive"].at \in {"ok", "close"} =>
       handled[call["redrive"].d] > 0 \/ job[call["redrive"].row].st # "none"

LEMMA OpenIs ==
  ASSUME Typed, NEW d
  PROVE  Open(d) <=> \E n \in 1..Len(letters) : letters[n].d = d /\ ~letters[n].redriven
<1>1. DOMAIN letters = 1..Len(letters) /\ \A n \in 1..Len(letters) : letters[n] \in LetterType
  BY Types DEF Typed
<1>2. \A n \in 1..Len(letters) : letters[n] = [d |-> d, redriven |-> FALSE] <=> letters[n].d = d /\ ~letters[n].redriven
  BY <1>1 DEF LetterType
<1> QED
  BY <1>1, <1>2 DEF Open

(* The step leaves an open letter for d after place n. *)
Anew(n, d) == \E m \in 1..Len(letters') : m > n /\ letters'[m].d = d /\ ~letters'[m].redriven

(* What any step leaves of what stood for a delivery: a job that ends and a
   letter that is closed are succeeded by something else. *)
Onward ==
  /\ forfeited \subseteq forfeited'
  /\ \A d \in Deliveries : handled[d] > 0 => handled'[d] > 0
  /\ Len(letters) \in Nat /\ Len(letters') \in Nat /\ Len(letters) <= Len(letters')
  /\ \A n \in 1..Len(letters) : letters'[n].d = letters[n].d /\ n \in 1..Len(letters')
  /\ \A d \in Deliveries : AliveFor(d) => Safe(d)' \/ Anew(Len(letters), d)
  /\ \A d \in Deliveries : \A m \in 1..Len(letters) :
       letters[m].d = d /\ ~letters[m].redriven => ~letters'[m].redriven \/ Safe(d)' \/ Anew(m, d)

LEMMA SafeOn ==
  ASSUME Typed, Onward, NEW d \in Deliveries, Safe(d)
  PROVE  Safe(d)' \/ Anew(Len(letters), d)
<1>1. CASE d \in forfeited \/ handled[d] > 0
  BY <1>1 DEF Onward, Safe
<1>2. CASE AliveFor(d)
  BY <1>2 DEF Onward
<1> QED
  BY <1>1, <1>2 DEF Safe

LEMMA LetterOn ==
  ASSUME Typed, Onward, NEW d \in Deliveries, NEW m \in 1..Len(letters), letters[m].d = d, ~letters[m].redriven,
         NEW n \in Nat, m > n
  PROVE  Safe(d)' \/ Anew(n, d)
<1>1. Len(letters) \in Nat /\ Len(letters') \in Nat /\ m \in 1..Len(letters') /\ letters'[m].d = d
  BY DEF Onward
<1>2. CASE ~letters'[m].redriven
  BY <1>1, <1>2 DEF Anew
<1>3. CASE Anew(m, d)
  <2>1. PICK k \in 1..Len(letters') : k > m /\ letters'[k].d = d /\ ~letters'[k].redriven
    BY <1>3 DEF Anew
  <2>2. k > n
    BY <1>1, <2>1
  <2> QED
    BY <2>1, <2>2 DEF Anew
<1>4. ~letters'[m].redriven \/ Safe(d)' \/ Anew(m, d)
  BY DEF Onward
<1> QED
  BY <1>2, <1>3, <1>4

LEMMA SecureOn ==
  ASSUME Typed, Typed', Onward, NEW d \in Deliveries, Secure(d)
  PROVE  Secure(d)'
<1>0. Open(d)' <=> \E n \in 1..Len(letters') : letters'[n].d = d /\ ~letters'[n].redriven
  <2>0. letters' \in Seq(LetterType)
    BY DEF Typed, TypeOK, LetterType
  <2>1. DOMAIN letters' = 1..Len(letters') /\ \A n \in 1..Len(letters') : letters'[n] \in LetterType
    BY <2>0
  <2>2. \A n \in 1..Len(letters') : letters'[n] = [d |-> d, redriven |-> FALSE] <=> letters'[n].d = d /\ ~letters'[n].redriven
    BY <2>1 DEF LetterType
  <2> QED
    BY <2>1, <2>2 DEF Open
<1>1. \A n : Anew(n, d) => Open(d)'
  BY <1>0 DEF Anew
<1>2. CASE Safe(d)
  BY <1>1, <1>2, SafeOn DEF Secure
<1>3. CASE Open(d)
  <2>1. PICK m \in 1..Len(letters) : letters[m].d = d /\ ~letters[m].redriven
    BY <1>3, OpenIs
  <2>2. 0 \in Nat /\ m > 0
    OBVIOUS
  <2>3. Safe(d)' \/ Anew(0, d)
    BY <2>1, <2>2, LetterOn
  <2> QED
    BY <1>1, <2>3 DEF Secure
<1> QED
  BY <1>2, <1>3 DEF Secure

LEMMA BeyondOn ==
  ASSUME Typed, Onward, NEW n \in 1..Len(letters), Beyond(n)
  PROVE  Beyond(n)'
<1>0. letters[n].d \in Deliveries /\ n \in Nat /\ letters'[n].d = letters[n].d /\ Len(letters) \in Nat
  BY Types DEF Typed, Onward, LetterType
<1> DEFINE d == letters[n].d
<1>1. Safe(d) => Safe(d)' \/ Anew(n, d)
  <2>1. Safe(d) => Safe(d)' \/ Anew(Len(letters), d)
    BY <1>0, SafeOn
  <2>2. Anew(Len(letters), d) => Anew(n, d)
    BY <1>0 DEF Anew, Onward
  <2> QED
    BY <2>1, <2>2
<1>2. Later(n) => Safe(d)' \/ Anew(n, d)
  <2> SUFFICES ASSUME NEW m \in 1..Len(letters), m > n, letters[m].d = d, ~letters[m].redriven
               PROVE  Safe(d)' \/ Anew(n, d)
    BY DEF Later
  <2> QED
    BY <1>0, LetterOn
<1>3. Safe(d)' \/ Anew(n, d)
  BY <1>1, <1>2 DEF Beyond
<1>4. Anew(n, d) => Later(n)'
  BY <1>0 DEF Anew, Later
<1>5. Safe(d)' => Safe(letters[n].d)'
  BY <1>0 DEF Safe, AliveFor
<1> QED
  BY <1>3, <1>4, <1>5 DEF Beyond

LEMMA AliveSecure ==
  ASSUME Base, NEW id \in JobIds, job[id].st = "waiting"
  PROVE  Safe(About(id)) /\ Secure(About(id))
BY DEF Alive, AliveFor, Safe, Secure

(* What is left to show of a step that goes onward. *)
LEMMA KeptOn ==
  ASSUME Base, Base', Kept, Onward,
         \A d \in Deliveries : event'[d].st = "pending" => event'[d].payload,
         \A d \in Deliveries : event'[d].st \in {"dispatched", "failed"} => Secure(d) \/ Secure(d)',
         \A n \in 1..Len(letters') : n \notin 1..Len(letters) => ~letters'[n].redriven,
         \A id \in JobIds : job'[id].st # "none" => job[id].st # "none" \/ job'[id].st = "waiting",
         \A id \in JobIds : job'[id].st = "took" => job[id].st = "took" \/ handled'[About(id)] > 0,
         \A a \in Callers : call'[a].at = "took" => handled'[call'[a].d] > 0,
         \A a \in Callers : a # "redrive" /\ call'[a].at \in {"ok", "close", "exhaust"} =>
           \E d \in Deliveries : d = call'[a].d /\ (Secure(d) \/ Secure(d)'),
         call'["redrive"].at \in {"ok", "close"} =>
           handled'[call'["redrive"].d] > 0 \/ job'[call'["redrive"].row].st # "none"
  PROVE  Kept'
<1>0. Typed /\ Typed' /\ TypeOK /\ TypeOK'
  BY DEF Base, Typed
<1>t. /\ letters' \in Seq(LetterType) /\ Len(letters) \in Nat /\ Len(letters') \in Nat
      /\ \A n \in 1..Len(letters) : letters[n].d \in Deliveries /\ letters'[n].d = letters[n].d /\ n \in JobIds
      /\ \A n \in 1..Len(letters') : letters'[n].d \in Deliveries /\ n \in JobIds /\ n \notin Deliveries
  <2>1. letters' \in Seq(LetterType) /\ Len(letters') <= MaxLetters
    BY <1>0 DEF TypeOK, LetterType
  <2>2. \A n \in 1..Len(letters') : letters'[n] \in LetterType /\ n \in 1..MaxLetters
    BY <2>1, Constant
  <2>3. \A n \in 1..Len(letters') : letters'[n].d \in Deliveries /\ n \in JobIds /\ n \notin Deliveries
    BY <2>2, Constant DEF LetterType
  <2> QED
    BY <2>1, <2>3 DEF Onward
<1>on. \A d \in Deliveries : Secure(d) => Secure(d)'
  BY <1>0, SecureOn
<1>1. \A d \in Deliveries : event'[d].st \in {"dispatched", "failed"} => Secure(d)'
  BY <1>on
<1>2. ASSUME NEW n \in 1..Len(letters') PROVE Secure(letters[n].d)'
  <2>1. CASE n \in 1..Len(letters)
    <3>1. Secure(letters[n].d) /\ letters[n].d \in Deliveries
      BY <1>t, <2>1 DEF Kept
    <3>2. PICK d \in Deliveries : d = letters[n].d
      BY <3>1
    <3>3. Secure(d)' /\ d = letters'[n].d
      BY <1>on, <1>t, <2>1, <3>1, <3>2
    <3> QED
      BY <3>3 DEF Secure, Safe, AliveFor, Open, Letter
  <2>2. CASE n \notin 1..Len(letters)
    <3>1. ~letters'[n].redriven
      BY <2>2
    <3>2. letters'[n] \in LetterType /\ DOMAIN letters' = 1..Len(letters')
      BY <1>t
    <3>3. letters'[n] = [d |-> letters'[n].d, redriven |-> FALSE]
      BY <3>1, <3>2 DEF LetterType
    <3> QED
      BY <3>2, <3>3 DEF Secure, Open
  <2> QED
    BY <2>1, <2>2
<1>3. ASSUME NEW id \in JobIds, job'[id].st # "none" PROVE Secure(About(id))'
  <2>1. CASE job'[id].st = "waiting"
    BY <2>1 DEF Alive, AliveFor, Safe, Secure
  <2>2. CASE job[id].st # "none"
    <3>1. Secure(About(id)) /\ About(id) \in Deliveries /\ About(id)' = About(id)
      BY <1>0, <1>t, <2>2, AboutTyped, AboutKept DEF Kept
    <3>2. PICK d \in Deliveries : d = About(id)
      BY <3>1
    <3>3. Secure(d)' /\ d = About(id)'
      BY <1>on, <3>1, <3>2
    <3> QED
      BY <3>3 DEF Secure, Safe, AliveFor, Open
  <2> QED
    BY <1>3, <2>1, <2>2
<1>4. ASSUME NEW n \in 1..Len(letters'), job'[n].st # "none" PROVE Beyond(n)'
  <2>0. n \in JobIds /\ n \notin Deliveries
    BY <1>t
  <2>1. CASE job'[n].st = "waiting"
    <3>1. About(n)' = letters'[n].d
      BY <2>0 DEF About
    <3>2. Safe(letters[n].d)'
      BY <2>0, <2>1, <3>1 DEF Alive, AliveFor, Safe
    <3> QED
      BY <3>2 DEF Beyond, Safe, AliveFor
  <2>2. CASE job[n].st # "none"
    <3>1. n \in 1..Len(letters)
      BY <1>0, <2>0, <2>2 DEF TypeOK
    <3>2. Beyond(n)
      BY <2>2, <3>1 DEF Kept
    <3> QED
      BY <1>0, <3>1, <3>2, BeyondOn
  <2> QED
    BY <1>4, <2>0, <2>1, <2>2
<1>5. ASSUME NEW id \in JobIds, job'[id].st = "took" PROVE handled'[About(id)'] > 0
  <2>1. CASE job[id].st = "took"
    <3>1. handled[About(id)] > 0 /\ About(id) \in Deliveries /\ About(id)' = About(id)
      BY <1>0, <1>t, <2>1, AboutTyped, AboutKept DEF Kept
    <3> QED
      BY <3>1 DEF Onward
  <2>2. CASE job[id].st # "took"
    <3>1. handled'[About(id)] > 0 /\ job'[id].st # "waiting" /\ job'[id].st # "none"
      BY <1>5, <2>2
    <3>2. job[id].st # "none"
      BY <3>1
    <3>3. About(id)' = About(id)
      BY <1>0, <1>t, <3>2, AboutKept
    <3> QED
      BY <3>1, <3>3
  <2> QED
    BY <2>1, <2>2
<1>6. ASSUME NEW a \in Callers, a # "redrive", call'[a].at \in {"ok", "close", "exhaust"}
      PROVE  Secure(call[a].d)'
  <2>1. PICK d \in Deliveries : d = call'[a].d /\ (Secure(d) \/ Secure(d)')
    BY <1>6
  <2>2. Secure(d)'
    BY <1>on, <2>1
  <2> QED
    BY <2>1, <2>2 DEF Secure, Safe, AliveFor, Open
<1> QED
  BY <1>1, <1>2, <1>3, <1>4, <1>5, <1>6 DEF Kept

(* Who is alive stays so when its job does. *)
LEMMA AliveOn ==
  ASSUME Base, \A n \in 1..Len(letters) : letters'[n].d = letters[n].d,
         NEW id \in JobIds, Alive(id), Alive(id)'
  PROVE  \A d \in Deliveries : d = About(id) => Safe(d)'
<1>1. About(id)' = About(id)
  BY AboutKept DEF Base, Alive, Active
<1> QED
  BY <1>1 DEF Safe, AliveFor

LEMMA KeptJobs == ASSUME Base, Base', Kept, NEW id \in JobIds, Jobs(id) PROVE Kept'
<1>0. Typed /\ TypeOK
  BY DEF Base, Typed
<1>1. /\ job[id].st \in {"waiting"} \cup Active /\ About(id) \in Deliveries
      /\ \A c \in JobIds \ {id} : job'[c] = job[c]
  BY <1>0, JobStep
<1>2. UNCHANGED <<event, call>>
  BY
  DEF Jobs, Take, Start, JobTakes, JobEnds, JobFails, JobLetter, JobLetterLost,
      config, rows, batches, budget
<1>3. /\ Len(letters) \in Nat /\ Len(letters') \in Nat /\ Len(letters) <= Len(letters')
      /\ \A n \in 1..Len(letters) : letters'[n].d = letters[n].d /\ n \in 1..Len(letters')
  BY <1>0, LettersGrow
<1>4. /\ \A n \in 1..Len(letters) : letters'[n] = letters[n]
      /\ \A n \in 1..Len(letters') : n \notin 1..Len(letters) => ~letters'[n].redriven
      /\ JobLetter(id) => Anew(Len(letters), About(id))
  <2>1. CASE JobLetter(id)
    <3>1. /\ Len(letters') = Len(letters) + 1 /\ letters'[Len(letters) + 1] = Letter(About(id))
          /\ \A n \in 1..Len(letters) : letters'[n] = letters[n]
      BY <1>0, <1>1, <2>1, Appending DEF JobLetter
    <3>2. letters'[Len(letters) + 1].d = About(id) /\ ~letters'[Len(letters) + 1].redriven
      BY <3>1 DEF Letter
    <3>3. \A n \in 1..Len(letters') : n \notin 1..Len(letters) => n = Len(letters) + 1
      BY <1>3, <3>1
    <3>4. Len(letters) + 1 \in 1..Len(letters') /\ Len(letters) + 1 > Len(letters)
      BY <1>3, <3>1
    <3>5. Anew(Len(letters), About(id))
      BY <3>2, <3>4 DEF Anew
    <3> QED
      BY <3>1, <3>2, <3>3, <3>5
  <2>2. CASE ~JobLetter(id)
    <3>1. letters' = letters
      BY <2>2
      DEF Jobs, Take, Start, JobTakes, JobEnds, JobFails, JobLetterLost, rows
    <3> QED
      BY <2>2, <3>1
  <2> QED
    BY <2>1, <2>2
<1>5. \A d \in Deliveries : handled[d] > 0 => handled'[d] > 0
  <2>1. CASE JobTakes(id)
    BY <1>0, <1>1, <2>1, Handling DEF JobTakes
  <2>2. CASE ~JobTakes(id)
    <3>1. handled' = handled
      BY <2>2
      DEF Jobs, Take, Start, JobEnds, JobFails, JobLetter, JobLetterLost, history
    <3> QED
      BY <3>1
  <2> QED
    BY <2>1, <2>2
<1>6. forfeited \subseteq forfeited' /\ (JobLetterLost(id) => About(id) \in forfeited')
  BY
  DEF Jobs, Take, Start, JobTakes, JobEnds, JobFails, JobLetter, JobLetterLost,
      history
<1>7. ASSUME NEW d \in Deliveries, AliveFor(d)
      PROVE  Safe(d)' \/ Anew(Len(letters), d)
  <2>1. PICK c \in JobIds : Alive(c) /\ About(c) = d
    BY <1>7 DEF AliveFor
  <2>2. CASE c # id
    <3>1. Alive(c)'
      BY <1>1, <2>1, <2>2 DEF Alive
    <3> QED
      BY <1>3, <2>1, <3>1, AliveOn
  <2>3. CASE c = id
    <3>1. CASE JobEnds(id)
      <4>1. job[id].st = "took" /\ handled[d] > 0
        BY <1>0, <2>1, <2>3, <3>1, JobStep DEF Kept
      <4> QED
        BY <1>5, <4>1 DEF Safe
    <3>2. CASE JobLetter(id)
      BY <1>4, <2>1, <2>3, <3>2
    <3>3. CASE JobLetterLost(id)
      BY <1>6, <2>1, <2>3, <3>3 DEF Safe
    <3>4. CASE Take(id) \/ Start(id) \/ JobTakes(id) \/ JobFails(id)
      <4>1. job'[id].st \in {"lane", "running", "took", "letter", "waiting"}
        BY <1>0, <3>4, JobStep
      <4>2. Alive(id)'
        BY <4>1 DEF Alive, Active
      <4> QED
        BY <1>3, <2>1, <2>3, <4>2, AliveOn
    <3> QED
      BY <3>1, <3>2, <3>3, <3>4 DEF Jobs
  <2> QED
    BY <2>2, <2>3
<1>8. Onward
  BY <1>3, <1>4, <1>5, <1>6, <1>7 DEF Onward
<1>9. \A c \in JobIds : job'[c].st # "none" => job[c].st # "none"
  <2>1. job[id].st # "none"
    BY <1>1 DEF Active
  <2> QED
    BY <1>1, <2>1
<1>10. \A c \in JobIds : job'[c].st = "took" => job[c].st = "took" \/ handled'[About(c)] > 0
  <2>1. job'[id].st = "took" => handled'[About(id)] > 0
    <3>1. CASE JobTakes(id)
      BY <1>0, <1>1, <3>1, Handling DEF JobTakes
    <3>2. CASE ~JobTakes(id)
      BY <1>0, <3>2, JobStep DEF Jobs
    <3> QED
      BY <3>1, <3>2
  <2> QED
    BY <1>1, <2>1
<1>11. \A a \in Callers : call[a].at # "idle" => call[a].d \in Deliveries
  BY <1>0, Types
<1>12. \A a \in Callers : call'[a].at = "took" => handled'[call'[a].d] > 0
  BY <1>2, <1>5, <1>11 DEF Kept
<1>13. \A a \in Callers : a # "redrive" /\ call'[a].at \in {"ok", "close", "exhaust"} =>
         \E d \in Deliveries : d = call'[a].d /\ Secure(d)
  BY <1>2, <1>11 DEF Kept
<1>14. call'["redrive"].at \in {"ok", "close"} =>
         handled'[call'["redrive"].d] > 0 \/ job'[call'["redrive"].row].st # "none"
  <2> SUFFICES ASSUME call["redrive"].at \in {"ok", "close"}
               PROVE  handled'[call["redrive"].d] > 0 \/ job'[call["redrive"].row].st # "none"
    BY <1>2
  <2>1. handled[call["redrive"].d] > 0 \/ job[call["redrive"].row].st # "none"
    BY DEF Kept
  <2>2. CASE handled[call["redrive"].d] > 0
    BY <1>5, <1>11, <2>2, Constant
  <2>3. CASE job[call["redrive"].row].st # "none"
    <3>1. job'[id].st # "none"
      BY <1>0, JobStep DEF Jobs
    <3>2. call["redrive"].row \in JobIds
      BY <1>0, Types, Constant DEF Typed, RowHeld
    <3> QED
      BY <1>1, <2>3, <3>1, <3>2
  <2> QED
    BY <2>1, <2>2, <2>3
<1>15. /\ \A d \in Deliveries : event'[d].st = "pending" => event'[d].payload
       /\ \A d \in Deliveries : event'[d].st \in {"dispatched", "failed"} => Secure(d)
  BY <1>2 DEF Kept
<1> QED
  BY <1>4, <1>8, <1>9, <1>10, <1>12, <1>13, <1>14, <1>15, KeptOn

(* What the requests, the sweep and the redrive leave alone: a job that is
   kept, and what was handled or forfeited. *)
LEMMA WorkLeaves ==
  ASSUME Base, Work
  PROVE  /\ \A c \in JobIds : job[c].st # "none" => job'[c] = job[c]
         /\ \A c \in JobIds : job[c].st = "none" => job'[c].st \in {"none", "waiting"}
         /\ forfeited \subseteq forfeited'
         /\ \A d \in Deliveries : handled[d] > 0 => handled'[d] > 0
<1>0. Typed /\ TypeOK
  BY DEF Base, Typed
<1>1. ASSUME job' # job
      PROVE  \E b \in JobIds : job[b].st = "none" /\ job' = [job EXCEPT ![b] = JobIn("waiting")]
  <2>1. PICK a \in Callers : Add(a) \/ AddRejected(a)
    BY <1>1 DEF Work, Enqueues, AddInline, InlineTakes, InlineEnds,
       Requests, Receive, MarkDispatched, MarkFailed, SaveLetter, MarkLost, Age,
       SweepSteps, SweepStart, SweepRow, SweepMark, SweepClose, SweepRetry, SweepCount, SweepLetter, SweepExhaust, SweepLost,
       RedriveSteps, RedriveStart, RedriveRow, RedriveRetire, RedriveClose, RedriveFailed, RedriveLost, queue
  <2>2. JobOf(a) \in JobIds
    BY <1>0, <2>1, JobOfTyped DEF Add, AddRejected
  <2> QED
    BY <1>1, <2>1, <2>2 DEF Add, AddRejected
<1>2. /\ \A c \in JobIds : job[c].st # "none" => job'[c] = job[c]
      /\ \A c \in JobIds : job[c].st = "none" => job'[c].st \in {"none", "waiting"}
  <2>1. CASE job' = job
    BY <2>1
  <2>2. CASE job' # job
    <3>1. PICK b \in JobIds : job[b].st = "none" /\ job' = [job EXCEPT ![b] = JobIn("waiting")]
      BY <1>1, <2>2
    <3>2. job \in [JobIds -> JobType]
      BY <1>0, Types
    <3>3. job'[b].st = "waiting" /\ \A c \in JobIds \ {b} : job'[c] = job[c]
      BY <3>1, <3>2, JobIns
    <3> QED
      BY <3>1, <3>3
  <2> QED
    BY <2>1, <2>2
<1>3. forfeited \subseteq forfeited'
  <2>1. CASE SweepClose
    BY <2>1 DEF SweepClose
  <2>2. CASE ~SweepClose
    BY <2>2
    DEF Work, Enqueues, Add, AddRejected, AddInline, InlineTakes, InlineEnds,
       Requests, Receive, MarkDispatched, MarkFailed, SaveLetter, MarkLost, Age,
       SweepSteps, SweepStart, SweepRow, SweepMark, SweepRetry, SweepCount, SweepLetter, SweepExhaust, SweepLost,
       RedriveSteps, RedriveStart, RedriveRow, RedriveRetire, RedriveClose, RedriveFailed, RedriveLost, history
  <2> QED
    BY <2>1, <2>2
<1>4. \A d \in Deliveries : handled[d] > 0 => handled'[d] > 0
  <2>1. CASE \E a \in Callers : InlineTakes(a)
    <3>1. PICK a \in Callers : InlineTakes(a)
      BY <2>1
    <3>2. call[a].d \in Deliveries /\ Once(call[a].d)
      BY <1>0, <3>1, Types DEF InlineTakes
    <3> QED
      BY <1>0, <3>2, Handling
  <2>2. CASE ~\E a \in Callers : InlineTakes(a)
    <3>1. handled' = handled
      BY <2>2 DEF Work, Enqueues, Add, AddRejected, AddInline, InlineEnds,
         Requests, Receive, MarkDispatched, MarkFailed, SaveLetter, MarkLost, Age,
         SweepSteps, SweepStart, SweepRow, SweepMark, SweepClose, SweepRetry, SweepCount, SweepLetter, SweepExhaust, SweepLost,
         RedriveSteps, RedriveStart, RedriveRow, RedriveRetire, RedriveClose, RedriveFailed, RedriveLost, history
    <3> QED
      BY <3>1
  <2> QED
    BY <2>1, <2>2
<1> QED
  BY <1>2, <1>3, <1>4

(* They never end a job, so what is alive stays alive. *)
LEMMA WorkAlive ==
  ASSUME Base, Work, NEW d \in Deliveries, AliveFor(d)
  PROVE  Safe(d)'
<1>1. PICK c \in JobIds : Alive(c) /\ About(c) = d
  BY DEF AliveFor
<1>2. job'[c] = job[c]
  BY <1>1, WorkLeaves DEF Alive, Active
<1>3. Alive(c)'
  BY <1>1, <1>2 DEF Alive
<1>4. \A n \in 1..Len(letters) : letters'[n].d = letters[n].d
  BY LettersGrow DEF Base
<1> QED
  BY <1>1, <1>3, <1>4, AliveOn

(* What is left to show of a step of one caller. *)
LEMMA WorkOn ==
  ASSUME Base, Kept, Work, NEW a \in Callers,
         \A b \in Callers \ {a} : call'[b] = call[b],
         \A m \in 1..Len(letters) :
           ~letters[m].redriven => \E d \in Deliveries : d = letters[m].d /\ (~letters'[m].redriven \/ Safe(d)' \/ Anew(m, d)),
         \A d \in Deliveries : event'[d].st = "pending" => event'[d].payload,
         \A d \in Deliveries : event'[d].st \in {"dispatched", "failed"} => Secure(d) \/ Secure(d)',
         \A n \in 1..Len(letters') : n \notin 1..Len(letters) => ~letters'[n].redriven,
         call'[a].at = "took" => handled'[call'[a].d] > 0,
         a # "redrive" /\ call'[a].at \in {"ok", "close", "exhaust"} =>
           \E d \in Deliveries : d = call'[a].d /\ (Secure(d) \/ Secure(d)'),
         a = "redrive" /\ call'[a].at \in {"ok", "close"} =>
           handled'[call'[a].d] > 0 \/ job'[call'[a].row].st # "none"
  PROVE  Kept'
<1>0. Typed /\ TypeOK /\ Base'
  BY BaseWork DEF Base, Typed
<1>1. \A b \in Callers : call[b].at # "idle" => call[b].d \in Deliveries
  BY <1>0, Types
<1>2. Onward
  BY <1>0, WorkLeaves, WorkAlive, LettersGrow DEF Onward
<1>3. \A c \in JobIds : job'[c].st # "none" => job[c].st # "none" \/ job'[c].st = "waiting"
  BY WorkLeaves
<1>4. \A c \in JobIds : job'[c].st = "took" => job[c].st = "took"
  BY WorkLeaves
<1>5. \A b \in Callers : call'[b].at = "took" => handled'[call'[b].d] > 0
  <2> SUFFICES ASSUME NEW b \in Callers \ {a}, call'[b].at = "took" PROVE handled'[call'[b].d] > 0
    OBVIOUS
  <2>1. call'[b] = call[b] /\ call[b].d \in Deliveries /\ handled[call[b].d] > 0
    BY <1>1 DEF Kept
  <2> QED
    BY <2>1, WorkLeaves
<1>6. \A b \in Callers : b # "redrive" /\ call'[b].at \in {"ok", "close", "exhaust"} =>
        \E d \in Deliveries : d = call'[b].d /\ (Secure(d) \/ Secure(d)')
  <2> SUFFICES ASSUME NEW b \in Callers \ {a}, b # "redrive", call'[b].at \in {"ok", "close", "exhaust"}
               PROVE  \E d \in Deliveries : d = call'[b].d /\ (Secure(d) \/ Secure(d)')
    OBVIOUS
  <2>1. call'[b] = call[b] /\ call[b].d \in Deliveries /\ Secure(call[b].d)
    BY <1>1 DEF Kept
  <2> QED
    BY <2>1
<1>7. call'["redrive"].at \in {"ok", "close"} =>
        handled'[call'["redrive"].d] > 0 \/ job'[call'["redrive"].row].st # "none"
  <2> SUFFICES ASSUME a # "redrive", call'["redrive"].at \in {"ok", "close"}
               PROVE  handled'[call'["redrive"].d] > 0 \/ job'[call'["redrive"].row].st # "none"
    OBVIOUS
  <2>1. call'["redrive"] = call["redrive"]
    BY Constant
  <2>2. call["redrive"].d \in Deliveries /\ call["redrive"].row \in JobIds
    BY <1>0, <1>1, <2>1, Types, Constant DEF Typed, RowHeld
  <2>3. handled[call["redrive"].d] > 0 \/ job[call["redrive"].row].st # "none"
    BY <2>1 DEF Kept
  <2> QED
    BY <2>1, <2>2, <2>3, WorkLeaves
<1> QED
  BY <1>0, <1>2, <1>3, <1>4, <1>5, <1>6, <1>7, KeptOn

LEMMA KeptEnqueue == ASSUME Base, Kept, NEW a \in Callers, Enqueues(a) PROVE Kept'
<1>0. Typed /\ TypeOK /\ Work
  BY DEF Base, Typed, Work
<1>1. call[a].at \in {"add", "inline", "took"} /\ call[a].at # "idle"
  BY DEF Enqueues, Add, AddRejected, AddInline, InlineTakes, InlineEnds
<1>2. PICK p \in {"ok", "inline", "took", "failed"} : Goto(a, p)
  BY DEF Enqueues, Add, AddRejected, AddInline, InlineTakes, InlineEnds
<1>3. /\ call'[a].at = p /\ call'[a].d = call[a].d /\ call'[a].row = call[a].row
      /\ \A b \in Callers \ {a} : call'[b] = call[b]
  BY <1>0, <1>1, <1>2, Going DEF Points
<1>4. /\ JobOf(a) \in JobIds /\ call[a].d \in Deliveries /\ About(JobOf(a)) = call[a].d
      /\ a = "redrive" => JobOf(a) = call[a].row
  BY <1>0, <1>1, JobOfTyped
<1>5. letters' = letters /\ event' = event
  BY DEF Enqueues, Add, AddRejected, AddInline, InlineTakes, InlineEnds, rows
<1>6. \A q \in Points \ {"idle"} : Goto(a, q) => call'[a].at = q
  BY <1>0, <1>1, Going
<1>7. call'[a].at = "took" => handled'[call'[a].d] > 0
  <2>1. CASE InlineTakes(a)
    <3>1. Once(call[a].d)
      BY <2>1 DEF InlineTakes
    <3> QED
      BY <1>0, <1>3, <1>4, <3>1, Handling
  <2>2. CASE ~InlineTakes(a)
    <3>1. call'[a].at # "took"
      BY <1>6, <2>2 DEF Enqueues, Add, AddRejected, AddInline, InlineEnds, Points
    <3> QED
      BY <3>1
  <2> QED
    BY <2>1, <2>2
<1>8. PICK d \in Deliveries : d = call[a].d
  BY <1>4
<1>9. PICK id \in JobIds : id = JobOf(a)
  BY <1>4
<1>10. About(id) = d /\ About(id)' = d
  BY <1>4, <1>5, <1>8, <1>9 DEF About
<1>11. CASE call'[a].at # "ok"
  <2>1. call'[a].at \in {"inline", "took", "failed"}
    BY <1>3, <1>11
  <2>2. a # "redrive" /\ call'[a].at \in {"ok", "close", "exhaust"} => FALSE
    BY <2>1
  <2>3. a = "redrive" /\ call'[a].at \in {"ok", "close"} => FALSE
    BY <2>1
  <2>4. \A m \in 1..Len(letters) : ~letters[m].redriven =>
          \E c \in Deliveries : c = letters[m].d /\ (~letters'[m].redriven \/ Safe(c)' \/ Anew(m, c))
    BY <1>0, <1>5, Types DEF LetterType
  <2>5. /\ \A c \in Deliveries : event'[c].st = "pending" => event'[c].payload
        /\ \A c \in Deliveries : event'[c].st \in {"dispatched", "failed"} => Secure(c) \/ Secure(c)'
        /\ \A n \in 1..Len(letters') : n \notin 1..Len(letters) => ~letters'[n].redriven
    BY <1>5 DEF Kept
  <2> QED
    BY <1>0, <1>3, <1>7, <2>2, <2>3, <2>4, <2>5, WorkOn
<1>12. CASE call'[a].at = "ok"
  <2>1. Secure(d) \/ Secure(d)'
    <3>1. CASE Add(a)
      <4>1. CASE job[id].st = "none"
        <5>1. job' = [job EXCEPT ![id] = JobIn("waiting")]
          BY <1>9, <3>1, <4>1 DEF Add
        <5>2. job'[id].st = "waiting"
          BY <1>0, <5>1, Types, JobIns
        <5>3. Alive(id)'
          BY <5>2 DEF Alive
        <5> QED
          BY <1>10, <5>3 DEF AliveFor, Safe, Secure
      <4>2. CASE job[id].st # "none"
        BY <1>10, <4>2 DEF Kept
      <4> QED
        BY <4>1, <4>2
    <3>2. CASE ~Add(a)
      <4>1. call[a].at = "took"
        BY <1>6, <1>12, <3>2
        DEF Enqueues, AddRejected, AddInline, InlineTakes, InlineEnds, Points
      <4> QED
        BY <1>8, <4>1 DEF Kept, Safe, Secure
    <3> QED
      BY <3>1, <3>2
  <2>2. a = "redrive" => handled'[call'[a].d] > 0 \/ job'[call'[a].row].st # "none"
    <3>1. CASE Add(a)
      <4>1. CASE job[id].st = "none"
        <5>1. job' = [job EXCEPT ![id] = JobIn("waiting")]
          BY <1>9, <3>1, <4>1 DEF Add
        <5>2. job'[id].st = "waiting"
          BY <1>0, <5>1, Types, JobIns
        <5> QED
          BY <1>3, <1>4, <1>9, <5>2
      <4>2. CASE job[id].st # "none"
        <5>1. job'[id].st # "none"
          BY <1>0, <4>2, WorkLeaves
        <5> QED
          BY <1>3, <1>4, <1>9, <5>1
      <4> QED
        BY <4>1, <4>2
    <3>2. CASE ~Add(a)
      <4>1. call[a].at = "took"
        BY <1>6, <1>12, <3>2
        DEF Enqueues, AddRejected, AddInline, InlineTakes, InlineEnds, Points
      <4>2. handled[call[a].d] > 0
        BY <4>1 DEF Kept
      <4> QED
        BY <1>0, <1>3, <1>4, <4>2, WorkLeaves
    <3> QED
      BY <3>1, <3>2
  <2>3. d = call'[a].d
    BY <1>3, <1>8
  <2>4. \A m \in 1..Len(letters) : ~letters[m].redriven =>
          \E c \in Deliveries : c = letters[m].d /\ (~letters'[m].redriven \/ Safe(c)' \/ Anew(m, c))
    BY <1>0, <1>5, Types DEF LetterType
  <2>5. /\ \A c \in Deliveries : event'[c].st = "pending" => event'[c].payload
        /\ \A c \in Deliveries : event'[c].st \in {"dispatched", "failed"} => Secure(c) \/ Secure(c)'
        /\ \A n \in 1..Len(letters') : n \notin 1..Len(letters) => ~letters'[n].redriven
    BY <1>5 DEF Kept
  <2> QED
    BY <1>0, <1>3, <1>7, <2>1, <2>2, <2>3, <2>4, <2>5, WorkOn
<1> QED
  BY <1>11, <1>12

(* The same, of a step that closes no letter. *)
LEMMA WorkQuiet ==
  ASSUME Base, Kept, Work, NEW a \in Callers,
         \A b \in Callers \ {a} : call'[b] = call[b],
         letters' = letters
           \/ (\E e \in Deliveries : Len(letters) < MaxLetters /\ letters' = Append(letters, Letter(e))),
         \A d \in Deliveries : event'[d].st = "pending" => event'[d].payload,
         \A d \in Deliveries : event'[d].st \in {"dispatched", "failed"} => Secure(d) \/ Secure(d)',
         call'[a].at # "took",
         a # "redrive" /\ call'[a].at \in {"ok", "close", "exhaust"} =>
           \E d \in Deliveries : d = call'[a].d /\ (Secure(d) \/ Secure(d)'),
         a = "redrive" /\ call'[a].at \in {"ok", "close"} =>
           handled'[call'[a].d] > 0 \/ job'[call'[a].row].st # "none"
  PROVE  Kept'
<1>0. Typed /\ TypeOK /\ Len(letters) \in Nat /\ \A n \in 1..Len(letters) : letters[n].d \in Deliveries
  BY Types DEF Base, Typed, LetterType
<1>1. /\ \A n \in 1..Len(letters) : letters'[n] = letters[n]
      /\ \A n \in 1..Len(letters') : n \notin 1..Len(letters) => ~letters'[n].redriven
  <2>1. CASE letters' = letters
    BY <2>1
  <2>2. CASE \E e \in Deliveries : Len(letters) < MaxLetters /\ letters' = Append(letters, Letter(e))
    <3>0. PICK e \in Deliveries : Len(letters) < MaxLetters /\ letters' = Append(letters, Letter(e))
      BY <2>2
    <3>1. /\ Len(letters') = Len(letters) + 1 /\ letters'[Len(letters) + 1] = Letter(e)
          /\ \A n \in 1..Len(letters) : letters'[n] = letters[n]
      BY <1>0, <3>0, Appending
    <3>2. \A n \in 1..Len(letters') : n \notin 1..Len(letters) => n = Len(letters) + 1
      BY <1>0, <3>1
    <3>3. ~letters'[Len(letters) + 1].redriven
      BY <3>1 DEF Letter
    <3> QED
      BY <3>1, <3>2, <3>3
  <2> QED
    BY <2>1, <2>2
<1>2. \A m \in 1..Len(letters) : ~letters[m].redriven =>
        \E c \in Deliveries : c = letters[m].d /\ (~letters'[m].redriven \/ Safe(c)' \/ Anew(m, c))
  BY <1>0, <1>1
<1>3. call'[a].at = "took" => handled'[call'[a].d] > 0
  OBVIOUS
<1> QED
  BY <1>1, <1>2, <1>3, WorkOn

(* A request is about its own delivery. *)
Own == \A d \in Deliveries : call[d].at # "idle" => call[d].d = d

LEMMA OwnStep == ASSUME Base, Own, [Next]_vars PROVE Own'
<1>0. Typed /\ TypeOK /\ call \in [Callers -> CallType] /\ Deliveries \subseteq Callers
  BY Types, Constant DEF Base, Typed
<1> SUFFICES ASSUME NEW d \in Deliveries, call'[d].at # "idle" PROVE call'[d].d = d
  BY DEF Own
<1>1. CASE \E a \in Callers : Enqueues(a)
  <2>1. PICK a \in Callers : Enqueues(a)
    BY <1>1
  <2>2. PICK p \in {"ok", "inline", "took", "failed"} : Goto(a, p)
    BY <2>1 DEF Enqueues, Add, AddRejected, AddInline, InlineTakes, InlineEnds
  <2>3. call[a].at # "idle"
    BY <2>1 DEF Enqueues, Add, AddRejected, AddInline, InlineTakes, InlineEnds
  <2>4. call'[a].d = call[a].d /\ \A b \in Callers \ {a} : call'[b] = call[b]
    BY <1>0, <2>2, <2>3, Going DEF Points
  <2> QED
    BY <1>0, <2>3, <2>4 DEF Own
<1>2. CASE \E e \in Deliveries : Requests(e)
  <2>1. PICK e \in Deliveries : Requests(e)
    BY <1>2
  <2>2. CASE Receive(e)
    <3>1. call' = [call EXCEPT ![e] = [Idle EXCEPT !.at = "add", !.d = e]]
      BY <2>2 DEF Receive
    <3>2. [Idle EXCEPT !.at = "add", !.d = e].d = e
      BY DEF Idle
    <3>3. call'[e].d = e /\ \A b \in Callers \ {e} : call'[b] = call[b]
      BY <1>0, <3>1, <3>2
    <3> QED
      BY <1>0, <3>3 DEF Own
  <2>3. CASE MarkDispatched(e) \/ SaveLetter(e)
    <3>1. call'[e].at = "idle" /\ \A b \in Callers \ {e} : call'[b] = call[b]
      BY <1>0, <2>3, Stopping DEF MarkDispatched, SaveLetter
    <3> QED
      BY <1>0, <3>1 DEF Own
  <2>4. CASE MarkFailed(e)
    <3>1. call'[e].d = call[e].d /\ call[e].at # "idle" /\ \A b \in Callers \ {e} : call'[b] = call[b]
      BY <1>0, <2>4, Going DEF MarkFailed, Points
    <3> QED
      BY <1>0, <3>1 DEF Own
  <2>5. CASE MarkLost(e)
    <3>1. /\ \A b \in Callers \ {e} : call'[b] = call[b]
          /\ call[e].at # "idle"
          /\ call'[e].at = "idle" \/ call'[e].d = call[e].d
      BY <1>0, <2>5, Going, Stopping DEF MarkLost, Points
    <3> QED
      BY <1>0, <3>1 DEF Own
  <2>6. CASE Age(e)
    BY <2>6 DEF Age, Own
  <2> QED
    BY <2>1, <2>2, <2>3, <2>4, <2>5, <2>6 DEF Requests
<1>3. CASE SweepSteps
  <2>1. d # "sweep"
    BY Constant
  <2>2. call'[d] = call[d]
    BY <1>0, <1>3, <2>1
    DEF SweepSteps, SweepStart, SweepRow, SweepMark, SweepClose, SweepRetry,
        SweepCount, SweepLetter,
       SweepExhaust, SweepLost, Goto, Rest
  <2> QED
    BY <2>2 DEF Own
<1>4. CASE RedriveSteps
  <2>1. d # "redrive"
    BY Constant
  <2>2. call'[d] = call[d]
    BY <1>0, <1>4, <2>1
    DEF RedriveSteps, RedriveStart, RedriveRow, RedriveRetire, RedriveClose,
        RedriveFailed, RedriveLost,
       Goto, Rest
  <2> QED
    BY <2>2 DEF Own
<1>5. CASE (\E id \in JobIds : Jobs(id)) \/ SetEnabled \/ UNCHANGED vars
  <2>1. call' = call
    BY <1>5
    DEF Jobs, Take, Start, JobTakes, JobEnds, JobFails, JobLetter, JobLetterLost,
        SetEnabled, vars
  <2> QED
    BY <2>1 DEF Own
<1>6. CASE Crash
  <2>1. call'[d].at = "idle"
    BY <1>0, <1>6 DEF Crash, Idle
  <2> QED
    BY <2>1
<1> QED
  BY <1>1, <1>2, <1>3, <1>4, <1>5, <1>6, Sorted DEF Work

LEMMA KeptRequest == ASSUME Base, Own, Kept, NEW d \in Deliveries, Requests(d) PROVE Kept'
<1>0. Typed /\ TypeOK /\ Work /\ d \in Callers /\ d # "redrive" /\ event \in [Deliveries -> EventType]
  BY Types, Constant DEF Base, Typed, Work
<1>1. letters' = letters \/ (Len(letters) < MaxLetters /\ letters' = Append(letters, Letter(d)))
  BY <1>0, LettersStay
<1>2. /\ \A b \in Callers \ {d} : call'[b] = call[b]
      /\ call'[d].at \in {"idle", "add", "letter"}
  <2>1. CASE Receive(d)
    <3>1. call \in [Callers -> CallType]
      BY <1>0, Types
    <3>2. [Idle EXCEPT !.at = "add", !.d = d].at = "add"
      BY DEF Idle
    <3>3. call' = [call EXCEPT ![d] = [Idle EXCEPT !.at = "add", !.d = d]]
      BY <2>1 DEF Receive
    <3>4. /\ \A b \in Callers \ {d} : call'[b] = call[b]
          /\ call'[d].at = "add"
      BY <1>0, <3>1, <3>2, <3>3
    <3> QED
      BY <3>4
  <2>2. CASE MarkDispatched(d) \/ SaveLetter(d)
    BY <1>0, <2>2, Stopping DEF MarkDispatched, SaveLetter
  <2>3. CASE MarkFailed(d)
    BY <1>0, <2>3, Going DEF MarkFailed, Points
  <2>4. CASE MarkLost(d)
    BY <1>0, <2>4, Going, Stopping DEF MarkLost, Points
  <2>5. CASE Age(d)
    BY <1>0, <2>5 DEF Age, Own, Busy
  <2> QED
    BY <2>1, <2>2, <2>3, <2>4, <2>5 DEF Requests
<1>3. \A c \in Deliveries : \/ event'[c] = event[c]
                            \/ event'[c].st = event[c].st /\ event'[c].payload = event[c].payload
                            \/ event'[c].st = "pending" /\ event'[c].payload
                            \/ event'[c].st = "dispatched" /\ Secure(c)
  <2>1. CASE Receive(d)
    BY <1>0, <2>1 DEF Receive
  <2>2. CASE MarkDispatched(d)
    <3>1. Secure(d)
      <4>1. call[d].d = d
        BY <2>2 DEF Own, MarkDispatched
      <4> QED
        BY <1>0, <2>2, <4>1 DEF Kept, MarkDispatched
    <3>2. event'[d].st = "dispatched" /\ \A c \in Deliveries \ {d} : event'[c] = event[c]
      BY <1>0, <2>2 DEF MarkDispatched, EventType
    <3> QED
      BY <3>1, <3>2
  <2>3. CASE MarkFailed(d) \/ Age(d)
    <3>1. \A c \in Deliveries : event'[c].st = event[c].st /\ event'[c].payload = event[c].payload
      BY <1>0, <2>3 DEF MarkFailed, Age, EventType
    <3> QED
      BY <3>1
  <2>4. CASE SaveLetter(d) \/ MarkLost(d)
    BY <2>4 DEF SaveLetter, MarkLost, rows
  <2> QED
    BY <2>1, <2>2, <2>3, <2>4 DEF Requests
<1>4. ASSUME NEW c \in Deliveries
      PROVE  /\ event'[c].st = "pending" => event'[c].payload
             /\ event'[c].st \in {"dispatched", "failed"} => Secure(c)
  <2>1. /\ event[c].st = "pending" => event[c].payload
        /\ event[c].st \in {"dispatched", "failed"} => Secure(c)
    BY DEF Kept
  <2> QED
    BY <1>3, <2>1
<1>5. call'[d].at # "took" /\ ~(call'[d].at \in {"ok", "close", "exhaust"})
  BY <1>2
<1> QED
  BY <1>0, <1>1, <1>2, <1>4, <1>5, WorkQuiet

LEMMA KeptSweep == ASSUME Base, Kept, SweepSteps PROVE Kept'
<1>0. /\ Typed /\ TypeOK /\ Work /\ "sweep" \in Callers /\ "sweep" # "redrive"
      /\ event \in [Deliveries -> EventType] /\ call \in [Callers -> CallType]
      /\ call["sweep"].at # "idle" => Deal \in Deliveries
  BY Types, Constant DEF Base, Typed, Work, Deal
<1>1. \A b \in Callers \ {"sweep"} : call'[b] = call[b]
  BY <1>0
  DEF SweepSteps, SweepStart, SweepRow, SweepMark, SweepClose, SweepRetry,
      SweepCount, SweepLetter,
     SweepExhaust, SweepLost, Goto, Rest
<1>e. ASSUME event' = event
      PROVE  /\ \A c \in Deliveries : event'[c].st = "pending" => event'[c].payload
             /\ \A c \in Deliveries : event'[c].st \in {"dispatched", "failed"} => Secure(c)
  BY <1>e DEF Kept
<1>i. ASSUME call'["sweep"].at \in {"idle", "add", "letter"}
      PROVE  call'["sweep"].at # "took" /\ ~(call'["sweep"].at \in {"ok", "close", "exhaust"})
  BY <1>i
<1>2. CASE SweepStart \/ SweepRow
  <2>1. call'["sweep"].at \in {"idle", "add"}
    <3>1. CASE SweepStart
      BY <3>1 DEF SweepStart
    <3>2. CASE SweepRow
      <4>1. call' = call \/ \E s \in swept :
              call' = [call EXCEPT !["sweep"] = [at |-> "add", d |-> s.d, tries |-> s.tries, row |-> 0]]
        BY <3>2 DEF SweepRow
      <4> QED
        BY <1>0, <3>2, <4>1 DEF SweepRow
    <3> QED
      BY <1>2, <3>1, <3>2
  <2>2. event' = event /\ letters' = letters
    BY <1>2 DEF SweepStart, SweepRow, rows
  <2> QED
    BY <1>0, <1>1, <1>e, <1>i, <2>1, <2>2, WorkQuiet
<1>3. CASE SweepMark
  <2>1. call["sweep"].at = "ok" /\ Secure(Deal) /\ Deal \in Deliveries /\ letters' = letters
    BY <1>0, <1>3 DEF SweepMark, Kept, Deal
  <2>2. call'["sweep"].at = "close" /\ call'["sweep"].d = Deal
    BY <1>0, <1>3, Going DEF SweepMark, Points, Deal
  <2>3. /\ event'[Deal].st = "dispatched"
        /\ \A c \in Deliveries \ {Deal} : event'[c] = event[c]
    BY <1>0, <1>3, <2>1 DEF SweepMark, EventType
  <2>4. /\ \A c \in Deliveries : event'[c].st = "pending" => event'[c].payload
        /\ \A c \in Deliveries : event'[c].st \in {"dispatched", "failed"} => Secure(c)
    BY <2>1, <2>3 DEF Kept
  <2>5. \E d \in Deliveries : d = call'["sweep"].d /\ Secure(d)
    BY <2>1, <2>2
  <2> QED
    BY <1>0, <1>1, <2>1, <2>2, <2>4, <2>5, WorkQuiet
<1>4. CASE SweepRetry \/ SweepLost
  <2>1. call'["sweep"].at = "idle" /\ letters' = letters
    BY <1>0, <1>4, Stopping DEF SweepRetry, SweepLost, rows
  <2>2. \A c \in Deliveries : event'[c].st = event[c].st /\ event'[c].payload = event[c].payload
    <3>1. CASE SweepLost
      BY <3>1 DEF SweepLost, rows
    <3>2. CASE SweepRetry
      <4>1. Deal \in Deliveries
        BY <1>0, <3>2 DEF SweepRetry
      <4>2. event' = [event EXCEPT ![Deal] = [event[Deal] EXCEPT !.attempts = call["sweep"].tries + 1, !.fresh = TRUE]]
        BY <3>2 DEF SweepRetry
      <4> QED
        BY <1>0, <4>1, <4>2 DEF EventType
    <3> QED
      BY <1>4, <3>1, <3>2
  <2>3. /\ \A c \in Deliveries : event'[c].st = "pending" => event'[c].payload
        /\ \A c \in Deliveries : event'[c].st \in {"dispatched", "failed"} => Secure(c)
    BY <2>2 DEF Kept
  <2> QED
    BY <1>0, <1>1, <1>i, <2>1, <2>3, WorkQuiet
<1>5. CASE SweepCount
  <2>1. /\ call["sweep"].at = "failed" /\ event' = event /\ letters' = letters /\ Deal \in Deliveries
        /\ DOMAIN letters = 1..Len(letters)
    BY <1>0, <1>5, Types DEF SweepCount, rows
  <2>2. CASE \E n \in DOMAIN letters : letters[n].d = Deal
    <3>1. Goto("sweep", "exhaust")
      BY <1>5, <2>2 DEF SweepCount
    <3>2. call'["sweep"].at = "exhaust" /\ call'["sweep"].d = Deal
      BY <1>0, <2>1, <3>1, Going DEF Points, Deal
    <3>3. Secure(Deal)
      BY <2>1, <2>2 DEF Kept
    <3>4. \E d \in Deliveries : d = call'["sweep"].d /\ Secure(d)
      BY <2>1, <3>2, <3>3
    <3> QED
      BY <1>0, <1>1, <1>e, <2>1, <3>2, <3>4, WorkQuiet
  <2>3. CASE ~\E n \in DOMAIN letters : letters[n].d = Deal
    <3>1. Goto("sweep", "letter")
      BY <1>5, <2>3 DEF SweepCount
    <3>2. call'["sweep"].at = "letter"
      BY <1>0, <2>1, <3>1, Going DEF Points
    <3> QED
      BY <1>0, <1>1, <1>e, <1>i, <2>1, <3>2, WorkQuiet
  <2> QED
    BY <2>2, <2>3
<1>6. CASE SweepLetter
  <2>1. /\ call["sweep"].at = "letter" /\ event' = event /\ Deal \in Deliveries
        /\ Len(letters) < MaxLetters /\ letters' = Append(letters, Letter(Deal))
    BY <1>0, <1>6 DEF SweepLetter
  <2>2. call'["sweep"].at = "exhaust" /\ call'["sweep"].d = Deal
    BY <1>0, <1>6, <2>1, Going DEF SweepLetter, Points, Deal
  <2>3. PICK d \in Deliveries : d = Deal
    BY <2>1
  <2>4. Open(d)'
    <3>1. letters'[Len(letters) + 1] = Letter(d) /\ Len(letters') = Len(letters) + 1 /\ letters' \in Seq(LetterType)
      BY <1>0, <2>1, <2>3, Appending
    <3>2. Len(letters) + 1 \in DOMAIN letters'
      BY <1>0, <3>1, Types
    <3>3. letters'[Len(letters) + 1] = [d |-> d, redriven |-> FALSE]
      BY <3>1 DEF Letter
    <3> QED
      BY <3>2, <3>3 DEF Open
  <2>5. \E e \in Deliveries : e = call'["sweep"].d /\ (Secure(e) \/ Secure(e)')
    BY <2>2, <2>3, <2>4 DEF Secure
  <2> QED
    BY <1>0, <1>1, <1>e, <2>1, <2>2, <2>5, WorkQuiet
<1>7. CASE SweepExhaust
  <2>1. call["sweep"].at = "exhaust" /\ Secure(Deal) /\ Deal \in Deliveries /\ letters' = letters
    BY <1>0, <1>7 DEF SweepExhaust, Kept, Deal
  <2>2. call'["sweep"].at = "idle"
    BY <1>0, <1>7, Stopping DEF SweepExhaust
  <2>3. /\ event'[Deal].st = "failed"
        /\ \A c \in Deliveries \ {Deal} : event'[c] = event[c]
    BY <1>0, <1>7, <2>1 DEF SweepExhaust
  <2>4. /\ \A c \in Deliveries : event'[c].st = "pending" => event'[c].payload
        /\ \A c \in Deliveries : event'[c].st \in {"dispatched", "failed"} => Secure(c)
    BY <2>1, <2>3 DEF Kept
  <2> QED
    BY <1>0, <1>1, <1>i, <2>1, <2>2, <2>4, WorkQuiet
<1>8. CASE SweepClose
  <2>1. call["sweep"].at = "close" /\ event' = event /\ handled' = handled /\ DOMAIN letters = 1..Len(letters)
    BY <1>0, <1>8, Types DEF SweepClose
  <2>2. PICK d \in Deliveries : d = Deal
    BY <1>0, <2>1
  <2>3. call'["sweep"].at = "idle"
    BY <1>0, <1>8, Stopping DEF SweepClose
  <2>4. letters' = [n \in 1..Len(letters) |->
          IF letters[n].d = d THEN [letters[n] EXCEPT !.redriven = TRUE] ELSE letters[n]]
    BY <1>8, <2>1, <2>2 DEF SweepClose
  <2>5. Open(d) => Safe(d)'
    <3>1. CASE handled[d] > 0
      BY <2>1, <3>1 DEF Safe
    <3>2. CASE AliveFor(d)
      BY <1>0, <3>2, WorkAlive
    <3>3. CASE Open(d) /\ handled[d] = 0 /\ ~AliveFor(d)
      <4>1. d \in forfeited'
        BY <1>8, <2>2, <3>3 DEF SweepClose, AliveFor
      <4> QED
        BY <4>1 DEF Safe
    <3>4. handled[d] \in 0..2
      BY <1>0 DEF TypeOK
    <3> QED
      BY <3>1, <3>2, <3>3, <3>4
  <2>6. ASSUME NEW m \in 1..Len(letters), ~letters[m].redriven
        PROVE  \E c \in Deliveries : c = letters[m].d /\ (~letters'[m].redriven \/ Safe(c)' \/ Anew(m, c))
    <3>1. letters[m].d \in Deliveries
      BY <1>0, Types DEF LetterType
    <3>2. CASE letters[m].d = d
      <4>1. Open(d)
        BY <1>0, <2>6, <3>2, OpenIs
      <4> QED
        BY <2>5, <3>2, <4>1
    <3>3. CASE letters[m].d # d
      <4>1. letters'[m] = letters[m]
        BY <2>4, <3>3
      <4> QED
        BY <2>6, <3>1, <4>1
    <3> QED
      BY <3>2, <3>3
  <2>7. \A n \in 1..Len(letters') : n \notin 1..Len(letters) => ~letters'[n].redriven
    <3>1. Len(letters') = Len(letters)
      <4>1. DOMAIN letters' = 1..Len(letters) /\ Len(letters) \in Nat
        BY <1>0, <2>4, Types
      <4>2. letters' \in Seq(LetterType)
        BY <1>0, <1>8, TypedSweep DEF Typed, TypeOK, LetterType
      <4>3. DOMAIN letters' = 1..Len(letters') /\ Len(letters') \in Nat
        BY <4>2
      <4> QED
        BY <4>1, <4>3
    <3> QED
      BY <3>1
  <2>8. call'["sweep"].at # "took" /\ ~(call'["sweep"].at \in {"ok", "close", "exhaust"})
    BY <2>3
  <2> QED
    BY <1>0, <1>1, <1>e, <2>1, <2>6, <2>7, <2>8, WorkOn
<1> QED
  BY <1>2, <1>3, <1>4, <1>5, <1>6, <1>7, <1>8 DEF SweepSteps

LEMMA KeptRedrive == ASSUME Base, Kept, RedriveSteps PROVE Kept'
<1>0. /\ Typed /\ TypeOK /\ Work /\ "redrive" \in Callers
      /\ event \in [Deliveries -> EventType] /\ call \in [Callers -> CallType]
      /\ call["redrive"].at # "idle" => call["redrive"].d \in Deliveries
  BY Types, Constant DEF Base, Typed, Work
<1>1. \A b \in Callers \ {"redrive"} : call'[b] = call[b]
  BY <1>0
  DEF RedriveSteps, RedriveStart, RedriveRow, RedriveRetire, RedriveClose,
      RedriveFailed, RedriveLost, Goto, Rest
<1>e. ASSUME event' = event
      PROVE  /\ \A c \in Deliveries : event'[c].st = "pending" => event'[c].payload
             /\ \A c \in Deliveries : event'[c].st \in {"dispatched", "failed"} => Secure(c)
  BY <1>e DEF Kept
<1>2. CASE RedriveStart \/ RedriveRow \/ RedriveFailed \/ RedriveLost
  <2>1. call'["redrive"].at \in {"idle", "add"}
    <3>1. CASE RedriveStart
      BY <3>1 DEF RedriveStart
    <3>2. CASE RedriveRow
      <4>1. \E n \in picked :
              call' = [call EXCEPT !["redrive"] = [at |-> "add", d |-> letters[n].d, tries |-> 0, row |-> n]]
        BY <3>2 DEF RedriveRow
      <4> QED
        BY <1>0, <4>1
    <3>3. CASE RedriveFailed \/ RedriveLost
      BY <1>0, <3>3, Stopping DEF RedriveFailed, RedriveLost
    <3> QED
      BY <1>2, <3>1, <3>2, <3>3
  <2>2. event' = event /\ letters' = letters
    BY <1>2 DEF RedriveStart, RedriveRow, RedriveFailed, RedriveLost, rows
  <2>3. call'["redrive"].at # "took" /\ ~(call'["redrive"].at \in {"ok", "close", "exhaust"})
    BY <2>1
  <2> QED
    BY <1>0, <1>1, <1>e, <2>2, <2>3, WorkQuiet
<1>3. CASE RedriveRetire
  <2>1. call["redrive"].at = "ok" /\ letters' = letters /\ handled' = handled /\ job' = job
    BY <1>3 DEF RedriveRetire, queue, history
  <2>2. /\ call'["redrive"].at = "close" /\ call'["redrive"].d = call["redrive"].d
        /\ call'["redrive"].row = call["redrive"].row
    BY <1>0, <1>3, <2>1, Going DEF RedriveRetire, Points
  <2>3. PICK d \in Deliveries : d = call["redrive"].d
    BY <1>0, <2>1
  <2>4. handled[d] > 0 \/ job[call["redrive"].row].st # "none"
    BY <2>1, <2>3 DEF Kept
  <2>5. Secure(d)
    BY <1>0, <2>1, <2>3 DEF Typed, RowHeld, Kept
  <2>6. /\ event[d].st # "pending" => event' = event
        /\ event[d].st = "pending" =>
             event' = [event EXCEPT ![d] = [event[d] EXCEPT !.st = "dispatched", !.payload = FALSE, !.fresh = TRUE]]
    BY <1>3, <2>3 DEF RedriveRetire
  <2>7. \A c \in Deliveries : event'[c] = event[c] \/ (event'[c].st = "dispatched" /\ Secure(c))
    <3>1. CASE event[d].st # "pending"
      BY <2>6, <3>1
    <3>2. CASE event[d].st = "pending"
      <4>1. event'[d].st = "dispatched" /\ \A c \in Deliveries \ {d} : event'[c] = event[c]
        BY <1>0, <2>6, <3>2 DEF EventType
      <4> QED
        BY <2>5, <4>1
    <3> QED
      BY <3>1, <3>2
  <2>8. /\ \A c \in Deliveries : event'[c].st = "pending" => event'[c].payload
        /\ \A c \in Deliveries : event'[c].st \in {"dispatched", "failed"} => Secure(c)
    BY <2>7 DEF Kept
  <2>9. handled'[call'["redrive"].d] > 0 \/ job'[call'["redrive"].row].st # "none"
    BY <2>1, <2>2, <2>3, <2>4
  <2> QED
    BY <1>0, <1>1, <2>1, <2>2, <2>8, <2>9, WorkQuiet
<1>4. CASE RedriveClose
  <2>1. call["redrive"].at = "close" /\ event' = event
    BY <1>4 DEF RedriveClose
  <2>2. call'["redrive"].at = "idle"
    BY <1>0, <1>4, Stopping DEF RedriveClose
  <2>3. PICK r \in 1..Len(letters) : r = call["redrive"].row /\ letters[r].d = call["redrive"].d
    BY <1>0, <2>1 DEF Typed, RowHeld
  <2>4. PICK d \in Deliveries : d = letters[r].d
    BY <1>0, <2>1, <2>3
  <2>5. letters' = [letters EXCEPT ![r].redriven = TRUE] /\ DOMAIN letters = 1..Len(letters)
    BY <1>0, <1>4, <2>3, Types DEF RedriveClose
  <2>6. \A m \in 1..Len(letters) : m # r => letters'[m] = letters[m]
    BY <2>5
  <2>7. Len(letters') = Len(letters)
    <3>1. DOMAIN letters' = 1..Len(letters) /\ Len(letters) \in Nat
      BY <1>0, <2>5, Types
    <3>2. letters' \in Seq(LetterType)
      BY <1>0, <1>4, TypedRedrive DEF RedriveSteps, Typed, TypeOK, LetterType
    <3>3. DOMAIN letters' = 1..Len(letters') /\ Len(letters') \in Nat
      BY <3>2
    <3> QED
      BY <3>1, <3>3
  <2>8. Safe(d)' \/ Anew(r, d)
    <3>1. handled[d] > 0 \/ Beyond(r)
      BY <2>1, <2>3, <2>4 DEF Kept
    <3>2. CASE d \in forfeited \/ handled[d] > 0
      BY <3>2, <1>0, WorkLeaves DEF Safe
    <3>3. CASE AliveFor(d)
      BY <1>0, <3>3, WorkAlive
    <3>4. CASE Later(r)
      <4>1. PICK m \in 1..Len(letters) : m > r /\ letters[m].d = d /\ ~letters[m].redriven
        BY <2>4, <3>4 DEF Later
      <4>2. m # r /\ m \in 1..Len(letters')
        BY <2>7, <4>1
      <4> QED
        BY <2>6, <4>1, <4>2 DEF Anew
    <3> QED
      BY <2>4, <3>1, <3>2, <3>3, <3>4 DEF Beyond, Safe
  <2>9. ASSUME NEW m \in 1..Len(letters), ~letters[m].redriven
        PROVE  \E c \in Deliveries : c = letters[m].d /\ (~letters'[m].redriven \/ Safe(c)' \/ Anew(m, c))
    <3>1. letters[m].d \in Deliveries
      BY <1>0, Types DEF LetterType
    <3>2. CASE m = r
      BY <2>4, <2>8, <3>2
    <3>3. CASE m # r
      BY <2>6, <2>9, <3>1, <3>3
    <3> QED
      BY <3>2, <3>3
  <2>10. \A n \in 1..Len(letters') : n \notin 1..Len(letters) => ~letters'[n].redriven
    BY <2>7
  <2>11. call'["redrive"].at # "took" /\ ~(call'["redrive"].at \in {"ok", "close", "exhaust"})
    BY <2>2
  <2> QED
    BY <1>0, <1>1, <1>e, <2>1, <2>9, <2>10, <2>11, WorkOn
<1> QED
  BY <1>2, <1>3, <1>4 DEF RedriveSteps

(* A crash leaves rows and jobs; a job that was being run waits again, or is *)
(* lost and its delivery handled or given up.                                *)
LEMMA KeptCrash == ASSUME Base, Kept, Crash PROVE Kept'
<1>0. Typed /\ TypeOK /\ Base' /\ job \in [JobIds -> JobType] /\ Len(letters) \in Nat
  BY BaseCrash, Types DEF Base, Typed
<1>1. /\ UNCHANGED <<event, letters, handled>> /\ forfeited \subseteq forfeited'
      /\ \A c \in Doomed : About(c) \in Deliveries => handled[About(c)] # 0 \/ About(c) \in forfeited'
  BY DEF Crash, rows
<1>2. \A c \in JobIds : \/ job'[c] = job[c] /\ job[c].st \notin Active
                        \/ job'[c].st = "waiting" /\ job[c].st \in Active
                        \/ job'[c].st = "failed" /\ c \in Doomed
  <2> SUFFICES ASSUME NEW c \in JobIds
               PROVE  \/ job'[c] = job[c] /\ job[c].st \notin Active
                      \/ job'[c].st = "waiting" /\ job[c].st \in Active
                      \/ job'[c].st = "failed" /\ c \in Doomed
    OBVIOUS
  <2>1. CASE c \in Doomed
    BY <2>1, JobIns DEF Crash
  <2>2. CASE c \notin Doomed
    <3>1. /\ job[c].st \in Active => job'[c] = [job[c] EXCEPT !.st = "waiting", !.stalls = @ + 1]
          /\ job[c].st \notin Active => job'[c] = job[c]
      BY <2>2 DEF Crash
    <3> QED
      BY <1>0, <3>1 DEF JobType
  <2> QED
    BY <2>1, <2>2
<1>3. ASSUME NEW d \in Deliveries, AliveFor(d)
      PROVE  Safe(d)'
  <2>1. PICK c \in JobIds : Alive(c) /\ About(c) = d
    BY <1>3 DEF AliveFor
  <2>2. CASE c \in Doomed
    <3>1. handled[d] # 0 \/ d \in forfeited'
      BY <1>1, <2>1, <2>2
    <3>2. handled[d] \in 0..2
      BY <1>0 DEF TypeOK
    <3> QED
      BY <1>1, <3>1, <3>2 DEF Safe
  <2>3. CASE c \notin Doomed
    <3>1. Alive(c)'
      BY <1>2, <2>1, <2>3 DEF Alive
    <3> QED
      BY <1>1, <2>1, <3>1, AliveOn
  <2> QED
    BY <2>2, <2>3
<1>4. Onward
  BY <1>0, <1>1, <1>3 DEF Onward
<1>5. \A a \in Callers : call'[a].at = "idle"
  BY DEF Crash, Idle
<1>6. \A c \in JobIds : job'[c].st # "none" => job[c].st # "none" \/ job'[c].st = "waiting"
  BY <1>2 DEF Doomed, Active
<1>7. \A c \in JobIds : job'[c].st = "took" => job[c].st = "took"
  BY <1>2
<1>8. /\ \A c \in Deliveries : event'[c].st = "pending" => event'[c].payload
      /\ \A c \in Deliveries : event'[c].st \in {"dispatched", "failed"} => Secure(c)
  BY <1>1 DEF Kept
<1>9. /\ \A a \in Callers : call'[a].at = "took" => handled'[call'[a].d] > 0
      /\ \A a \in Callers : a # "redrive" /\ call'[a].at \in {"ok", "close", "exhaust"} =>
           \E d \in Deliveries : d = call'[a].d /\ (Secure(d) \/ Secure(d)')
      /\ call'["redrive"].at \in {"ok", "close"} =>
           handled'[call'["redrive"].d] > 0 \/ job'[call'["redrive"].row].st # "none"
  BY <1>5, Constant
<1>10. \A n \in 1..Len(letters') : n \notin 1..Len(letters) => ~letters'[n].redriven
  BY <1>1
<1> QED
  BY <1>0, <1>4, <1>6, <1>7, <1>8, <1>9, <1>10, KeptOn

LEMMA KeptIdle == ASSUME Kept, SetEnabled \/ UNCHANGED vars PROVE Kept'
<1>1. UNCHANGED <<event, letters, job, call, handled, forfeited>>
  BY DEF SetEnabled, vars, rows, queue, history
<1> QED
  BY <1>1 DEF Kept, Secure, Safe, Beyond, Later, AliveFor, Alive, About, Open

LEMMA KeptInit == Init => Own /\ Kept
<1> SUFFICES ASSUME Init PROVE Own /\ Kept
  OBVIOUS
<1>1. letters = <<>> /\ Len(letters) = 0 /\ \A n \in 1..Len(letters) : FALSE
  BY DEF Init
<1>2. \A a \in Callers : call[a].at = "idle"
  BY DEF Init, Idle
<1>3. \A c \in JobIds : job[c].st = "none"
  BY JobIns DEF Init
<1>4. \A d \in Deliveries : event[d].st = "none"
  BY DEF Init
<1> QED
  BY <1>1, <1>2, <1>3, <1>4, Constant DEF Own, Kept

LEMMA KeptStep == ASSUME Base, Own, Kept, [Next]_vars PROVE Kept'
BY Sorted, BaseWork, BaseStep, KeptEnqueue, KeptRequest, KeptSweep, KeptRedrive,
   KeptJobs, KeptCrash, KeptIdle
DEF Work

(* A delivery that was recorded has been handled, or is still where it will be
   taken from, at every await and after any crash, for any number of
   deliveries, budgets and faults, outside the three named losses (a refused
   dead letter, a letter closed by a sweep, a job that stalls a second time):
   what a step takes away from a delivery it has replaced before. *)
THEOREM NothingIsLost == Spec => []NothingLost
<1>1. Base /\ Kept => NothingLost
  <2> SUFFICES ASSUME Base, Kept, NEW d \in Deliveries \ forfeited, event[d].st # "none"
               PROVE  \/ handled[d] > 0
                      \/ event[d].st = "pending" /\ event[d].payload
                      \/ Open(d)
                      \/ \E id \in JobIds : Alive(id) /\ About(id) = d
    BY DEF NothingLost
  <2>1. event[d].st \in {"pending", "dispatched", "failed"}
    BY DEF Base, Typed, TypeOK, States
  <2> QED
    BY <2>1 DEF Kept, Secure, Safe, AliveFor
<1>2. Init => Base /\ Own /\ Kept
  BY BaseInit, KeptInit
<1>3. Base /\ Own /\ Kept /\ [Next]_vars => (Base /\ Own /\ Kept)'
  BY BaseStep, OwnStep, KeptStep
<1> QED
  BY <1>1, <1>2, <1>3, PTL DEF Spec

-----------------------------------------------------------------------------
(* Whose turn it is to dispatch a delivery *)

(* Where a caller is with a delivery. *)
At(a, d) == IF Busy(a, d) THEN call[a].at ELSE "idle"

(* Awaits before a dispatch, or after one that failed; awaits after one that
   was made. *)
Before == {"add", "inline", "failed", "letter", "exhaust"}
After  == {"took", "ok", "close"}

Lettered(d)  == \E n \in 1..Len(letters) : letters[n].d = d
Sweeping(d)  == At("sweep", d) # "idle" \/ \E s \in swept : s.d = d
Redriving(d) == At("redrive", d) # "idle" \/ \E n \in picked : letters[n].d = d

(* The plugin has not had the delivery, and no job will hand it over. *)
Untaken(d) == handled[d] = 0 /\ ~AliveFor(d)

(* A letter that is open, but for the one a redrive has dispatched. *)
Loose(n, d) ==
  letters[n] = Letter(d) /\ ~(At("redrive", d) \in After /\ call["redrive"].row = n)

Single(d) ==
  /\ handled[d] <= 1
  /\ \A i, j \in JobIds : Alive(i) /\ Alive(j) /\ About(i) = d /\ About(j) = d => i = j
  /\ \A i \in JobIds : Alive(i) /\ About(i) = d /\ job[i].st # "took" => handled[d] = 0

Claims(d) ==
  /\ \A a \in Callers : At(a, d) \in Before => Untaken(d)
  /\ \A a \in Callers : At(a, d) = "took" => ~AliveFor(d)

RowOf(d) ==
  /\ event[d].st = "none" => Untaken(d) /\ ~Lettered(d) /\ At(d, d) = "idle"
  /\ event[d].st = "pending" /\ At(d, d) = "idle" /\ At("sweep", d) \notin After
       /\ At("redrive", d) \notin After => Untaken(d)
  /\ event[d].st = "pending" /\ ~event[d].fresh => At(d, d) = "idle"
  /\ At(d, d) \in Before \cup {"took"} => ~Lettered(d)

SweepOf(d) ==
  /\ Sweeping(d) => /\ At(d, d) = "idle" /\ ~Redriving(d)
                    /\ event[d].st = IF At("sweep", d) = "close" THEN "dispatched" ELSE "pending"
  /\ At("sweep", d) = "letter" => ~Lettered(d)
  /\ \A s \in swept : s.d = d => At("sweep", d) = "idle"
  /\ \A s, t \in swept : s.d = d /\ t.d = d => s = t

RedriveOf(d) ==
  /\ At("redrive", d) = "close" => event[d].st # "pending"
  /\ At("redrive", d) # "idle" => letters[call["redrive"].row] = Letter(d)
  /\ \A n \in picked : letters[n].d = d => letters[n] = Letter(d) /\ At("redrive", d) = "idle"

LettersOf(d) ==
  At("sweep", d) \notin After =>
    /\ \A n \in 1..Len(letters) : Loose(n, d) => Untaken(d)
    /\ \A m, n \in 1..Len(letters) : Loose(m, d) /\ Loose(n, d) => m = n

Turn(d) == Single(d) /\ Claims(d) /\ RowOf(d) /\ SweepOf(d) /\ RedriveOf(d) /\ LettersOf(d)

Turns == \A d \in Deliveries \ raced : Turn(d)

(* What a step leaves of a delivery when it is not about it. *)
JobsShrink(d) ==
  /\ handled'[d] = handled[d]
  /\ \A i \in JobIds : Alive(i)' /\ About(i)' = d =>
       Alive(i) /\ About(i) = d /\ (job[i].st = "took" => job'[i].st = "took")

LettersSame(d) ==
  /\ \A n \in 1..Len(letters) : letters[n].d = d => letters'[n] = letters[n]
  /\ \A n \in 1..Len(letters') : letters'[n].d = d => n \in 1..Len(letters) /\ letters[n].d = d

CallsSame(d) ==
  /\ \A a \in Callers : At(a, d)' = At(a, d)
  /\ At("redrive", d) # "idle" => call'["redrive"].row = call["redrive"].row

BatchesShrink(d) ==
  /\ \A s \in swept' : s.d = d => s \in swept
  /\ \A n \in picked' : letters'[n].d = d => n \in picked /\ letters[n].d = d

LEMMA Shrunk ==
  ASSUME NEW d \in Deliveries, JobsShrink(d)
  PROVE  /\ AliveFor(d)' => AliveFor(d)
         /\ Untaken(d) => Untaken(d)'
         /\ Single(d) => Single(d)'
<1>1. AliveFor(d)' => AliveFor(d)
  BY DEF JobsShrink, AliveFor
<1>2. Untaken(d) => Untaken(d)'
  BY <1>1 DEF Untaken, JobsShrink
<1>3. ASSUME Single(d) PROVE Single(d)'
  BY <1>3 DEF Single, JobsShrink
<1> QED
  BY <1>1, <1>2, <1>3

LEMMA TurnStays ==
  ASSUME Typed, Typed', NEW d \in Deliveries, Turn(d), event'[d] = event[d],
         JobsShrink(d), LettersSame(d), CallsSame(d), BatchesShrink(d)
  PROVE  Turn(d)'
<1>1. AliveFor(d)' => AliveFor(d)
  BY Shrunk
<1>2. Untaken(d) => Untaken(d)'
  BY Shrunk
<1>3. Single(d)'
  BY Shrunk DEF Turn
<1>4. Lettered(d)' => Lettered(d)
  BY DEF LettersSame, Lettered
<1>5. \A a \in Callers : At(a, d)' = At(a, d)
  BY DEF CallsSame
<1>6. d \in Callers /\ "sweep" \in Callers /\ "redrive" \in Callers
  BY Constant
<1>7. At(d, d)' = At(d, d) /\ At("sweep", d)' = At("sweep", d) /\ At("redrive", d)' = At("redrive", d)
  BY <1>5, <1>6
<1>8. ASSUME NEW n \in 1..Len(letters'), letters'[n] = Letter(d)
      PROVE  n \in 1..Len(letters) /\ letters[n] = Letter(d) /\ (Loose(n, d)' => Loose(n, d))
  <2>1. letters'[n].d = d
    BY <1>8 DEF Letter
  <2>2. n \in 1..Len(letters) /\ letters'[n] = letters[n]
    BY <2>1 DEF LettersSame
  <2> QED
    BY <1>7, <1>8, <2>2 DEF Loose, CallsSame, After
<1>9. Sweeping(d)' => Sweeping(d)
  BY <1>7 DEF Sweeping, BatchesShrink
<1>10. Redriving(d)' => Redriving(d)
  BY <1>7 DEF Redriving, BatchesShrink
<1>11. Claims(d)'
  BY <1>1, <1>2, <1>5 DEF Turn, Claims
<1>12. RowOf(d)'
  BY <1>2, <1>4, <1>7 DEF Turn, RowOf
<1>13. SweepOf(d)'
  BY <1>4, <1>7, <1>9, <1>10 DEF Turn, SweepOf, BatchesShrink
<1>14. RedriveOf(d)'
  <2>1. At("redrive", d)' # "idle" => letters'[call'["redrive"].row] = Letter(d)
    <3> SUFFICES ASSUME At("redrive", d)' # "idle" PROVE letters'[call'["redrive"].row] = Letter(d)
      OBVIOUS
    <3>1. At("redrive", d) # "idle" /\ call'["redrive"].row = call["redrive"].row
      BY <1>7 DEF CallsSame
    <3>2. call["redrive"].row \in 1..Len(letters) /\ letters[call["redrive"].row].d = d
      BY <3>1 DEF Typed, RowHeld, At, Busy
    <3>3. letters'[call["redrive"].row] = letters[call["redrive"].row]
      BY <3>2 DEF LettersSame
    <3> QED
      BY <3>1, <3>3 DEF Turn, RedriveOf
  <2>2. ASSUME NEW n \in picked', letters'[n].d = d
        PROVE  letters'[n] = Letter(d) /\ At("redrive", d)' = "idle"
    <3>1. n \in picked /\ letters[n].d = d
      BY <2>2 DEF BatchesShrink
    <3>2. n \in 1..Len(letters)
      BY <3>1 DEF Typed, TypeOK
    <3>3. letters'[n] = letters[n]
      BY <3>1, <3>2 DEF LettersSame
    <3> QED
      BY <1>7, <3>1, <3>3 DEF Turn, RedriveOf
  <2> QED
    BY <1>7, <2>1, <2>2 DEF Turn, RedriveOf
<1>15. LettersOf(d)'
  <2> SUFFICES ASSUME At("sweep", d)' \notin After
               PROVE  /\ \A n \in 1..Len(letters') : Loose(n, d)' => Untaken(d)'
                      /\ \A m, n \in 1..Len(letters') : Loose(m, d)' /\ Loose(n, d)' => m = n
    BY DEF LettersOf
  <2>1. At("sweep", d) \notin After
    BY <1>7
  <2>2. \A n \in 1..Len(letters') : Loose(n, d)' => n \in 1..Len(letters) /\ Loose(n, d)
    BY <1>8 DEF Loose
  <2> QED
    BY <1>2, <2>1, <2>2 DEF Turn, LettersOf
<1> QED
  BY <1>3, <1>11, <1>12, <1>13, <1>14, <1>15 DEF Turn

LEMMA CallsStay ==
  ASSUME call' = call, NEW d \in Deliveries
  PROVE  CallsSame(d)
BY DEF CallsSame, At, Busy

LEMMA BatchesStay ==
  ASSUME Typed, UNCHANGED batches, NEW d \in Deliveries,
         \A n \in 1..Len(letters) : letters'[n].d = letters[n].d
  PROVE  BatchesShrink(d)
<1>1. swept' = swept /\ picked' = picked /\ \A n \in picked : n \in 1..Len(letters)
  BY DEF batches, Typed, TypeOK
<1> QED
  BY <1>1 DEF BatchesShrink

(* A job that is handed over, or that fails for good, was the only one. *)
LEMMA TurnJobs ==
  ASSUME Base, Base', Turns, NEW id \in JobIds, Jobs(id), NEW d \in Deliveries \ raced'
  PROVE  Turn(d)'
<1>0. Typed /\ Typed' /\ TypeOK
  BY DEF Base, Typed
<1>1. /\ job[id].st \in {"waiting"} \cup Active /\ About(id) \in Deliveries /\ id \in JobIds
      /\ \A c \in JobIds \ {id} : job'[c] = job[c]
  BY <1>0, JobStep
<1>2. UNCHANGED <<event, call, swept, picked>> /\ batches' = batches
  BY
  DEF Jobs, Take, Start, JobTakes, JobEnds, JobFails, JobLetter, JobLetterLost,
      config, rows, batches, budget
<1>3. /\ Len(letters) \in Nat /\ Len(letters') \in Nat /\ Len(letters) <= Len(letters')
      /\ \A n \in 1..Len(letters) : letters'[n].d = letters[n].d /\ n \in 1..Len(letters')
  BY <1>0, LettersGrow
<1>4. /\ \A n \in 1..Len(letters) : letters'[n] = letters[n]
      /\ ~JobLetter(id) => letters' = letters
      /\ JobLetter(id) => Len(letters') = Len(letters) + 1 /\ letters'[Len(letters) + 1] = Letter(About(id))
  <2>1. CASE JobLetter(id)
    BY <1>0, <1>1, <2>1, Appending DEF JobLetter
  <2>2. CASE ~JobLetter(id)
    BY <2>2 DEF Jobs, Take, Start, JobTakes, JobEnds, JobFails, JobLetterLost, rows
  <2> QED
    BY <2>1, <2>2
<1>5. d \notin raced /\ Turn(d)
  <2>1. raced \subseteq raced'
    BY
    DEF Jobs, Take, Start, JobTakes, JobEnds, JobFails, JobLetter, JobLetterLost,
        history
  <2> QED
    BY <2>1 DEF Turns
<1>6. CallsSame(d) /\ BatchesShrink(d)
  BY <1>0, <1>2, <1>3, CallsStay, BatchesStay
<1>7. \A i \in JobIds : Alive(i) => About(i)' = About(i)
  BY <1>0, <1>3, AboutKept DEF Alive, Active
<1>8. \A i \in JobIds : Alive(i)' => Alive(i)
  BY <1>1 DEF Alive, Active
<1>9. Alive(id)
  BY <1>1 DEF Alive
<1>10. JobFails(id) /\ job[id].st = "took" => d # About(id)
  BY DEF JobFails
<1>11. ~JobTakes(id) => handled' = handled
  BY DEF Jobs, Take, Start, JobEnds, JobFails, JobLetter, JobLetterLost, history
<1>12. JobTakes(id) => Once(About(id))
  BY DEF JobTakes
<1>13. \A i \in JobIds : Alive(i)' /\ About(i)' = d => Alive(i) /\ About(i) = d
  BY <1>7, <1>8
<1>14. CASE JobTakes(id) /\ d = About(id)
  <2>1. job'[id].st = "took" /\ job[id].st = "running" /\ letters' = letters
    BY <1>0, <1>4, <1>14, JobStep DEF JobTakes, rows
  <2>2. handled[d] = 0
    BY <1>5, <1>9, <1>14, <2>1 DEF Turn, Single
  <2>3. handled'[d] = 1
    BY <1>0, <1>12, <1>14, <2>2 DEF Once, TypeOK
  <2>4. Single(d)'
    <3>1. \A i, j \in JobIds : Alive(i)' /\ Alive(j)' /\ About(i)' = d /\ About(j)' = d => i = j
      BY <1>5, <1>13 DEF Turn, Single
    <3>2. Alive(id)' /\ About(id)' = d
      BY <1>7, <1>9, <1>14, <2>1 DEF Alive, Active
    <3>3. \A i \in JobIds : Alive(i)' /\ About(i)' = d => job'[i].st = "took"
      BY <2>1, <3>1, <3>2
    <3> QED
      BY <2>3, <3>1, <3>3 DEF Single
  <2>5. AliveFor(d) /\ ~Untaken(d)
    BY <1>9, <1>14 DEF AliveFor, Untaken
  <2>6. Claims(d)' /\ RowOf(d)' /\ LettersOf(d)'
    <3>1. \A a \in Callers : At(a, d)' = At(a, d)
      BY <1>6 DEF CallsSame
    <3>2. At(d, d)' = At(d, d) /\ At("sweep", d)' = At("sweep", d) /\ At("redrive", d)' = At("redrive", d)
      BY <3>1, Constant
    <3>3. Lettered(d)' = Lettered(d) /\ \A n : Loose(n, d)' = Loose(n, d)
      BY <1>2, <2>1, <3>2 DEF Lettered, Loose
    <3>4. Claims(d)'
      BY <1>5, <2>5, <3>1 DEF Turn, Claims
    <3>5. RowOf(d)'
      BY <1>2, <1>5, <2>5, <3>2, <3>3 DEF Turn, RowOf
    <3>6. LettersOf(d)'
      BY <1>5, <2>1, <2>5, <3>2, <3>3 DEF Turn, LettersOf
    <3> QED
      BY <3>4, <3>5, <3>6
  <2>7. SweepOf(d)' /\ RedriveOf(d)'
    BY <1>2, <1>5, <2>1
    DEF Turn, SweepOf, RedriveOf, Sweeping, Redriving, At, Busy, Lettered
  <2> QED
    BY <2>4, <2>6, <2>7 DEF Turn
<1>15. CASE JobLetter(id) /\ d = About(id)
  <2>1. job[id].st = "letter" /\ job'[id].st = "failed" /\ handled' = handled
    BY <1>0, <1>11, <1>15, JobStep DEF Jobs, JobTakes, JobLetter
  <2>2. handled[d] = 0 /\ AliveFor(d) /\ ~Untaken(d)
    BY <1>5, <1>9, <1>15, <2>1 DEF Turn, Single, AliveFor, Untaken
  <2>3. ~AliveFor(d)' /\ Untaken(d)'
    <3>1. ASSUME NEW i \in JobIds, Alive(i)', About(i)' = d PROVE FALSE
      <4>1. i = id
        BY <1>5, <1>9, <1>13, <1>15, <3>1 DEF Turn, Single
      <4> QED
        BY <2>1, <3>1, <4>1 DEF Alive, Active
    <3>2. ~AliveFor(d)'
      BY <3>1 DEF AliveFor
    <3> QED
      BY <2>1, <2>2, <3>2 DEF Untaken
  <2>4. Single(d)'
    BY <1>5, <2>1, <2>3 DEF Turn, Single, AliveFor
  <2>5. \A a \in Callers : At(a, d)' = At(a, d)
    BY <1>6 DEF CallsSame
  <2>6. At(d, d)' = At(d, d) /\ At("sweep", d)' = At("sweep", d) /\ At("redrive", d)' = At("redrive", d)
    BY <2>5, Constant
  <2>7. Claims(d)'
    BY <2>3, <2>5 DEF Claims
  <2>8. event[d].st # "none" /\ At(d, d) \notin Before \cup {"took"} /\ At("sweep", d) # "letter"
    <3>1. d \in Callers /\ "sweep" \in Callers
      BY Constant
    <3>2. At(d, d) \notin Before \cup {"took"} /\ At("sweep", d) \notin Before
      BY <1>5, <2>2, <3>1 DEF Turn, Claims
    <3>3. event[d].st # "none"
      BY <1>5, <2>2 DEF Turn, RowOf
    <3> QED
      BY <3>2, <3>3 DEF Before
  <2>9. RowOf(d)'
    BY <1>2, <1>5, <2>3, <2>6, <2>8 DEF Turn, RowOf
  <2>10. \A n \in picked : n \in 1..Len(letters) /\ letters'[n] = letters[n]
    BY <1>0, <1>4 DEF TypeOK
  <2>11. SweepOf(d)'
    <3>1. Sweeping(d)' => Sweeping(d)
      BY <1>2, <2>6 DEF Sweeping
    <3>2. Redriving(d)' => Redriving(d)
      BY <1>2, <2>6, <2>10 DEF Redriving
    <3> QED
      BY <1>2, <1>5, <2>6, <2>8, <3>1, <3>2 DEF Turn, SweepOf
  <2>12. RedriveOf(d)'
    <3>1. At("redrive", d) # "idle" => letters'[call["redrive"].row] = letters[call["redrive"].row]
      BY <1>0, <1>4 DEF Typed, RowHeld, At, Busy
    <3> QED
      BY <1>2, <1>5, <2>6, <2>10, <3>1 DEF Turn, RedriveOf
  <2>13. LettersOf(d)'
    <3> SUFFICES ASSUME At("sweep", d) \notin After
                 PROVE  \A m, n \in 1..Len(letters') : Loose(m, d)' /\ Loose(n, d)' => m = n
      BY <2>3, <2>6 DEF LettersOf
    <3>1. ASSUME NEW n \in 1..Len(letters), Loose(n, d)' PROVE FALSE
      <4>1. Loose(n, d)
        BY <1>2, <1>4, <2>6, <3>1 DEF Loose
      <4> QED
        BY <1>5, <2>2, <4>1 DEF Turn, LettersOf
    <3>2. \A n \in 1..Len(letters') : n \in 1..Len(letters) \/ n = Len(letters) + 1
      BY <1>3, <1>4, <1>15
    <3> QED
      BY <3>1, <3>2
  <2> QED
    BY <2>4, <2>7, <2>9, <2>11, <2>12, <2>13 DEF Turn
<1>16. CASE (~JobTakes(id) /\ ~JobLetter(id)) \/ d # About(id)
  <2>1. JobsShrink(d)
    <3>1. handled'[d] = handled[d]
      BY <1>0, <1>1, <1>11, <1>12, <1>16 DEF Once, TypeOK
    <3>2. ASSUME NEW i \in JobIds, Alive(i)', About(i)' = d, job[i].st = "took"
          PROVE  job'[i].st = "took"
      <4>1. CASE i # id
        BY <1>1, <3>2, <4>1
      <4>2. CASE i = id
        <5>1. d = About(id)
          BY <1>13, <3>2, <4>2
        <5>2. ~JobTakes(id) /\ ~JobLetter(id) /\ ~JobFails(id)
          BY <1>10, <1>16, <3>2, <4>2, <5>1
        <5>3. ~JobEnds(id)
          BY <1>0, <3>2, <4>2, JobStep DEF Jobs, Alive, Active
        <5> QED
          BY <1>0, <3>2, <4>2, <5>2, <5>3, JobStep DEF Jobs
      <4> QED
        BY <4>1, <4>2
    <3> QED
      BY <1>13, <3>1, <3>2 DEF JobsShrink
  <2>2. LettersSame(d)
    <3>1. ASSUME NEW n \in 1..Len(letters'), letters'[n].d = d
          PROVE  n \in 1..Len(letters) /\ letters[n].d = d
      <4>1. CASE n \in 1..Len(letters)
        BY <1>4, <3>1, <4>1
      <4>2. CASE n \notin 1..Len(letters)
        <5>1. JobLetter(id) /\ n = Len(letters) + 1
          BY <1>3, <1>4, <4>2
        <5>2. letters'[n].d = About(id)
          BY <1>4, <5>1 DEF Letter
        <5> QED
          BY <1>16, <3>1, <5>1, <5>2
      <4> QED
        BY <4>1, <4>2
    <3> QED
      BY <1>4, <3>1 DEF LettersSame
  <2> QED
    BY <1>0, <1>2, <1>5, <1>6, <2>1, <2>2, TurnStays
<1> QED
  BY <1>14, <1>15, <1>16

LEMMA TurnQuiet ==
  ASSUME Base, Base', Turns, Crash \/ SetEnabled \/ UNCHANGED vars, NEW d \in Deliveries \ raced'
  PROVE  Turn(d)'
<1>0. Typed /\ Typed' /\ TypeOK
  BY DEF Base, Typed
<1>1. UNCHANGED <<event, letters, handled>> /\ d \notin raced /\ Turn(d)
  BY DEF Crash, SetEnabled, vars, rows, history, Turns
<1>2. LettersSame(d)
  BY <1>1 DEF LettersSame
<1>3. CASE Crash
  <2>1. \A i \in JobIds : job[i].st \in Active => About(i) # d
    BY <1>3 DEF Crash
  <2>2. \A a \in Callers : ~Busy(a, d)
    BY <1>3 DEF Crash
  <2>3. \A a \in Callers : call'[a].at = "idle"
    BY <1>3 DEF Crash, Idle
  <2>4. CallsSame(d)
    BY <2>2, <2>3, Constant DEF CallsSame, At, Busy
  <2>5. BatchesShrink(d)
    BY <1>3 DEF Crash, BatchesShrink
  <2>6. JobsShrink(d)
    <3>1. ASSUME NEW i \in JobIds, Alive(i)', About(i)' = d
          PROVE  Alive(i) /\ About(i) = d /\ (job[i].st = "took" => job'[i].st = "took")
      <4>1. About(i) = d
        BY <1>1, <3>1 DEF About
      <4>2. job[i].st \notin Active
        BY <2>1, <4>1
      <4>3. job'[i] = job[i]
        BY <1>3, <4>2 DEF Crash, Doomed
      <4> QED
        BY <3>1, <4>1, <4>3 DEF Alive
    <3> QED
      BY <1>1, <3>1 DEF JobsShrink
  <2> QED
    BY <1>0, <1>1, <1>2, <2>4, <2>5, <2>6, TurnStays
<1>4. CASE SetEnabled \/ UNCHANGED vars
  <2>1. UNCHANGED <<call, job, swept, picked>> /\ batches' = batches
    BY <1>4 DEF SetEnabled, vars, queue, batches
  <2>2. CallsSame(d) /\ BatchesShrink(d)
    BY <1>0, <1>1, <2>1, CallsStay, BatchesStay
  <2>3. JobsShrink(d)
    BY <1>1, <2>1 DEF JobsShrink, Alive, About
  <2> QED
    BY <1>0, <1>1, <1>2, <2>2, <2>3, TurnStays
<1> QED
  BY <1>3, <1>4

(* Where the callers are after a step of one of them. *)
Moves(a, d, p) == \A b \in Callers : At(b, d)' = IF b = a THEN p ELSE At(b, d)

LEMMA AtGoto ==
  ASSUME Typed, NEW a \in Callers, call[a].at # "idle", NEW p \in Points \ {"idle"}, Goto(a, p), NEW d \in Deliveries
  PROVE  /\ call[a].d # d => CallsSame(d)
         /\ call[a].d = d => At(a, d) = call[a].at /\ Moves(a, d, p)
         /\ call'["redrive"].row = call["redrive"].row
<1>1. /\ call'[a].at = p /\ call'[a].d = call[a].d /\ call'[a].row = call[a].row
      /\ \A b \in Callers \ {a} : call'[b] = call[b]
  BY Going DEF Typed
<1>2. call'["redrive"].row = call["redrive"].row
  BY <1>1, Constant
<1>3. \A b \in Callers \ {a} : At(b, d)' = At(b, d)
  BY <1>1 DEF At, Busy
<1>4. CASE call[a].d # d
  <2>1. At(a, d)' = At(a, d)
    BY <1>1, <1>4 DEF At, Busy
  <2> QED
    BY <1>2, <1>3, <1>4, <2>1 DEF CallsSame
<1>5. CASE call[a].d = d
  <2>1. At(a, d) = call[a].at /\ At(a, d)' = p
    BY <1>1, <1>5 DEF At, Busy
  <2> QED
    BY <1>2, <1>3, <1>5, <2>1 DEF Moves
<1> QED
  BY <1>4, <1>5

LEMMA AtRest ==
  ASSUME Typed, NEW a \in Callers, call[a].at # "idle", Rest(a), NEW d \in Deliveries
  PROVE  /\ call[a].d # d => CallsSame(d)
         /\ call[a].d = d => At(a, d) = call[a].at /\ Moves(a, d, "idle")
         /\ a # "redrive" => call'["redrive"].row = call["redrive"].row
<1>1. /\ call'[a].at = "idle" /\ \A b \in Callers \ {a} : call'[b] = call[b]
  BY Stopping DEF Typed
<1>2. a # "redrive" => call'["redrive"].row = call["redrive"].row
  BY <1>1, Constant
<1>3. \A b \in Callers \ {a} : At(b, d)' = At(b, d)
  BY <1>1 DEF At, Busy
<1>4. At(a, d)' = "idle"
  BY <1>1 DEF At, Busy
<1>5. CASE call[a].d # d
  <2>1. At(a, d) = "idle"
    BY <1>5 DEF At, Busy
  <2> QED
    BY <1>2, <1>3, <1>4, <1>5, <2>1 DEF CallsSame
<1>6. CASE call[a].d = d
  BY <1>2, <1>3, <1>4, <1>6 DEF Moves, At, Busy
<1> QED
  BY <1>5, <1>6

LEMMA AtBegin ==
  ASSUME Typed, NEW a \in Callers, call[a].at = "idle", NEW r \in CallType, r.d \in Deliveries, r.at # "idle",
         call' = [call EXCEPT ![a] = r], NEW d \in Deliveries
  PROVE  /\ r.d # d => CallsSame(d)
         /\ r.d = d => At(a, d) = "idle" /\ Moves(a, d, r.at)
         /\ a # "redrive" => call'["redrive"].row = call["redrive"].row
<1>1. /\ call'[a] = r /\ \A b \in Callers \ {a} : call'[b] = call[b]
  BY Beginning DEF Typed
<1>2. a # "redrive" => call'["redrive"].row = call["redrive"].row
  BY <1>1, Constant
<1>3. \A b \in Callers \ {a} : At(b, d)' = At(b, d)
  BY <1>1 DEF At, Busy
<1>4. At(a, d) = "idle" /\ At(a, d)' = IF r.d = d THEN r.at ELSE "idle"
  BY <1>1 DEF At, Busy
<1> QED
  BY <1>2, <1>3, <1>4 DEF CallsSame, Moves

(* A caller that has yet to dispatch, or is being answered, is the only one:
   the three take a delivery from each other's rows. *)
LEMMA Alone ==
  ASSUME Typed, Own, NEW d \in Deliveries, Turn(d), NEW a \in Callers, At(a, d) \in Before \cup {"took"}
  PROVE  /\ a \in {d, "sweep", "redrive"}
         /\ d # "sweep" /\ d # "redrive"
         /\ event[d].st # "none"
         /\ \A b \in Callers \ {a} : At(b, d) \notin Before \cup {"took"}
         /\ a = d => ~Lettered(d) /\ ~Sweeping(d) /\ ~Redriving(d)
         /\ a = "sweep" => At(d, d) = "idle" /\ ~Redriving(d) /\ event[d].st = "pending"
         /\ a = "redrive" => ~Sweeping(d) /\ Lettered(d)
<1>0. /\ d \in Callers /\ "sweep" \in Callers /\ "redrive" \in Callers /\ d # "sweep" /\ d # "redrive"
      /\ Callers = Deliveries \cup {"sweep", "redrive"}
  BY Constant DEF Callers
<1>1. \A b \in Callers : At(b, d) # "idle" => b \in {d, "sweep", "redrive"}
  BY <1>0 DEF Own, At, Busy
<1>2. Redriving(d) => Lettered(d)
  BY DEF Redriving, Lettered, Typed, RowHeld, TypeOK, At, Busy
<1>3. a \in {d, "sweep", "redrive"}
  BY <1>1 DEF Before
<1>4. CASE a = d
  <2>1. ~Lettered(d)
    BY <1>4 DEF Turn, RowOf
  <2>2. ~Sweeping(d)
    BY <1>4 DEF Turn, SweepOf, Before
  <2>3. At("sweep", d) = "idle" /\ At("redrive", d) = "idle"
    BY <1>2, <2>1, <2>2 DEF Sweeping, Redriving
  <2>4. event[d].st # "none"
    BY <1>4 DEF Turn, RowOf, Before
  <2> QED
    BY <1>0, <1>1, <1>2, <1>4, <2>1, <2>2, <2>3, <2>4 DEF Before
<1>5. CASE a = "sweep"
  <2>1. Sweeping(d)
    BY <1>5 DEF Sweeping, Before
  <2>2. At(d, d) = "idle" /\ ~Redriving(d) /\ event[d].st = "pending"
    BY <1>5, <2>1 DEF Turn, SweepOf, Before
  <2>3. At("redrive", d) = "idle"
    BY <2>2 DEF Redriving
  <2> QED
    BY <1>0, <1>1, <1>5, <2>2, <2>3 DEF Before
<1>6. CASE a = "redrive"
  <2>1. Redriving(d) /\ Lettered(d)
    BY <1>2, <1>6 DEF Redriving, Before
  <2>2. ~Sweeping(d)
    BY <2>1 DEF Turn, SweepOf
  <2>3. At("sweep", d) = "idle"
    BY <2>2 DEF Sweeping
  <2>4. At(d, d) \notin Before \cup {"took"}
    BY <2>1 DEF Turn, RowOf
  <2>5. event[d].st # "none"
    BY <2>1 DEF Turn, RowOf
  <2> QED
    BY <1>0, <1>1, <1>6, <2>1, <2>2, <2>3, <2>4, <2>5 DEF Before
<1> QED
  BY <1>3, <1>4, <1>5, <1>6

(* What a caller leaves alone while it goes on with the same delivery. *)
RowsKept(d) ==
  /\ letters' = letters /\ swept' = swept /\ picked' = picked
  /\ call'["redrive"].row = call["redrive"].row
  /\ event'[d].st = event[d].st /\ (event'[d].fresh = event[d].fresh \/ event'[d].fresh)

LEMMA Moved ==
  ASSUME Typed, Own, NEW d \in Deliveries, Turn(d), NEW a \in Callers, At(a, d) \in Before,
         NEW p \in Before, Moves(a, d, p), JobsShrink(d), RowsKept(d),
         a = "sweep" /\ p = "letter" => ~Lettered(d)
  PROVE  Turn(d)'
<1>0. d \in Callers /\ "sweep" \in Callers /\ "redrive" \in Callers
  BY Constant
<1>1. /\ At(a, d)' = p /\ p # "idle" /\ At(a, d) # "idle"
      /\ \A b \in Callers : b # a => At(b, d)' = At(b, d)
      /\ p \notin After /\ At(a, d) \notin After
  BY DEF Moves, Before, After
<1>2. /\ Lettered(d)' = Lettered(d) /\ \A n : Loose(n, d)' = Loose(n, d)
      /\ Sweeping(d)' = Sweeping(d) /\ Redriving(d)' = Redriving(d)
  <2>1. /\ At("sweep", d)' # "idle" <=> At("sweep", d) # "idle"
        /\ At("redrive", d)' # "idle" <=> At("redrive", d) # "idle"
        /\ At("redrive", d)' \in After <=> At("redrive", d) \in After
    BY <1>0, <1>1
  <2> QED
    BY <2>1 DEF RowsKept, Lettered, Loose, Sweeping, Redriving
<1>3. Untaken(d) /\ Untaken(d)' /\ ~AliveFor(d)' /\ Single(d)'
  BY Shrunk DEF Turn, Claims, Untaken
<1>4. Claims(d)'
  BY <1>3 DEF Claims
<1>5. RowOf(d)'
  <2>1. At(d, d)' = "idle" <=> At(d, d) = "idle"
    BY <1>0, <1>1
  <2>2. At(d, d)' \in Before \cup {"took"} => At(d, d) \in Before \cup {"took"}
    BY <1>0, <1>1
  <2> QED
    BY <1>2, <1>3, <2>1, <2>2 DEF Turn, RowOf, RowsKept
<1>6. SweepOf(d)'
  <2>1. /\ At(d, d)' = "idle" <=> At(d, d) = "idle"
        /\ At("sweep", d)' = "idle" <=> At("sweep", d) = "idle"
        /\ At("sweep", d)' = "close" <=> At("sweep", d) = "close"
        /\ At("sweep", d)' = "letter" => At("sweep", d) = "letter" \/ (a = "sweep" /\ p = "letter")
    BY <1>0, <1>1 DEF After
  <2> QED
    BY <1>2, <2>1 DEF Turn, SweepOf, RowsKept
<1>7. RedriveOf(d)'
  <2>1. /\ At("redrive", d)' = "idle" <=> At("redrive", d) = "idle"
        /\ At("redrive", d)' = "close" <=> At("redrive", d) = "close"
    BY <1>0, <1>1 DEF After
  <2> QED
    BY <2>1 DEF Turn, RedriveOf, RowsKept
<1>8. LettersOf(d)'
  <2>1. At("sweep", d)' \in After <=> At("sweep", d) \in After
    BY <1>0, <1>1
  <2> QED
    BY <1>2, <1>3, <2>1 DEF Turn, LettersOf, RowsKept
<1> QED
  BY <1>3, <1>4, <1>5, <1>6, <1>7, <1>8 DEF Turn

(* The dispatch is made, or answered. *)
LEMMA Dispatched ==
  ASSUME Typed, Own, NEW d \in Deliveries, Turn(d), NEW a \in Callers, At(a, d) \in Before \cup {"took"},
         NEW p \in {"took", "ok"}, Moves(a, d, p), RowsKept(d), Single(d)',
         p = "took" => ~AliveFor(d)',
         At(a, d) = "took" => JobsShrink(d)
  PROVE  Turn(d)'
<1>0. d \in Callers /\ "sweep" \in Callers /\ "redrive" \in Callers
  BY Constant
<1>1. /\ At(a, d)' = p /\ p # "idle" /\ p # "close" /\ p # "letter" /\ At(a, d) # "idle" /\ At(a, d) # "close"
      /\ \A b \in Callers : b # a => At(b, d)' = At(b, d)
      /\ p \in After /\ p \notin Before
  BY DEF Moves, Before, After
<1>2. Lettered(d)' = Lettered(d) /\ Sweeping(d)' = Sweeping(d) /\ Redriving(d)' = Redriving(d)
  <2>1. /\ At("sweep", d)' # "idle" <=> At("sweep", d) # "idle"
        /\ At("redrive", d)' # "idle" <=> At("redrive", d) # "idle"
    BY <1>0, <1>1
  <2> QED
    BY <2>1 DEF RowsKept, Lettered, Sweeping, Redriving
<1>3. /\ a \in {d, "sweep", "redrive"} /\ event[d].st # "none"
      /\ \A b \in Callers \ {a} : At(b, d) \notin Before \cup {"took"}
      /\ a = d => ~Lettered(d)
  BY Alone
<1>4. Claims(d)'
  BY <1>1, <1>3 DEF Claims
<1>5. RowOf(d)'
  <2>1. At(d, d)' = "idle" <=> At(d, d) = "idle"
    BY <1>0, <1>1
  <2>2. At(d, d)' = "idle" => At("sweep", d)' \in After \/ At("redrive", d)' \in After
    BY <1>1, <1>3
  <2>3. At(d, d)' \in Before \cup {"took"} => At(d, d) \in Before \cup {"took"}
    BY <1>0, <1>1
  <2> QED
    BY <1>2, <1>3, <2>1, <2>2, <2>3 DEF Turn, RowOf, RowsKept
<1>6. SweepOf(d)'
  <2>1. /\ At(d, d)' = "idle" <=> At(d, d) = "idle"
        /\ At("sweep", d)' = "idle" <=> At("sweep", d) = "idle"
        /\ At("sweep", d)' = "close" <=> At("sweep", d) = "close"
        /\ At("sweep", d)' = "letter" => At("sweep", d) = "letter"
    BY <1>0, <1>1
  <2> QED
    BY <1>2, <2>1 DEF Turn, SweepOf, RowsKept
<1>7. RedriveOf(d)'
  <2>1. /\ At("redrive", d)' = "idle" <=> At("redrive", d) = "idle"
        /\ At("redrive", d)' = "close" <=> At("redrive", d) = "close"
    BY <1>0, <1>1
  <2> QED
    BY <2>1 DEF Turn, RedriveOf, RowsKept
<1>8. LettersOf(d)'
  <2> SUFFICES ASSUME At("sweep", d)' \notin After
               PROVE  /\ \A n \in 1..Len(letters') : Loose(n, d)' => Untaken(d)'
                      /\ \A m, n \in 1..Len(letters') : Loose(m, d)' /\ Loose(n, d)' => m = n
    BY DEF LettersOf
  <2>1. CASE a = d
    <3>1. ASSUME NEW n \in 1..Len(letters'), Loose(n, d)' PROVE FALSE
      <4>1. n \in 1..Len(letters) /\ letters[n].d = d
        BY <3>1 DEF RowsKept, Loose, Letter
      <4> QED
        BY <1>3, <2>1, <4>1 DEF Lettered
    <3> QED
      BY <3>1
  <2>2. CASE a = "sweep"
    BY <1>1, <2>2
  <2>3. CASE a = "redrive"
    <3>1. At("sweep", d) \notin After
      BY <1>0, <1>1, <2>3
    <3>2. CASE At(a, d) \in Before
      <4>1. call["redrive"].row \in 1..Len(letters) /\ letters[call["redrive"].row] = Letter(d)
        BY <1>1, <2>3 DEF Typed, RowHeld, Turn, RedriveOf, At, Busy
      <4>2. At("redrive", d) \notin After /\ At("redrive", d)' \in After
        BY <1>1, <2>3, <3>2 DEF Before, After
      <4>3. ASSUME NEW n \in 1..Len(letters'), Loose(n, d)' PROVE FALSE
        <5>1. n \in 1..Len(letters) /\ letters[n] = Letter(d) /\ n # call["redrive"].row
          BY <4>2, <4>3 DEF RowsKept, Loose
        <5>2. Loose(n, d) /\ Loose(call["redrive"].row, d)
          BY <4>1, <4>2, <5>1 DEF Loose
        <5> QED
          BY <3>1, <4>1, <5>1, <5>2 DEF Turn, LettersOf
      <4> QED
        BY <4>3
    <3>3. CASE At(a, d) = "took"
      <4>1. \A n : Loose(n, d)' <=> Loose(n, d)
        BY <1>1, <2>3, <3>3 DEF Loose, RowsKept, After
      <4>2. Untaken(d) => Untaken(d)'
        BY <3>3, Shrunk
      <4> QED
        BY <3>1, <4>1, <4>2 DEF Turn, LettersOf, RowsKept
    <3> QED
      BY <3>2, <3>3
  <2> QED
    BY <1>3, <2>1, <2>2, <2>3
<1> QED
  BY <1>4, <1>5, <1>6, <1>7, <1>8 DEF Turn

LEMMA TurnEnqueue ==
  ASSUME Base, Base', Own, Turns, NEW a \in Callers, Enqueues(a), NEW d \in Deliveries \ raced'
  PROVE  Turn(d)'
<1>0. Typed /\ Typed' /\ TypeOK /\ Work
  BY DEF Base, Typed, Work
<1>1. /\ call[a].at \in {"add", "inline", "took"} /\ call[a].at # "idle"
      /\ call[a].d \in Deliveries
  BY <1>0, Types DEF Enqueues, Add, AddRejected, AddInline, InlineTakes, InlineEnds
<1>2. PICK p \in {"ok", "inline", "took", "failed"} : Goto(a, p)
  BY DEF Enqueues, Add, AddRejected, AddInline, InlineTakes, InlineEnds
<1>3. /\ UNCHANGED <<event, letters, swept, picked>> /\ batches' = batches
      /\ d \notin raced /\ Turn(d)
  <2>1. raced \subseteq raced'
    BY DEF Enqueues, Add, AddRejected, AddInline, InlineTakes, InlineEnds, history
  <2> QED
    BY <2>1
    DEF Enqueues, Add, AddRejected, AddInline, InlineTakes, InlineEnds, rows,
        batches, Turns
<1>4. /\ call[a].d # d => CallsSame(d)
      /\ call[a].d = d => At(a, d) = call[a].at /\ Moves(a, d, p)
      /\ call'["redrive"].row = call["redrive"].row
  BY <1>0, <1>1, <1>2, AtGoto DEF Points
<1>5. /\ JobOf(a) \in JobIds /\ About(JobOf(a)) = call[a].d
  BY <1>0, <1>1, JobOfTyped
<1>6. \A i : About(i)' = About(i)
  BY <1>3 DEF About
<1>7. /\ \A i \in JobIds : i # JobOf(a) => job'[i] = job[i]
      /\ ~Add(a) /\ ~AddRejected(a) => job' = job
      /\ AddRejected(a) /\ call[a].d \notin raced' => job' = job
      /\ ~InlineTakes(a) => handled' = handled
      /\ InlineTakes(a) => \A c \in Deliveries : c # call[a].d => handled'[c] = handled[c]
  <2>1. job' = job \/ job' = [job EXCEPT ![JobOf(a)] = JobIn("waiting")]
    BY DEF Enqueues, Add, AddRejected, AddInline, InlineTakes, InlineEnds, queue
  <2>2. \A i \in JobIds : i # JobOf(a) => job'[i] = job[i]
    BY <1>0, <2>1, Types
  <2>3. ~Add(a) /\ ~AddRejected(a) => job' = job
    BY DEF Enqueues, AddInline, InlineTakes, InlineEnds, queue
  <2>4. AddRejected(a) /\ call[a].d \notin raced' => job' = job
    BY DEF AddRejected
  <2>5. ~InlineTakes(a) => handled' = handled
    BY DEF Enqueues, Add, AddRejected, AddInline, InlineEnds, history
  <2>6. InlineTakes(a) => \A c \in Deliveries : c # call[a].d => handled'[c] = handled[c]
    BY <1>0 DEF InlineTakes, Once, TypeOK
  <2> QED
    BY <2>2, <2>3, <2>4, <2>5, <2>6
<1>8. CASE call[a].d # d
  <2>1. JobsShrink(d)
    <3>1. handled'[d] = handled[d]
      BY <1>7, <1>8
    <3>2. \A i \in JobIds : About(i) = d => job'[i] = job[i]
      BY <1>5, <1>7, <1>8
    <3> QED
      BY <1>6, <3>1, <3>2 DEF JobsShrink, Alive
  <2>2. LettersSame(d) /\ BatchesShrink(d)
    BY <1>0, <1>3, BatchesStay DEF LettersSame
  <2> QED
    BY <1>0, <1>3, <1>4, <1>8, <2>1, <2>2, TurnStays
<1>9. CASE call[a].d = d
  <2>1. At(a, d) = call[a].at /\ Moves(a, d, p)
    BY <1>4, <1>9
  <2>2. RowsKept(d)
    BY <1>3, <1>4 DEF RowsKept
  <2>3. job' = job /\ handled' = handled => JobsShrink(d)
    BY <1>6 DEF JobsShrink, Alive
  <2>4. At(a, d) \in Before \cup {"took"}
    BY <1>1, <2>1 DEF Before
  <2>5. At(a, d) # "took" => Untaken(d)
    BY <1>3, <2>4 DEF Turn, Claims
  <2>6. CASE Add(a)
    <3>1. p = "ok" /\ At(a, d) = "add"
      <4>1. Goto(a, "ok") /\ call[a].at = "add"
        BY <2>6 DEF Add
      <4>2. call'[a].at = "ok" /\ call'[a].at = p
        BY <1>0, <1>1, <1>2, <4>1, Going DEF Typed, Points
      <4> QED
        BY <2>1, <4>1, <4>2
    <3>2. handled'[d] = 0
      BY <1>7, <2>5, <2>6, <3>1 DEF Untaken, Add, InlineTakes
    <3>3. \A i \in JobIds : Alive(i)' /\ About(i)' = d => i = JobOf(a) /\ (job'[i].st # "took")
      <4> SUFFICES ASSUME NEW i \in JobIds, Alive(i)', About(i)' = d
                   PROVE  i = JobOf(a) /\ (job'[i].st # "took")
        OBVIOUS
      <4>1. ~Alive(i)
        BY <1>6, <2>5, <3>1 DEF Untaken, AliveFor
      <4>2. job'[i] # job[i]
        BY <4>1 DEF Alive
      <4>3. i = JobOf(a)
        BY <1>7, <4>2
      <4>4. job' = [job EXCEPT ![JobOf(a)] = JobIn("waiting")]
        BY <2>6, <4>2 DEF Add
      <4>5. job'[i].st = "waiting"
        BY <1>0, <1>5, <4>3, <4>4, Types, JobIns
      <4> QED
        BY <4>3, <4>5
    <3>4. Single(d)'
      BY <3>2, <3>3 DEF Single
    <3> QED
      BY <1>0, <1>3, <2>1, <2>2, <2>4, <3>1, <3>4, Dispatched
  <2>7. CASE AddRejected(a) \/ AddInline(a)
    <3>1. p = "inline" /\ At(a, d) = "add"
      <4>1. Goto(a, "inline") /\ call[a].at = "add"
        BY <2>7 DEF AddRejected, AddInline
      <4>2. call'[a].at = "inline" /\ call'[a].at = p
        BY <1>0, <1>1, <1>2, <4>1, Going DEF Typed, Points
      <4> QED
        BY <2>1, <4>1, <4>2
    <3>2. JobsShrink(d)
      BY <1>7, <1>9, <2>3, <2>7, <3>1, <2>1
      DEF AddRejected, AddInline, InlineTakes, Add, queue
    <3> QED
      BY <1>0, <1>3, <2>1, <2>2, <3>1, <3>2, Moved DEF Before
  <2>8. CASE InlineTakes(a)
    <3>1. p = "took" /\ At(a, d) = "inline"
      <4>1. Goto(a, "took") /\ call[a].at = "inline"
        BY <2>8 DEF InlineTakes
      <4>2. call'[a].at = "took" /\ call'[a].at = p
        BY <1>0, <1>1, <1>2, <4>1, Going DEF Typed, Points
      <4> QED
        BY <2>1, <4>1, <4>2
    <3>2. handled[d] = 0 /\ ~AliveFor(d)
      BY <2>5, <3>1 DEF Untaken
    <3>3. handled'[d] = 1
      BY <1>0, <1>9, <2>8, <3>2 DEF InlineTakes, Once, TypeOK
    <3>4. job' = job
      BY <2>8 DEF InlineTakes, queue
    <3>5. ~AliveFor(d)'
      BY <1>6, <3>2, <3>4 DEF AliveFor, Alive
    <3>6. Single(d)'
      BY <3>3, <3>5 DEF Single, AliveFor
    <3> QED
      BY <1>0, <1>3, <2>1, <2>2, <2>4, <3>1, <3>5, <3>6, Dispatched
  <2>9. CASE InlineEnds(a)
    <3>1. JobsShrink(d)
      BY <2>3, <2>9 DEF InlineEnds, queue
    <3>2. Single(d)'
      BY <1>3, <3>1, Shrunk DEF Turn
    <3>3. \/ At(a, d) = "took" /\ p = "ok"
          \/ At(a, d) = "inline" /\ p = "failed"
      <4>1. \/ call[a].at = "took" /\ Goto(a, "ok")
            \/ call[a].at = "inline" /\ Goto(a, "failed")
        BY <1>9, <2>9 DEF InlineEnds
      <4>2. \A q \in {"ok", "failed"} : Goto(a, q) => p = q
        <5> SUFFICES ASSUME NEW q \in {"ok", "failed"}, Goto(a, q) PROVE p = q
          OBVIOUS
        <5>1. call'[a].at = q /\ call'[a].at = p
          BY <1>0, <1>1, <1>2, Going DEF Typed, Points
        <5> QED
          BY <5>1
      <4> QED
        BY <2>1, <4>1, <4>2
    <3>4. CASE At(a, d) = "took" /\ p = "ok"
      BY <1>0, <1>3, <2>1, <2>2, <2>4, <3>1, <3>2, <3>4, Dispatched
    <3>5. CASE At(a, d) = "inline" /\ p = "failed"
      BY <1>0, <1>3, <2>1, <2>2, <3>1, <3>5, Moved DEF Before
    <3> QED
      BY <3>3, <3>4, <3>5
  <2> QED
    BY <2>6, <2>7, <2>8, <2>9 DEF Enqueues
<1> QED
  BY <1>8, <1>9

LEMMA JobsStay ==
  ASSUME Typed, job' = job, handled' = handled, \A n \in 1..Len(letters) : letters'[n].d = letters[n].d,
         NEW d \in Deliveries
  PROVE  JobsShrink(d)
<1>1. \A i \in JobIds : Alive(i)' => Alive(i)
  BY DEF Alive
<1>2. \A i \in JobIds : Alive(i) => About(i)' = About(i)
  BY AboutKept DEF Alive, Active
<1> QED
  BY <1>1, <1>2 DEF JobsShrink

(* A letter appended for another delivery. *)
LEMMA LettersElsewhere ==
  ASSUME Typed, NEW c \in Deliveries, NEW d \in Deliveries, c # d, Len(letters) < MaxLetters,
         letters' = Append(letters, Letter(c))
  PROVE  LettersSame(d)
<1>1. /\ Len(letters') = Len(letters) + 1 /\ letters'[Len(letters) + 1] = Letter(c) /\ Len(letters) \in Nat
      /\ \A n \in 1..Len(letters) : letters'[n] = letters[n]
  BY Appending, Types DEF Typed
<1>2. letters'[Len(letters) + 1].d = c
  BY <1>1 DEF Letter
<1>3. \A n \in 1..Len(letters') : n \in 1..Len(letters) \/ n = Len(letters) + 1
  BY <1>1
<1> QED
  BY <1>1, <1>2, <1>3 DEF LettersSame

LEMMA TurnRequest ==
  ASSUME Base, Base', Own, Turns, NEW c \in Deliveries, Requests(c), NEW d \in Deliveries \ raced'
  PROVE  Turn(d)'
<1>0. /\ Typed /\ Typed' /\ TypeOK /\ c \in Callers /\ d \in Callers /\ c # "redrive" /\ c # "sweep"
      /\ "sweep" \in Callers /\ "redrive" \in Callers /\ d # "redrive" /\ d # "sweep"
      /\ Len(letters) \in Nat /\ event \in [Deliveries -> EventType]
  BY Constant, Types DEF Base, Typed
<1>1. /\ UNCHANGED <<job, handled, swept, picked>> /\ batches' = batches
      /\ d \notin raced /\ Turn(d)
  <2>1. raced \subseteq raced'
    BY
    DEF Requests, Receive, MarkDispatched, MarkFailed, SaveLetter, MarkLost, Age,
        history
  <2> QED
    BY <2>1
    DEF Requests, Receive, MarkDispatched, MarkFailed, SaveLetter, MarkLost, Age,
        batches, queue, history, Turns
<1>2. /\ letters' = letters \/ (Len(letters) < MaxLetters /\ letters' = Append(letters, Letter(c)))
      /\ ~SaveLetter(c) => letters' = letters
  BY
  DEF Requests, Receive, MarkDispatched, MarkFailed, SaveLetter, MarkLost, Age,
      rows
<1>3. \A n \in 1..Len(letters) : letters'[n] = letters[n]
  BY <1>0, <1>2, Appending
<1>4. JobsShrink(d)
  BY <1>0, <1>1, <1>3, JobsStay
<1>5. AliveFor(d)' => AliveFor(d)
  BY <1>4, Shrunk
<1>6. (Untaken(d) => Untaken(d)') /\ Single(d)'
  BY <1>1, <1>4, Shrunk DEF Turn
<1>7. call[c].at # "idle" => call[c].d = c
  BY DEF Own
<1>8. CASE d # c
  <2>1. CallsSame(d)
    <3>1. CASE Receive(c)
      <4>1. At(c, d) = "idle"
        BY <1>7, <1>8 DEF At, Busy
      <4>2. call' = [call EXCEPT ![c] = [Idle EXCEPT !.at = "add", !.d = c]]
        BY <3>1 DEF Receive
      <4>3. [Idle EXCEPT !.at = "add", !.d = c].d = c
        BY DEF Idle
      <4>4. call'[c].d = c /\ \A b \in Callers \ {c} : call'[b] = call[b]
        BY <1>0, <4>2, <4>3, Types
      <4>5. At(c, d)' = "idle"
        BY <1>8, <4>4 DEF At, Busy
      <4>6. \A b \in Callers \ {c} : At(b, d)' = At(b, d)
        BY <4>4 DEF At, Busy
      <4> QED
        BY <1>0, <4>1, <4>4, <4>5, <4>6 DEF CallsSame
    <3>2. CASE MarkDispatched(c) \/ SaveLetter(c)
      BY <1>0, <1>7, <1>8, <3>2, AtRest DEF MarkDispatched, SaveLetter
    <3>3. CASE MarkFailed(c)
      BY <1>0, <1>7, <1>8, <3>3, AtGoto DEF MarkFailed, Points
    <3>4. CASE MarkLost(c)
      BY <1>0, <1>7, <1>8, <3>4, AtGoto, AtRest DEF MarkLost, Points
    <3>5. CASE Age(c)
      BY <3>5, CallsStay DEF Age
    <3> QED
      BY <3>1, <3>2, <3>3, <3>4, <3>5 DEF Requests
  <2>2. event'[d] = event[d]
    BY <1>0, <1>8
    DEF Requests, Receive, MarkDispatched, MarkFailed, SaveLetter, MarkLost, Age,
        rows
  <2>3. LettersSame(d)
    <3>1. CASE letters' = letters
      BY <3>1 DEF LettersSame
    <3>2. CASE letters' # letters
      BY <1>0, <1>2, <1>8, <3>2, LettersElsewhere
    <3> QED
      BY <3>1, <3>2
  <2>4. BatchesShrink(d)
    BY <1>0, <1>1, <1>3, BatchesStay
  <2> QED
    BY <1>0, <1>1, <1>4, <2>1, <2>2, <2>3, <2>4, TurnStays
<1>9. CASE d = c /\ Receive(c)
  <2>1. event[d].st = "none" /\ letters' = letters
    BY <1>2, <1>9 DEF Receive, Requests, MarkDispatched, SaveLetter
  <2>2. Untaken(d) /\ ~Lettered(d) /\ At(d, d) = "idle"
    BY <1>1, <2>1 DEF Turn, RowOf
  <2>3. ~Sweeping(d) /\ ~Redriving(d)
    <3>1. ~Sweeping(d)
      BY <1>1, <2>1 DEF Turn, SweepOf
    <3>2. ~Redriving(d)
      BY <1>0, <2>2 DEF Redriving, Lettered, Typed, RowHeld, TypeOK, At, Busy
    <3> QED
      BY <3>1, <3>2
  <2>4. event'[d].st = "pending" /\ event'[d].fresh = TRUE
    BY <1>0, <1>9 DEF Receive
  <2>5. At(d, d)' = "add" /\ \A b \in Callers \ {d} : At(b, d)' = At(b, d)
    <3>1. call' = [call EXCEPT ![d] = [Idle EXCEPT !.at = "add", !.d = d]]
      BY <1>9 DEF Receive
    <3>2. [Idle EXCEPT !.at = "add", !.d = d].d = d /\ [Idle EXCEPT !.at = "add", !.d = d].at = "add"
      BY DEF Idle
    <3>3. call'[d].d = d /\ call'[d].at = "add" /\ \A b \in Callers \ {d} : call'[b] = call[b]
      BY <1>0, <3>1, <3>2, Types
    <3> QED
      BY <3>3 DEF At, Busy
  <2>6. At("sweep", d)' = "idle" /\ At("redrive", d)' = "idle"
    BY <1>0, <2>3, <2>5 DEF Sweeping, Redriving
  <2>7. ~Lettered(d)' /\ ~Sweeping(d)' /\ ~Redriving(d)'
    BY <1>1, <2>1, <2>2, <2>3, <2>6 DEF Lettered, Sweeping, Redriving
  <2>8. \A b \in Callers \ {d} : At(b, d)' = "idle"
    BY <1>0, <2>5, <2>6 DEF Own, At, Busy, Callers
  <2>9. Untaken(d)' /\ ~AliveFor(d)'
    BY <1>5, <1>6, <2>2 DEF Untaken
  <2>10. Claims(d)'
    BY <2>9 DEF Claims
  <2>11. RowOf(d)'
    BY <2>4, <2>5, <2>7 DEF RowOf
  <2>12. SweepOf(d)'
    BY <1>1, <2>6, <2>7 DEF SweepOf, Sweeping
  <2>13. RedriveOf(d)'
    BY <2>6, <2>7 DEF RedriveOf, Redriving
  <2>14. LettersOf(d)'
    <3>1. \A n \in 1..Len(letters') : ~Loose(n, d)'
      BY <2>7 DEF Lettered, Loose, Letter
    <3> QED
      BY <3>1 DEF LettersOf
  <2> QED
    BY <1>6, <2>10, <2>11, <2>12, <2>13, <2>14 DEF Turn
<1>10. CASE d = c /\ MarkDispatched(c)
  <2>1. call[d].at = "ok" /\ Rest(d) /\ letters' = letters
    BY <1>10 DEF MarkDispatched
  <2>2. /\ At(d, d) = "ok" /\ At(d, d)' = "idle" /\ \A b \in Callers \ {d} : At(b, d)' = At(b, d)
        /\ call'["redrive"].row = call["redrive"].row
    BY <1>0, <1>7, <1>10, <2>1, AtRest DEF Moves
  <2>3. event'[d].st = "dispatched"
    BY <1>0, <1>10 DEF MarkDispatched, EventType
  <2>4. At("sweep", d)' = At("sweep", d) /\ At("redrive", d)' = At("redrive", d)
    BY <1>0, <2>2
  <2>5. ~Sweeping(d) /\ ~Sweeping(d)'
    BY <1>1, <2>2, <2>4 DEF Turn, SweepOf, Sweeping
  <2>6. Claims(d)'
    BY <1>1, <1>5, <1>6, <2>2 DEF Turn, Claims, Before
  <2>7. RowOf(d)'
    BY <2>2, <2>3 DEF RowOf, Before
  <2>8. SweepOf(d)'
    BY <1>1, <2>4, <2>5 DEF SweepOf, Sweeping
  <2>9. RedriveOf(d)'
    BY <1>1, <2>1, <2>2, <2>3, <2>4 DEF Turn, RedriveOf
  <2>10. LettersOf(d)'
    BY <1>1, <1>6, <2>1, <2>2, <2>4 DEF Turn, LettersOf, Loose
  <2> QED
    BY <1>6, <2>6, <2>7, <2>8, <2>9, <2>10 DEF Turn
<1>11. CASE d = c /\ MarkFailed(c)
  <2>1. call[d].at = "failed" /\ Goto(d, "letter") /\ letters' = letters
    BY <1>11 DEF MarkFailed
  <2>2. At(d, d) = "failed" /\ Moves(d, d, "letter") /\ call'["redrive"].row = call["redrive"].row
    BY <1>0, <1>7, <1>11, <2>1, AtGoto DEF Points
  <2>3. event'[d].st = event[d].st /\ event'[d].fresh = TRUE
    <3>1. event' = [event EXCEPT ![d].attempts = @ + 1, ![d].fresh = TRUE]
      BY <1>11 DEF MarkFailed
    <3> QED
      BY <1>0, <3>1 DEF EventType
  <2>4. RowsKept(d)
    BY <1>1, <2>1, <2>2, <2>3 DEF RowsKept
  <2> QED
    BY <1>0, <1>1, <1>4, <2>2, <2>4, Moved DEF Before
<1>12. CASE d = c /\ SaveLetter(c)
  <2>1. call[d].at = "letter" /\ Rest(d) /\ event' = event
    BY <1>12 DEF SaveLetter
  <2>2. /\ At(d, d) = "letter" /\ At(d, d)' = "idle" /\ \A b \in Callers \ {d} : At(b, d)' = At(b, d)
    BY <1>0, <1>7, <1>12, <2>1, AtRest DEF Moves
  <2>3. /\ ~Lettered(d) /\ ~Sweeping(d) /\ ~Redriving(d) /\ event[d].st # "none"
    BY <1>0, <1>1, <2>2, Alone DEF Before
  <2>4. Untaken(d)' /\ ~AliveFor(d)'
    BY <1>0, <1>1, <1>6, <2>2 DEF Turn, Claims, Before, Untaken
  <2>5. At("sweep", d)' = "idle" /\ At("redrive", d)' = "idle"
    BY <1>0, <2>2, <2>3 DEF Sweeping, Redriving
  <2>6. \A n \in picked : n \in 1..Len(letters) /\ letters'[n].d # d
    BY <1>0, <1>3, <2>3 DEF Lettered, TypeOK
  <2>7. ~Sweeping(d)' /\ ~Redriving(d)'
    BY <1>1, <2>3, <2>5, <2>6 DEF Sweeping, Redriving
  <2>8. Claims(d)'
    BY <2>4 DEF Claims
  <2>9. RowOf(d)'
    BY <2>1, <2>2, <2>3, <2>4 DEF RowOf, Before
  <2>10. SweepOf(d)'
    BY <2>5, <2>7 DEF SweepOf, Sweeping
  <2>11. RedriveOf(d)'
    BY <1>1, <2>5, <2>6 DEF RedriveOf
  <2>12. LettersOf(d)'
    <3>1. Len(letters') = Len(letters) + 1
      BY <1>0, <1>12, Appending DEF SaveLetter
    <3>2. ASSUME NEW n \in 1..Len(letters), Loose(n, d)' PROVE FALSE
      BY <1>3, <2>3, <3>2 DEF Lettered, Loose, Letter
    <3>3. \A n \in 1..Len(letters') : n \in 1..Len(letters) \/ n = Len(letters) + 1
      BY <1>0, <3>1
    <3> QED
      BY <2>4, <3>2, <3>3 DEF LettersOf
  <2> QED
    BY <1>6, <2>8, <2>9, <2>10, <2>11, <2>12 DEF Turn
<1>13. CASE d = c /\ Age(c)
  <2>1. letters' = letters /\ call' = call /\ event'[d].st = event[d].st /\ At(d, d) = "idle"
    BY <1>0, <1>13 DEF Age, At, EventType
  <2>2. \A b : At(b, d)' = At(b, d)
    BY <2>1 DEF At, Busy
  <2>3. /\ Lettered(d)' = Lettered(d) /\ \A n : Loose(n, d)' = Loose(n, d)
        /\ Sweeping(d)' = Sweeping(d) /\ Redriving(d)' = Redriving(d)
    BY <1>1, <2>1, <2>2 DEF Lettered, Loose, Sweeping, Redriving
  <2>4. Claims(d)'
    BY <1>1, <1>5, <1>6, <2>2 DEF Turn, Claims
  <2>5. RowOf(d)'
    BY <1>1, <1>6, <2>1, <2>2, <2>3 DEF Turn, RowOf
  <2>6. SweepOf(d)'
    BY <1>1, <2>1, <2>2, <2>3 DEF Turn, SweepOf
  <2>7. RedriveOf(d)'
    BY <1>1, <2>1, <2>2 DEF Turn, RedriveOf
  <2>8. LettersOf(d)'
    BY <1>1, <1>6, <2>1, <2>2, <2>3 DEF Turn, LettersOf
  <2> QED
    BY <1>6, <2>4, <2>5, <2>6, <2>7, <2>8 DEF Turn
<1>14. CASE d = c /\ MarkLost(c)
  BY <1>14 DEF MarkLost
<1> QED
  BY <1>8, <1>9, <1>10, <1>11, <1>12, <1>13, <1>14 DEF Requests

LEMMA SweepElsewhere ==
  ASSUME Base, Base', Turns, SweepSteps, ~SweepStart, ~SweepRow, NEW d \in Deliveries \ raced', Deal # d
  PROVE  Turn(d)'
<1>0. /\ Typed /\ Typed' /\ TypeOK /\ "sweep" \in Callers /\ "sweep" # "redrive"
      /\ Len(letters) \in Nat /\ DOMAIN letters = 1..Len(letters) /\ letters \in Seq(LetterType)
      /\ event \in [Deliveries -> EventType]
  BY Constant, Types DEF Base, Typed
<1>1. /\ call["sweep"].at # "idle" /\ call["sweep"].d # d /\ Deal \in Deliveries
      /\ \/ Rest("sweep")
         \/ \E p \in {"close", "exhaust", "letter"} : Goto("sweep", p)
  <2>1. /\ call["sweep"].at # "idle"
        /\ \/ Rest("sweep")
           \/ \E p \in {"close", "exhaust", "letter"} : Goto("sweep", p)
    BY
    DEF SweepSteps, SweepMark, SweepClose, SweepRetry, SweepCount, SweepLetter,
        SweepExhaust, SweepLost
  <2>2. Deal \in Deliveries
    BY <1>0, <2>1, Types DEF Deal
  <2> QED
    BY <2>1, <2>2 DEF Deal
<1>2. CallsSame(d)
  <2>1. CASE Rest("sweep")
    BY <1>0, <1>1, <2>1, AtRest
  <2>2. ASSUME NEW p \in {"close", "exhaust", "letter"}, Goto("sweep", p) PROVE CallsSame(d)
    BY <1>0, <1>1, <2>2, AtGoto DEF Points
  <2> QED
    BY <1>1, <2>1, <2>2
<1>3. event'[d] = event[d]
  BY <1>0
  DEF SweepSteps, SweepMark, SweepClose, SweepRetry, SweepCount, SweepLetter,
      SweepExhaust, SweepLost, rows
<1>4. /\ UNCHANGED <<job, handled, swept, picked>> /\ batches' = batches /\ d \notin raced /\ Turn(d)
  <2>1. raced \subseteq raced'
    BY
    DEF SweepSteps, SweepMark, SweepClose, SweepRetry, SweepCount, SweepLetter,
        SweepExhaust, SweepLost, history
  <2> QED
    BY <2>1
    DEF SweepSteps, SweepMark, SweepClose, SweepRetry, SweepCount, SweepLetter,
        SweepExhaust, SweepLost,
       batches, queue, history, Turns
<1>5. LettersSame(d) /\ \A n \in 1..Len(letters) : letters'[n].d = letters[n].d
  <2>1. CASE letters' = letters
    BY <2>1 DEF LettersSame
  <2>2. CASE SweepLetter
    <3>1. Len(letters) < MaxLetters /\ letters' = Append(letters, Letter(Deal))
      BY <2>2 DEF SweepLetter
    <3>2. PICK c \in Deliveries : c = Deal
      BY <1>1
    <3>3. letters' = Append(letters, Letter(c)) /\ c # d
      BY <3>1, <3>2
    <3> QED
      BY <1>0, <3>1, <3>3, LettersElsewhere, Appending
  <2>3. CASE SweepClose
    <3>1. letters' = [n \in 1..Len(letters) |->
            IF letters[n].d = Deal THEN [letters[n] EXCEPT !.redriven = TRUE] ELSE letters[n]]
      BY <1>0, <2>3 DEF SweepClose
    <3>2. \A n \in 1..Len(letters) : letters[n] \in LetterType
      BY <1>0
    <3>3. \A n \in 1..Len(letters) : letters'[n].d = letters[n].d
      BY <3>1, <3>2 DEF LetterType
    <3>4. Len(letters') = Len(letters)
      <4>1. letters' \in Seq(LetterType)
        BY <1>0 DEF Typed, TypeOK, LetterType
      <4>2. DOMAIN letters' = 1..Len(letters') /\ Len(letters') \in Nat
        BY <4>1
      <4> QED
        BY <1>0, <3>1, <4>2
    <3> QED
      BY <1>1, <3>1, <3>3, <3>4 DEF LettersSame
  <2>4. ~SweepLetter /\ ~SweepClose => letters' = letters
    BY
    DEF SweepSteps, SweepMark, SweepRetry, SweepCount, SweepExhaust, SweepLost,
        rows
  <2> QED
    BY <2>1, <2>2, <2>3, <2>4
<1>6. JobsShrink(d) /\ BatchesShrink(d)
  BY <1>0, <1>4, <1>5, JobsStay, BatchesStay
<1> QED
  BY <1>0, <1>2, <1>3, <1>4, <1>5, <1>6, TurnStays

(* A sweep reads the rows nobody has in hand, and takes them up one by one. *)
LEMMA TurnSwept ==
  ASSUME Base, Base', Own, Turns, SweepStart \/ SweepRow, NEW d \in Deliveries \ raced'
  PROVE  Turn(d)'
<1>0. /\ Typed /\ Typed' /\ TypeOK /\ "sweep" \in Callers /\ "sweep" # "redrive"
      /\ d \in Callers /\ d # "sweep" /\ "redrive" \in Callers
  BY Constant DEF Base, Typed
<1>1. /\ UNCHANGED <<event, letters, job, handled, picked>> /\ d \notin raced /\ Turn(d)
      /\ call["sweep"].at = "idle" /\ At("sweep", d) = "idle"
  <2>1. raced \subseteq raced'
    BY DEF SweepStart, SweepRow, history
  <2> QED
    BY <2>1 DEF SweepStart, SweepRow, rows, queue, history, Turns, At, Busy
<1>2. JobsShrink(d) /\ LettersSame(d)
  BY <1>0, <1>1, JobsStay DEF LettersSame
<1>3. (AliveFor(d)' => AliveFor(d)) /\ (Untaken(d) => Untaken(d)') /\ Single(d)'
  BY <1>1, <1>2, Shrunk DEF Turn
<1>4. CASE SweepStart
  <2>1. call' = call
    BY <1>4 DEF SweepStart
  <2>2. CASE ~(event[d].st = "pending" /\ ~event[d].fresh)
    <3>1. \A s \in swept' : s.d # d
      BY <1>4, <2>2 DEF SweepStart
    <3>2. BatchesShrink(d)
      BY <1>1, <3>1 DEF BatchesShrink
    <3> QED
      BY <1>0, <1>1, <1>2, <2>1, <3>2, CallsStay, TurnStays
  <2>3. CASE event[d].st = "pending" /\ ~event[d].fresh
    <3>1. \A b : At(b, d)' = At(b, d)
      BY <2>1 DEF At, Busy
    <3>2. Lettered(d)' = Lettered(d) /\ Redriving(d)' = Redriving(d) /\ \A n : Loose(n, d)' = Loose(n, d)
      BY <1>1, <2>1, <3>1 DEF Lettered, Redriving, Loose
    <3>3. ~Redriving(d)
      <4>1. ~Busy("redrive", d) /\ \A n \in picked : letters[n].d # d
        BY <1>4, <2>3 DEF SweepStart
      <4> QED
        BY <4>1 DEF Redriving, At
    <3>4. At(d, d) = "idle"
      BY <1>1, <2>3 DEF Turn, RowOf
    <3>5. \A s, t \in swept' : s.d = d /\ t.d = d => s = t
      BY <1>4 DEF SweepStart
    <3>6. Claims(d)' /\ RowOf(d)' /\ RedriveOf(d)' /\ LettersOf(d)'
      <4>1. Claims(d)'
        BY <1>1, <1>3, <3>1 DEF Turn, Claims
      <4>2. RowOf(d)'
        BY <1>1, <1>3, <3>1, <3>2 DEF Turn, RowOf
      <4>3. RedriveOf(d)'
        BY <1>1, <2>1, <3>1 DEF Turn, RedriveOf
      <4>4. LettersOf(d)'
        BY <1>1, <1>3, <3>1, <3>2 DEF Turn, LettersOf
      <4> QED
        BY <4>1, <4>2, <4>3, <4>4
    <3>7. SweepOf(d)'
      BY <1>1, <2>3, <3>1, <3>2, <3>3, <3>4, <3>5 DEF SweepOf
    <3> QED
      BY <1>3, <3>6, <3>7 DEF Turn
  <2> QED
    BY <2>2, <2>3
<1>5. CASE SweepRow
  <2>1. PICK s \in swept :
          /\ swept' = swept \ {s}
          /\ IF enabled
             THEN call' = [call EXCEPT !["sweep"] = [at |-> "add", d |-> s.d, tries |-> s.tries, row |-> 0]]
             ELSE UNCHANGED call
    BY <1>5 DEF SweepRow
  <2>2. BatchesShrink(d)
    BY <1>1, <2>1 DEF BatchesShrink
  <2>3. CASE ~enabled
    BY <1>0, <1>1, <1>2, <2>1, <2>2, <2>3, CallsStay, TurnStays
  <2>4. CASE enabled
    <3> DEFINE r == [at |-> "add", d |-> s.d, tries |-> s.tries, row |-> 0]
    <3>1. r \in CallType /\ r.d = s.d /\ r.d \in Deliveries /\ r.at = "add"
      <4>1. s \in [d : Deliveries, tries : Nat]
        BY <1>0, <2>1 DEF TypeOK
      <4>2. s.d \in Deliveries /\ s.tries \in Nat
        BY <4>1
      <4>3. 0 \in 0..MaxLetters
        BY Constant
      <4>4. "add" \in Points /\ s.d \in Deliveries \cup {""}
        BY <4>2 DEF Points
      <4>5. r \in CallType
        BY <4>2, <4>3, <4>4 DEF CallType
      <4> QED
        BY <4>2, <4>5
    <3>2. call' = [call EXCEPT !["sweep"] = r]
      BY <2>1, <2>4
    <3> HIDE DEF r
    <3>3. /\ r.d # d => CallsSame(d)
          /\ r.d = d => Moves("sweep", d, "add")
          /\ call'["redrive"].row = call["redrive"].row
      BY <1>0, <1>1, <3>1, <3>2, AtBegin
    <3>4. CASE s.d # d
      BY <1>0, <1>1, <1>2, <2>2, <3>1, <3>3, <3>4, TurnStays
    <3>5. CASE s.d = d
      <4>1. Moves("sweep", d, "add")
        BY <3>1, <3>3, <3>5
      <4>2. Sweeping(d)
        BY <2>1, <3>5 DEF Sweeping
      <4>3. At(d, d) = "idle" /\ ~Redriving(d) /\ event[d].st = "pending"
        BY <1>1, <4>2 DEF Turn, SweepOf
      <4>4. At("redrive", d) = "idle"
        BY <4>3 DEF Redriving
      <4>5. Untaken(d)
        BY <1>1, <4>3, <4>4 DEF Turn, RowOf, After
      <4>6. Untaken(d)' /\ ~AliveFor(d)'
        BY <1>3, <4>5 DEF Untaken
      <4>7. /\ At("sweep", d)' = "add" /\ At(d, d)' = "idle" /\ At("redrive", d)' = "idle"
            /\ \A b \in Callers : b # "sweep" => At(b, d)' = At(b, d)
        BY <1>0, <4>1, <4>3, <4>4 DEF Moves
      <4>8. \A t \in swept' : t.d # d
        BY <1>1, <2>1, <3>5 DEF Turn, SweepOf
      <4>9. ~Redriving(d)'
        BY <1>1, <4>3, <4>7 DEF Redriving
      <4>10. Claims(d)'
        BY <4>6 DEF Claims
      <4>11. RowOf(d)'
        BY <1>1, <4>3, <4>6, <4>7 DEF RowOf, Before
      <4>12. SweepOf(d)'
        BY <1>1, <4>3, <4>7, <4>8, <4>9 DEF SweepOf
      <4>13. RedriveOf(d)'
        BY <1>1, <4>7 DEF Turn, RedriveOf
      <4>14. LettersOf(d)'
        <5>1. \A n : Loose(n, d)' => Loose(n, d)
          BY <1>1, <4>4, <4>7 DEF Loose, After
        <5>2. At("sweep", d) \notin After
          BY <1>1 DEF After
        <5> QED
          BY <1>1, <4>6, <5>1, <5>2 DEF Turn, LettersOf
      <4> QED
        BY <1>3, <4>10, <4>11, <4>12, <4>13, <4>14 DEF Turn
    <3> QED
      BY <3>4, <3>5
  <2> QED
    BY <2>3, <2>4
<1> QED
  BY <1>4, <1>5

(* What is left to show of a step of the sweep about d: nobody else has d. *)
LEMMA SweepOn ==
  ASSUME Typed, Typed', Own, NEW d \in Deliveries, Turn(d), At("sweep", d) # "idle",
         NEW p \in {"idle", "close", "exhaust"}, Moves("sweep", d, p), JobsShrink(d),
         swept' = swept, picked' = picked, \A n \in 1..Len(letters) : letters'[n].d = letters[n].d,
         event'[d].st # "none",
         p # "idle" => event'[d].st = IF p = "close" THEN "dispatched" ELSE "pending",
         p = "exhaust" \/ (p = "idle" /\ event'[d].st = "pending") => Untaken(d),
         p # "close" => \A n \in 1..Len(letters') : letters'[n] = Letter(d) => Untaken(d),
         p # "close" => \A m, n \in 1..Len(letters') : letters'[m] = Letter(d) /\ letters'[n] = Letter(d) => m = n
  PROVE  Turn(d)'
<1>0. /\ d \in Callers /\ d # "sweep" /\ "sweep" \in Callers /\ "redrive" \in Callers
      /\ Callers = Deliveries \cup {"sweep", "redrive"}
  BY Constant DEF Callers
<1>1. Sweeping(d)
  BY DEF Sweeping
<1>2. At(d, d) = "idle" /\ ~Redriving(d)
  BY <1>1 DEF Turn, SweepOf
<1>3. At("redrive", d) = "idle" /\ \A n \in picked : letters[n].d # d
  BY <1>2 DEF Redriving
<1>4. \A s \in swept : s.d # d
  BY DEF Turn, SweepOf
<1>5. /\ At("sweep", d)' = p /\ At(d, d)' = "idle" /\ At("redrive", d)' = "idle"
      /\ \A b \in Callers : b # "sweep" => At(b, d)' = "idle"
  BY <1>0, <1>2, <1>3 DEF Moves, Own, At, Busy
<1>6. (Untaken(d) => Untaken(d)') /\ Single(d)'
  BY Shrunk DEF Turn
<1>7. \A n \in picked' : letters'[n].d # d
  BY <1>3 DEF Typed, TypeOK
<1>8. ~Redriving(d)'
  BY <1>5, <1>7 DEF Redriving
<1>9. Claims(d)'
  BY <1>5, <1>6 DEF Claims, Before
<1>10. RowOf(d)'
  BY <1>5, <1>6 DEF RowOf, Before, After
<1>11. SweepOf(d)'
  BY <1>4, <1>5, <1>8 DEF SweepOf, Sweeping
<1>12. RedriveOf(d)'
  BY <1>5, <1>7 DEF RedriveOf
<1>13. LettersOf(d)'
  BY <1>5, <1>6 DEF LettersOf, Loose, After
<1> QED
  BY <1>6, <1>9, <1>10, <1>11, <1>12, <1>13 DEF Turn

LEMMA TurnSweeping ==
  ASSUME Base, Base', Own, Turns, SweepSteps, ~SweepStart, ~SweepRow, NEW d \in Deliveries \ raced', Deal = d
  PROVE  Turn(d)'
<1>0. /\ Typed /\ Typed' /\ TypeOK /\ "sweep" \in Callers /\ "sweep" # "redrive"
      /\ Len(letters) \in Nat /\ DOMAIN letters = 1..Len(letters) /\ letters \in Seq(LetterType)
      /\ \A n \in 1..Len(letters) : letters[n] \in LetterType
      /\ event \in [Deliveries -> EventType]
  BY Constant, Types DEF Base, Typed
<1>1. /\ UNCHANGED <<job, handled, swept, picked>> /\ d \notin raced /\ Turn(d) /\ ~SweepLost
  <2>1. raced \subseteq raced'
    BY
    DEF SweepSteps, SweepMark, SweepClose, SweepRetry, SweepCount, SweepLetter,
        SweepExhaust, SweepLost, history
  <2>2. ~SweepLost
    BY DEF SweepLost
  <2> QED
    BY <2>1, <2>2
    DEF SweepSteps, SweepMark, SweepClose, SweepRetry, SweepCount, SweepLetter,
        SweepExhaust,
       batches, queue, history, Turns
<1>2. /\ call["sweep"].at # "idle" /\ call["sweep"].d = d
  BY
  DEF SweepSteps, SweepMark, SweepClose, SweepRetry, SweepCount, SweepLetter,
      SweepExhaust, SweepLost, Deal
<1>3. At("sweep", d) = call["sweep"].at
  BY <1>2 DEF At, Busy
<1>4. /\ \A p \in {"close", "exhaust", "letter"} : Goto("sweep", p) => Moves("sweep", d, p)
      /\ Rest("sweep") => Moves("sweep", d, "idle")
      /\ (Rest("sweep") \/ \E p \in {"close", "exhaust", "letter"} : Goto("sweep", p)) =>
           call'["redrive"].row = call["redrive"].row
  <2>1. ASSUME NEW p \in {"close", "exhaust", "letter"}, Goto("sweep", p)
        PROVE  Moves("sweep", d, p) /\ call'["redrive"].row = call["redrive"].row
    BY <1>0, <1>2, <2>1, AtGoto DEF Points
  <2>2. Rest("sweep") => Moves("sweep", d, "idle") /\ call'["redrive"].row = call["redrive"].row
    BY <1>0, <1>2, AtRest
  <2> QED
    BY <2>1, <2>2
<1>5. (letters' = letters) => JobsShrink(d)
  BY <1>0, <1>1, JobsStay
<1>6. At("sweep", d) \in Before => Untaken(d)
  BY <1>0, <1>1 DEF Turn, Claims
<1>7. At("redrive", d) = "idle"
  <2>1. ~Redriving(d)
    BY <1>1, <1>2, <1>3 DEF Turn, SweepOf, Sweeping
  <2> QED
    BY <2>1 DEF Redriving
<1>8. \A n : letters[n] = Letter(d) => Loose(n, d)
  BY <1>7 DEF Loose, After
<1>9. CASE SweepMark
  <2>1. /\ At("sweep", d) = "ok" /\ Moves("sweep", d, "close") /\ letters' = letters
        /\ event' = [event EXCEPT ![d] = [@ EXCEPT !.st = "dispatched", !.payload = FALSE, !.fresh = TRUE]]
    BY <1>3, <1>4, <1>9 DEF SweepMark
  <2>2. event'[d].st = "dispatched"
    BY <1>0, <2>1 DEF EventType
  <2> QED
    BY <1>0, <1>1, <1>5, <2>1, <2>2, SweepOn
<1>10. CASE SweepClose
  <2>1. /\ At("sweep", d) = "close" /\ Moves("sweep", d, "idle") /\ event' = event
        /\ letters' = [n \in 1..Len(letters) |->
             IF letters[n].d = d THEN [letters[n] EXCEPT !.redriven = TRUE] ELSE letters[n]]
    BY <1>0, <1>3, <1>4, <1>10 DEF SweepClose
  <2>2. event[d].st = "dispatched"
    BY <1>1, <2>1 DEF Turn, SweepOf, Sweeping
  <2>3. \A n \in 1..Len(letters) : /\ letters'[n].d = letters[n].d
                                   /\ letters[n].d = d => letters'[n].redriven
    BY <1>0, <2>1 DEF LetterType
  <2>4. Len(letters') = Len(letters)
    <3>1. letters' \in Seq(LetterType)
      BY <1>0 DEF Typed, TypeOK, LetterType
    <3>2. DOMAIN letters' = 1..Len(letters') /\ Len(letters') \in Nat
      BY <3>1
    <3> QED
      BY <1>0, <2>1, <3>2
  <2>5. \A n \in 1..Len(letters') : letters'[n] # Letter(d)
    BY <2>3, <2>4 DEF Letter
  <2>6. JobsShrink(d)
    BY <1>0, <1>1, <2>3, JobsStay
  <2> QED
    BY <1>0, <1>1, <2>1, <2>2, <2>3, <2>5, <2>6, SweepOn
<1>11. CASE SweepRetry
  <2>1. /\ At("sweep", d) = "failed" /\ Moves("sweep", d, "idle") /\ letters' = letters
        /\ event' = [event EXCEPT ![d] = [@ EXCEPT !.attempts = call["sweep"].tries + 1, !.fresh = TRUE]]
    BY <1>3, <1>4, <1>11 DEF SweepRetry
  <2>2. event'[d].st = event[d].st /\ event[d].st = "pending"
    <3>1. event[d].st = "pending"
      BY <1>1, <2>1 DEF Turn, SweepOf, Sweeping
    <3> QED
      BY <1>0, <2>1, <3>1 DEF EventType
  <2>3. Untaken(d) /\ \A m, n \in 1..Len(letters) : letters[m] = Letter(d) /\ letters[n] = Letter(d) => m = n
    BY <1>1, <1>6, <1>8, <2>1 DEF Before, After, Turn, LettersOf
  <2> QED
    BY <1>0, <1>1, <1>5, <2>1, <2>2, <2>3, SweepOn
<1>12. CASE SweepCount
  <2>1. /\ At("sweep", d) = "failed" /\ letters' = letters /\ event' = event
        /\ Goto("sweep", IF \E n \in DOMAIN letters : letters[n].d = Deal THEN "exhaust" ELSE "letter")
    BY <1>3, <1>12 DEF SweepCount, rows
  <2>2. CASE Lettered(d)
    <3>1. Goto("sweep", "exhaust")
      BY <1>0, <2>1, <2>2 DEF Lettered
    <3>2. Moves("sweep", d, "exhaust") /\ RowsKept(d)
      BY <1>1, <1>4, <2>1, <3>1 DEF RowsKept
    <3> QED
      BY <1>0, <1>1, <1>5, <2>1, <3>2, Moved DEF Before
  <2>3. CASE ~Lettered(d)
    <3>1. Goto("sweep", "letter")
      BY <1>0, <2>1, <2>3 DEF Lettered
    <3>2. Moves("sweep", d, "letter") /\ RowsKept(d)
      BY <1>1, <1>4, <2>1, <3>1 DEF RowsKept
    <3> QED
      BY <1>0, <1>1, <1>5, <2>1, <2>3, <3>2, Moved DEF Before
  <2> QED
    BY <2>2, <2>3
<1>13. CASE SweepLetter
  <2>1. /\ At("sweep", d) = "letter" /\ Moves("sweep", d, "exhaust") /\ event' = event
        /\ Len(letters) < MaxLetters /\ letters' = Append(letters, Letter(d))
    BY <1>3, <1>4, <1>13 DEF SweepLetter
  <2>2. ~Lettered(d) /\ Untaken(d) /\ event[d].st = "pending"
    BY <1>1, <1>6, <2>1 DEF Before, Turn, SweepOf, Sweeping
  <2>3. /\ Len(letters') = Len(letters) + 1
        /\ \A n \in 1..Len(letters) : letters'[n] = letters[n]
    BY <1>0, <2>1, Appending
  <2>4. \A n \in 1..Len(letters) : letters'[n] # Letter(d)
    BY <2>2, <2>3 DEF Lettered, Letter
  <2>5. \A n \in 1..Len(letters') : letters'[n] = Letter(d) => n = Len(letters) + 1
    BY <1>0, <2>3, <2>4
  <2>6. JobsShrink(d)
    BY <1>0, <1>1, <2>3, JobsStay
  <2> QED
    BY <1>0, <1>1, <2>1, <2>2, <2>3, <2>5, <2>6, SweepOn
<1>14. CASE SweepExhaust
  <2>1. /\ At("sweep", d) = "exhaust" /\ Moves("sweep", d, "idle") /\ letters' = letters
        /\ event' = [event EXCEPT ![d] = [st |-> "failed", attempts |-> call["sweep"].tries + 1,
                                           payload |-> FALSE, fresh |-> TRUE]]
    BY <1>3, <1>4, <1>14 DEF SweepExhaust
  <2>2. event'[d].st = "failed"
    BY <1>0, <2>1
  <2>3. Untaken(d) /\ \A m, n \in 1..Len(letters) : letters[m] = Letter(d) /\ letters[n] = Letter(d) => m = n
    BY <1>1, <1>6, <1>8, <2>1 DEF Before, After, Turn, LettersOf
  <2> QED
    BY <1>0, <1>1, <1>5, <2>1, <2>2, <2>3, SweepOn
<1> QED
  BY <1>1, <1>9, <1>10, <1>11, <1>12, <1>13, <1>14 DEF SweepSteps

LEMMA RedriveElsewhere ==
  ASSUME Base, Base', Turns, RedriveSteps, ~RedriveStart, ~RedriveRow, NEW d \in Deliveries \ raced',
         call["redrive"].d # d
  PROVE  Turn(d)'
<1>0. /\ Typed /\ Typed' /\ TypeOK /\ "redrive" \in Callers
      /\ Len(letters) \in Nat /\ DOMAIN letters = 1..Len(letters) /\ letters \in Seq(LetterType)
      /\ \A n \in 1..Len(letters) : letters[n] \in LetterType
      /\ event \in [Deliveries -> EventType]
  BY Constant, Types DEF Base, Typed
<1>1. /\ call["redrive"].at # "idle" /\ call["redrive"].d \in Deliveries
      /\ Rest("redrive") \/ Goto("redrive", "close")
  <2>1. call["redrive"].at # "idle" /\ (Rest("redrive") \/ Goto("redrive", "close"))
    BY DEF RedriveSteps, RedriveRetire, RedriveClose, RedriveFailed, RedriveLost
  <2> QED
    BY <1>0, <2>1, Types
<1>2. CallsSame(d)
  <2>1. CASE Rest("redrive")
    BY <1>0, <1>1, <2>1, AtRest
  <2>2. CASE Goto("redrive", "close")
    BY <1>0, <1>1, <2>2, AtGoto DEF Points
  <2> QED
    BY <1>1, <2>1, <2>2
<1>3. event'[d] = event[d]
  BY <1>0
  DEF RedriveSteps, RedriveRetire, RedriveClose, RedriveFailed, RedriveLost, rows
<1>4. /\ UNCHANGED <<job, handled, swept>> /\ picked' \subseteq picked /\ d \notin raced /\ Turn(d)
  <2>1. raced \subseteq raced'
    BY
    DEF RedriveSteps, RedriveRetire, RedriveClose, RedriveFailed, RedriveLost,
        history
  <2> QED
    BY <2>1
    DEF RedriveSteps, RedriveRetire, RedriveClose, RedriveFailed, RedriveLost,
        batches, queue, history, Turns
<1>5. LettersSame(d) /\ \A n \in 1..Len(letters) : letters'[n].d = letters[n].d
  <2>1. CASE RedriveClose
    <3>1. /\ call["redrive"].row \in 1..Len(letters) /\ letters[call["redrive"].row].d # d
          /\ letters' = [letters EXCEPT ![call["redrive"].row].redriven = TRUE]
      BY <1>0, <1>1, <2>1 DEF RedriveClose, Typed, RowHeld
    <3>2. /\ \A n \in 1..Len(letters) : letters'[n].d = letters[n].d
          /\ \A n \in 1..Len(letters) : n # call["redrive"].row => letters'[n] = letters[n]
      BY <1>0, <3>1 DEF LetterType
    <3>3. Len(letters') = Len(letters)
      <4>1. letters' \in Seq(LetterType)
        BY <1>0 DEF Typed, TypeOK, LetterType
      <4>2. DOMAIN letters' = 1..Len(letters') /\ Len(letters') \in Nat
        BY <4>1
      <4> QED
        BY <1>0, <3>1, <4>2
    <3> QED
      BY <3>1, <3>2, <3>3 DEF LettersSame
  <2>2. CASE ~RedriveClose
    BY <2>2
    DEF RedriveSteps, RedriveRetire, RedriveFailed, RedriveLost, rows, LettersSame
  <2> QED
    BY <2>1, <2>2
<1>6. JobsShrink(d)
  BY <1>0, <1>4, <1>5, JobsStay
<1>7. BatchesShrink(d)
  BY <1>0, <1>4, <1>5 DEF BatchesShrink, TypeOK
<1> QED
  BY <1>0, <1>2, <1>3, <1>4, <1>5, <1>6, <1>7, TurnStays

(* A redrive reads the open letters, and takes them up one by one. *)
LEMMA TurnPicked ==
  ASSUME Base, Base', Own, Turns, RedriveStart \/ RedriveRow, NEW d \in Deliveries \ raced'
  PROVE  Turn(d)'
<1>0. /\ Typed /\ Typed' /\ TypeOK /\ "sweep" \in Callers /\ "sweep" # "redrive"
      /\ d \in Callers /\ d # "redrive" /\ "redrive" \in Callers
      /\ \A n \in 1..Len(letters) : letters[n] \in LetterType /\ n \in 1..MaxLetters
      /\ DOMAIN letters = 1..Len(letters)
  BY Constant, Types DEF Base, Typed
<1>1. /\ UNCHANGED <<event, letters, job, handled, swept>> /\ d \notin raced /\ Turn(d)
      /\ call["redrive"].at = "idle" /\ At("redrive", d) = "idle"
  <2>1. raced \subseteq raced'
    BY DEF RedriveStart, RedriveRow, history
  <2> QED
    BY <2>1 DEF RedriveStart, RedriveRow, rows, queue, history, Turns, At, Busy
<1>2. JobsShrink(d) /\ LettersSame(d)
  BY <1>0, <1>1, JobsStay DEF LettersSame
<1>3. (AliveFor(d)' => AliveFor(d)) /\ (Untaken(d) => Untaken(d)') /\ Single(d)'
  BY <1>1, <1>2, Shrunk DEF Turn
<1>4. CASE RedriveStart
  <2>1. call' = call /\ picked' = {n \in 1..Len(letters) : ~letters[n].redriven}
    BY <1>0, <1>4 DEF RedriveStart
  <2>2. CASE \A n \in picked' : letters[n].d # d
    <3>1. BatchesShrink(d)
      BY <1>1, <2>2 DEF BatchesShrink
    <3> QED
      BY <1>0, <1>1, <1>2, <2>1, <3>1, CallsStay, TurnStays
  <2>3. CASE \E n \in picked' : letters[n].d = d
    <3>1. \A b : At(b, d)' = At(b, d)
      BY <2>1 DEF At, Busy
    <3>2. /\ Lettered(d)' = Lettered(d) /\ Sweeping(d)' = Sweeping(d) /\ \A n : Loose(n, d)' = Loose(n, d)
      BY <1>1, <2>1, <3>1 DEF Lettered, Sweeping, Loose
    <3>3. ~Sweeping(d)
      <4>1. PICK n \in picked' : letters[n].d = d
        BY <2>3
      <4>2. ~(Busy("sweep", letters[n].d) \/ \E s \in swept : s.d = letters[n].d)
        BY <1>4, <4>1 DEF RedriveStart
      <4> QED
        BY <4>1, <4>2 DEF Sweeping, At
    <3>4. \A n \in picked' : letters[n].d = d => letters[n] = Letter(d)
      BY <1>0, <2>1 DEF LetterType, Letter
    <3>5. Claims(d)'
      BY <1>1, <1>3, <3>1 DEF Turn, Claims
    <3>6. RowOf(d)'
      BY <1>1, <1>3, <3>1, <3>2 DEF Turn, RowOf
    <3>7. SweepOf(d)'
      BY <1>1, <3>1, <3>2, <3>3 DEF SweepOf, Sweeping, Turn
    <3>8. RedriveOf(d)'
      BY <1>1, <2>1, <3>1, <3>4 DEF RedriveOf
    <3>9. LettersOf(d)'
      BY <1>1, <1>3, <3>1, <3>2 DEF Turn, LettersOf
    <3> QED
      BY <1>3, <3>5, <3>6, <3>7, <3>8, <3>9 DEF Turn
  <2> QED
    BY <2>2, <2>3
<1>5. CASE RedriveRow
  <2>1. PICK n \in picked :
          /\ picked' = picked \ {n}
          /\ call' = [call EXCEPT !["redrive"] = [at |-> "add", d |-> letters[n].d, tries |-> 0, row |-> n]]
    BY <1>5 DEF RedriveRow
  <2>2. BatchesShrink(d)
    BY <1>1, <2>1 DEF BatchesShrink
  <2> DEFINE r == [at |-> "add", d |-> letters[n].d, tries |-> 0, row |-> n]
  <2>3. n \in 1..Len(letters) /\ letters[n].d \in Deliveries /\ n \in 0..MaxLetters
    <3>1. n \in 1..Len(letters) /\ n \in 1..MaxLetters /\ letters[n] \in LetterType
      BY <1>0, <2>1 DEF TypeOK
    <3> QED
      BY <3>1, Constant DEF LetterType
  <2>4. r \in CallType /\ r.d = letters[n].d /\ r.d \in Deliveries /\ r.at = "add" /\ r.row = n
    <3>1. "add" \in Points /\ letters[n].d \in Deliveries \cup {""} /\ 0 \in Nat
      BY <2>3 DEF Points
    <3>2. r \in CallType
      BY <2>3, <3>1 DEF CallType
    <3> QED
      BY <2>3, <3>2
  <2>5. call' = [call EXCEPT !["redrive"] = r]
    BY <2>1
  <2> HIDE DEF r
  <2>6. /\ r.d # d => CallsSame(d)
        /\ r.d = d => Moves("redrive", d, "add")
    BY <1>0, <1>1, <2>4, <2>5, AtBegin
  <2>7. CASE letters[n].d # d
    BY <1>0, <1>1, <1>2, <2>2, <2>4, <2>6, <2>7, TurnStays
  <2>8. CASE letters[n].d = d
    <3>1. Moves("redrive", d, "add") /\ call'["redrive"].row = n
      BY <1>0, <2>4, <2>5, <2>6, <2>8, Types
    <3>2. Redriving(d) /\ ~Sweeping(d) /\ At("sweep", d) = "idle"
      BY <1>1, <2>1, <2>8 DEF Redriving, Turn, SweepOf, Sweeping
    <3>3. \A m \in picked : letters[m].d = d => letters[m] = Letter(d) /\ Loose(m, d) /\ m \in 1..Len(letters)
      BY <1>0, <1>1 DEF Turn, RedriveOf, Loose, After, TypeOK
    <3>4. Untaken(d) /\ \A m \in picked : letters[m].d = d => m = n
      BY <1>1, <2>1, <2>8, <3>2, <3>3 DEF Turn, LettersOf, After
    <3>5. Untaken(d)' /\ ~AliveFor(d)'
      BY <1>3, <3>4 DEF Untaken
    <3>6. /\ At("redrive", d)' = "add" /\ At(d, d)' = At(d, d) /\ At("sweep", d)' = "idle"
          /\ \A b \in Callers : b # "redrive" => At(b, d)' = At(b, d)
      BY <1>0, <3>1, <3>2 DEF Moves
    <3>7. /\ Lettered(d)' = Lettered(d) /\ ~Sweeping(d)' /\ \A m : Loose(m, d)' => Loose(m, d)
      BY <1>1, <3>2, <3>6 DEF Lettered, Sweeping, Loose, After
    <3>8. Claims(d)'
      BY <1>1, <1>3, <3>5, <3>6 DEF Turn, Claims
    <3>9. RowOf(d)'
      BY <1>1, <1>3, <3>5, <3>6, <3>7 DEF Turn, RowOf
    <3>10. SweepOf(d)'
      BY <1>1, <3>6, <3>7 DEF SweepOf, Sweeping
    <3>11. RedriveOf(d)'
      BY <1>1, <2>1, <2>8, <3>1, <3>3, <3>4, <3>6 DEF RedriveOf
    <3>12. LettersOf(d)'
      BY <1>1, <3>2, <3>5, <3>7 DEF Turn, LettersOf, After
    <3> QED
      BY <1>3, <3>8, <3>9, <3>10, <3>11, <3>12 DEF Turn
  <2> QED
    BY <2>7, <2>8
<1> QED
  BY <1>4, <1>5

LEMMA TurnRedriving ==
  ASSUME Base, Base', Own, Turns, RedriveSteps, ~RedriveStart, ~RedriveRow, NEW d \in Deliveries \ raced',
         call["redrive"].d = d
  PROVE  Turn(d)'
<1>0. /\ Typed /\ Typed' /\ TypeOK /\ "redrive" \in Callers /\ "sweep" \in Callers /\ "sweep" # "redrive"
      /\ d \in Callers /\ d # "redrive" /\ d # "sweep"
      /\ Len(letters) \in Nat /\ DOMAIN letters = 1..Len(letters) /\ letters \in Seq(LetterType)
      /\ \A n \in 1..Len(letters) : letters[n] \in LetterType
      /\ event \in [Deliveries -> EventType]
  BY Constant, Types DEF Base, Typed
<1>1. /\ UNCHANGED <<job, handled, swept, picked>> /\ d \notin raced /\ Turn(d) /\ ~RedriveLost
  <2>1. raced \subseteq raced'
    BY
    DEF RedriveSteps, RedriveRetire, RedriveClose, RedriveFailed, RedriveLost,
        history
  <2>2. ~RedriveLost
    BY DEF RedriveLost
  <2> QED
    BY <2>1, <2>2
    DEF RedriveSteps, RedriveRetire, RedriveClose, RedriveFailed, batches, queue,
        history, Turns
<1>2. /\ call["redrive"].at # "idle" /\ At("redrive", d) = call["redrive"].at
  BY
  DEF RedriveSteps, RedriveRetire, RedriveClose, RedriveFailed, RedriveLost, At,
      Busy
<1>3. /\ Goto("redrive", "close") => Moves("redrive", d, "close") /\ call'["redrive"].row = call["redrive"].row
      /\ Rest("redrive") => Moves("redrive", d, "idle")
  BY <1>0, <1>2, AtGoto, AtRest DEF Points
<1>4. /\ call["redrive"].row \in 1..Len(letters) /\ letters[call["redrive"].row].d = d
  BY <1>0, <1>2 DEF Typed, RowHeld
<1>5. Redriving(d) /\ Lettered(d) /\ ~Sweeping(d) /\ event[d].st # "none" /\ At("sweep", d) = "idle"
  <2>1. Redriving(d) /\ Lettered(d)
    BY <1>2, <1>4 DEF Redriving, Lettered
  <2> QED
    BY <1>1, <2>1 DEF Turn, SweepOf, RowOf, Sweeping
<1>6. \A n \in picked : letters[n].d # d
  BY <1>1, <1>2 DEF Turn, RedriveOf
<1>7. CASE RedriveRetire
  <2>1. At("redrive", d) = "ok" /\ Moves("redrive", d, "close") /\ call'["redrive"].row = call["redrive"].row /\ letters' = letters
    BY <1>2, <1>3, <1>7 DEF RedriveRetire
  <2>2. event'[d].st \notin {"pending", "none"}
    <3>1. CASE event[d].st = "pending"
      <4>1. event' = [event EXCEPT ![d] = [@ EXCEPT !.st = "dispatched", !.payload = FALSE, !.fresh = TRUE]]
        BY <1>7, <3>1 DEF RedriveRetire
      <4> QED
        BY <1>0, <4>1 DEF EventType
    <3>2. CASE event[d].st # "pending"
      BY <1>5, <1>7, <3>2 DEF RedriveRetire
    <3> QED
      BY <3>1, <3>2
  <2>3. JobsShrink(d)
    BY <1>0, <1>1, <2>1, JobsStay
  <2>4. (AliveFor(d)' => AliveFor(d)) /\ (Untaken(d) => Untaken(d)') /\ Single(d)'
    BY <1>1, <2>3, Shrunk DEF Turn
  <2>5. /\ At("redrive", d)' = "close" /\ \A b \in Callers : b # "redrive" => At(b, d)' = At(b, d)
        /\ At(d, d)' = At(d, d) /\ At("sweep", d)' = "idle"
    BY <1>0, <1>5, <2>1 DEF Moves
  <2>6. Lettered(d)' = Lettered(d) /\ ~Sweeping(d)' /\ \A n : Loose(n, d)' = Loose(n, d)
    BY <1>1, <1>5, <2>1, <2>5 DEF Lettered, Sweeping, Loose, After
  <2>7. Claims(d)'
    BY <1>1, <2>4, <2>5 DEF Turn, Claims, Before
  <2>8. RowOf(d)'
    BY <1>1, <2>2, <2>5, <2>6 DEF Turn, RowOf
  <2>9. SweepOf(d)'
    BY <2>5, <2>6 DEF SweepOf, Sweeping
  <2>10. RedriveOf(d)'
    BY <1>1, <1>2, <1>6, <2>1, <2>2, <2>5 DEF Turn, RedriveOf
  <2>11. LettersOf(d)'
    BY <1>1, <1>5, <2>1, <2>4, <2>6 DEF Turn, LettersOf, After
  <2> QED
    BY <2>4, <2>7, <2>8, <2>9, <2>10, <2>11 DEF Turn
<1>8. CASE RedriveClose \/ RedriveFailed
  <2>1. At("redrive", d) \in {"close", "failed"} /\ Moves("redrive", d, "idle") /\ event' = event
    BY <1>2, <1>3, <1>8 DEF RedriveClose, RedriveFailed, rows
  <2>2. /\ \A n \in 1..Len(letters) : letters'[n].d = letters[n].d
        /\ \A n \in 1..Len(letters) : letters'[n] = Letter(d) => letters[n] = Letter(d)
        /\ RedriveClose => letters'[call["redrive"].row] # Letter(d)
        /\ Len(letters') = Len(letters)
    <3>1. CASE RedriveClose
      <4>1. letters' = [letters EXCEPT ![call["redrive"].row].redriven = TRUE]
        BY <3>1 DEF RedriveClose
      <4>2. /\ \A n \in 1..Len(letters) : letters'[n].d = letters[n].d
            /\ \A n \in 1..Len(letters) : n # call["redrive"].row => letters'[n] = letters[n]
            /\ letters'[call["redrive"].row].redriven = TRUE
        BY <1>0, <1>4, <4>1 DEF LetterType
      <4>3. letters'[call["redrive"].row] # Letter(d)
        BY <4>2 DEF Letter
      <4>4. Len(letters') = Len(letters)
        <5>1. letters' \in Seq(LetterType)
          BY <1>0 DEF Typed, TypeOK, LetterType
        <5>2. DOMAIN letters' = 1..Len(letters') /\ Len(letters') \in Nat
          BY <5>1
        <5> QED
          BY <1>0, <4>1, <5>2
      <4> QED
        BY <4>2, <4>3, <4>4
    <3>2. CASE ~RedriveClose
      BY <1>8, <3>2 DEF RedriveFailed, rows
    <3> QED
      BY <3>1, <3>2
  <2>3. JobsShrink(d)
    BY <1>0, <1>1, <2>2, JobsStay
  <2>4. (AliveFor(d)' => AliveFor(d)) /\ (Untaken(d) => Untaken(d)') /\ Single(d)'
    BY <1>1, <2>3, Shrunk DEF Turn
  <2>5. /\ At("redrive", d)' = "idle" /\ \A b \in Callers : b # "redrive" => At(b, d)' = At(b, d)
        /\ At(d, d)' = At(d, d) /\ At("sweep", d)' = "idle"
    BY <1>0, <1>5, <2>1 DEF Moves
  <2>6. Lettered(d)' => Lettered(d)
    BY <2>2 DEF Lettered
  <2>7. ~Sweeping(d)'
    BY <1>1, <1>5, <2>5 DEF Sweeping
  <2>8. event[d].st = "pending" => Untaken(d)
    <3>1. CASE At("redrive", d) = "close"
      BY <1>1, <3>1 DEF Turn, RedriveOf
    <3>2. CASE At("redrive", d) = "failed"
      BY <1>0, <1>1, <3>2 DEF Turn, Claims, Before
    <3> QED
      BY <2>1, <3>1, <3>2
  <2>9. \A n \in 1..Len(letters') : Loose(n, d)' => n \in 1..Len(letters) /\ Loose(n, d)
    <3> SUFFICES ASSUME NEW n \in 1..Len(letters'), Loose(n, d)' PROVE n \in 1..Len(letters) /\ Loose(n, d)
      OBVIOUS
    <3>1. n \in 1..Len(letters) /\ letters'[n] = Letter(d) /\ letters[n] = Letter(d)
      BY <2>2 DEF Loose
    <3>2. CASE RedriveClose
      BY <2>2, <3>1, <3>2 DEF Loose
    <3>3. CASE RedriveFailed
      <4>1. At("redrive", d) = "failed"
        BY <1>2, <3>3 DEF RedriveFailed
      <4> QED
        BY <3>1, <4>1 DEF Loose, After
    <3> QED
      BY <1>8, <3>2, <3>3
  <2>10. Claims(d)'
    BY <1>1, <2>4, <2>5 DEF Turn, Claims, Before
  <2>11. RowOf(d)'
    BY <1>1, <1>5, <2>1, <2>4, <2>5, <2>6, <2>8 DEF Turn, RowOf
  <2>12. SweepOf(d)'
    BY <2>5, <2>7 DEF SweepOf, Sweeping
  <2>13. RedriveOf(d)'
    BY <1>0, <1>1, <1>6, <2>2, <2>5 DEF RedriveOf, TypeOK
  <2>14. LettersOf(d)'
    BY <1>1, <1>5, <2>4, <2>9 DEF Turn, LettersOf, After
  <2> QED
    BY <2>4, <2>10, <2>11, <2>12, <2>13, <2>14 DEF Turn
<1> QED
  BY <1>1, <1>7, <1>8 DEF RedriveSteps

LEMMA TurnsInit == Init => Turns
<1> SUFFICES ASSUME Init, NEW d \in Deliveries PROVE Turn(d)
  BY DEF Turns
<1>1. Len(letters) = 0 /\ \A n \in 1..Len(letters) : FALSE
  BY DEF Init
<1>2. \A a \in Callers : At(a, d) = "idle"
  BY DEF Init, Idle, At, Busy
<1>3. At(d, d) = "idle" /\ At("sweep", d) = "idle" /\ At("redrive", d) = "idle"
  BY <1>2, Constant
<1>4. \A c \in JobIds : ~Alive(c)
  BY JobIns DEF Init, Alive, Active
<1>5. handled[d] = 0 /\ event[d].st = "none" /\ swept = {} /\ picked = {}
  BY DEF Init
<1>6. Untaken(d) /\ ~Lettered(d) /\ ~Sweeping(d)
  BY <1>1, <1>3, <1>4, <1>5 DEF Untaken, AliveFor, Lettered, Sweeping
<1>7. Single(d) /\ Claims(d) /\ RowOf(d)
  BY <1>2, <1>3, <1>4, <1>5, <1>6 DEF Single, Claims, RowOf, Before
<1>8. SweepOf(d) /\ RedriveOf(d) /\ LettersOf(d)
  BY <1>1, <1>3, <1>5, <1>6 DEF SweepOf, RedriveOf, LettersOf
<1> QED
  BY <1>7, <1>8 DEF Turn

LEMMA TurnsStep == ASSUME Base, Own, Turns, [Next]_vars PROVE Turns'
<1>1. Base'
  BY BaseStep
<1> SUFFICES ASSUME NEW d \in Deliveries \ raced' PROVE Turn(d)'
  BY DEF Turns
<1>2. CASE \E a \in Callers : Enqueues(a)
  BY <1>1, <1>2, TurnEnqueue
<1>3. CASE \E c \in Deliveries : Requests(c)
  BY <1>1, <1>3, TurnRequest
<1>4. CASE SweepSteps
  BY <1>1, <1>4, SweepElsewhere, TurnSwept, TurnSweeping
<1>5. CASE RedriveSteps
  BY <1>1, <1>5, RedriveElsewhere, TurnPicked, TurnRedriving
<1>6. CASE \E id \in JobIds : Jobs(id)
  BY <1>1, <1>6, TurnJobs
<1>7. CASE Crash \/ SetEnabled \/ UNCHANGED vars
  BY <1>1, <1>7, TurnQuiet
<1> QED
  BY <1>2, <1>3, <1>4, <1>5, <1>6, <1>7, Sorted DEF Work

LEMMA TurnsHold == Spec => [](Base /\ Turns)
<1>1. Init => Base /\ Own /\ Turns
  BY BaseInit, KeptInit, TurnsInit
<1>2. Base /\ Own /\ Turns /\ [Next]_vars => (Base /\ Own /\ Turns)'
  BY BaseStep, OwnStep, TurnsStep
<1> QED
  BY <1>1, <1>2, PTL DEF Spec

(* However many deliveries, jobs, sweeps and redrives there are, the plugin
   handles a delivery once, unless a fault hit it, an answer got lost or a
   sweep and a redrive had it together: at any time at most one of request,
   sweep, redrive and job has it, and none before the plugin refused it. *)
THEOREM EachHandledOnce == Spec => []HandledOnce
<1>1. Base /\ Turns => HandledOnce
  BY DEF Turns, Turn, Single, HandledOnce
<1> QED
  BY <1>1, TurnsHold, PTL

(* However many dead letters are written for a delivery, one at most is left
   open: while one is open no job of the delivery runs that could leave
   another, but for the one a replay is about to close. *)
THEOREM LettersStaySingle == Spec => []OneOpenLetter
<1>1. Base /\ Turns => OneOpenLetter
  <2> SUFFICES ASSUME Base, Turns, NEW d \in Deliveries \ raced, NEW m \in DOMAIN letters, NEW n \in DOMAIN letters,
                      letters[m] = Letter(d), letters[n] = Letter(d), ~Busy("sweep", d), ~Busy("redrive", d)
               PROVE  m = n
    BY DEF OneOpenLetter
  <2>1. At("sweep", d) = "idle" /\ At("redrive", d) = "idle"
    BY DEF At
  <2>2. DOMAIN letters = 1..Len(letters)
    BY Types DEF Base, Typed
  <2>3. Loose(m, d) /\ Loose(n, d)
    BY <2>1 DEF Loose, After
  <2> QED
    BY <2>1, <2>2, <2>3 DEF Turns, Turn, LettersOf, After
<1> QED
  BY <1>1, TurnsHold, PTL
=============================================================================
