------------------------------- MODULE Ingress ------------------------------
(***************************************************************************)
(* Webhook deliveries on their way into a plugin: the request handler that *)
(* records a delivery before it acknowledges it, the enqueue every path    *)
(* shares (BullMQ, or inline when the queue is off or does not answer),    *)
(* the queue's processor with its lock per conversation, the reconciler    *)
(* that replays rows nobody recorded an outcome for, the dead letters and  *)
(* their redrive.                                                          *)
(*                                                                         *)
(* Three callers run the shared enqueue: the request of a delivery, the    *)
(* reconciler's sweep and the redrive of an instance.  Each is suspended   *)
(* at one await at a time; a database statement, a queue command and the   *)
(* plugin's handler are one step each.                                     *)
(*                                                                         *)
(* External: BullMQ keeps its jobs when the process dies and ignores an    *)
(* add whose job id it still keeps.  What was being run has stalled: it is *)
(* run again, and when it stalls once more than maxStalledCount allows it  *)
(* fails without a run.                                                    *)
(***************************************************************************)
EXTENDS Integers, Sequences, FiniteSets

CONSTANTS
  Deliveries,    (* what providers send, by delivery id *)
  Lanes,         (* ordering keys: conversations, or the whole instance *)
  LaneOf,        (* the key of each delivery *)
  Refusable,     (* deliveries the plugin may fail on *)
  MaxTries,      (* INGRESS_MAX_ATTEMPTS: runs of a job *)
  MaxReplays,    (* INGRESS_RECONCILE_MAX_ATTEMPTS *)
  Workers,       (* jobs the worker runs at the same time *)
  Faults,        (* what may go wrong: "crash", "db", "redis" *)
  CostOf,        (* bound: what each of them costs ... *)
  MaxFaults,     (* ... and what they and redrives, at 1, may cost together *)
  MaxRedrives,   (* bound: how often the operator asks for a redrive *)
  MaxLetters     (* bound: rows of integration_delivery_failures *)

ASSUME IngressAssumption ==
  /\ \A d \in Deliveries : LaneOf[d] \in Lanes
  /\ Refusable \subseteq Deliveries
  /\ MaxTries \in Nat \ {0} /\ MaxReplays \in Nat \ {0} /\ Workers \in Nat \ {0}
  /\ \A f \in Faults : CostOf[f] \in Nat \ {0}
  /\ MaxFaults \in Nat /\ MaxRedrives \in Nat /\ MaxLetters \in Nat
  /\ {"sweep", "redrive"} \cap Deliveries = {}
  /\ (1..MaxLetters) \cap Deliveries = {}

VARIABLES
  queueOn,       (* queue.enabled *)
  enabled,       (* the plugin instance *)
  event,         (* ingress_events: one row per recorded delivery *)
  letters,       (* integration_delivery_failures, in insertion order *)
  call,          (* the callers of enqueue, suspended at an await *)
  swept,         (* rows the running sweep read and has not come to *)
  picked,        (* dead letters the running redrive read and has not come to *)
  job,           (* BullMQ: the jobs it keeps *)
  lane,          (* KeyedAsyncLock: jobs chained on each key *)
  faults,        (* what the faults so far have cost *)
  redrives,      (* redrives so far *)
  handled,       (* history: how often the plugin handled a delivery; 2 is more than once *)
  raced,         (* history: deliveries a fault hit or two callers worked on *)
  forfeited      (* history: the three losses the code admits, see NothingLost *)

config  == <<queueOn, enabled>>
rows    == <<event, letters>>
batches == <<swept, picked>>
queue   == <<job, lane>>
budget  == <<faults, redrives>>
history == <<handled, raced, forfeited>>
vars    == <<config, rows, call, batches, queue, budget, history>>

-----------------------------------------------------------------------------
Callers == Deliveries \cup {"sweep", "redrive"}
JobIds  == Deliveries \cup 1..MaxLetters

States  == {"none", "pending", "dispatched", "failed"}
Active  == {"lane", "running", "took", "letter"}
JobStates == {"none", "waiting", "done", "failed"} \cup Active
Points  == {"idle", "add", "inline", "took", "ok", "failed", "letter", "exhaust", "close"}

\* The delivery a job id stands for: redrive mints a fresh id per dead letter.
About(id) == IF id \in Deliveries THEN id ELSE letters[id].d

Idle == [at |-> "idle", d |-> "", tries |-> 0, row |-> 0]

\* The delivery a caller works on; a caller at rest works on none.
Busy(a, d) == call[a].at # "idle" /\ call[a].d = d

Open(d) == \E n \in DOMAIN letters : letters[n] = [d |-> d, redriven |-> FALSE]

\* A job that will still be run, or that is about to leave a dead letter.
Alive(id) == job[id].st \in {"waiting"} \cup Active

Letter(d) == [d |-> d, redriven |-> FALSE]

\* BullMQ's maxStalledCount, which the worker leaves at its default.
MaxStalls == 1

JobIn(st) == [st |-> st, tries |-> 0, stalls |-> 0]

TypeOK ==
  /\ queueOn \in BOOLEAN /\ enabled \in BOOLEAN
  /\ event \in [Deliveries -> [st : States, attempts : Nat, payload : BOOLEAN, fresh : BOOLEAN]]
  /\ letters \in Seq([d : Deliveries, redriven : BOOLEAN])
  /\ Len(letters) <= MaxLetters
  /\ call \in [Callers -> [at : Points, d : Deliveries \cup {""}, tries : Nat,
                           row : 0..MaxLetters]]
  /\ \A a \in Callers : call[a].at # "idle" => call[a].d \in Deliveries
  /\ swept \subseteq [d : Deliveries, tries : Nat]
  /\ picked \subseteq 1..Len(letters)
  /\ job \in [JobIds -> [st : JobStates, tries : 0..MaxTries - 1, stalls : 0..MaxStalls]]
  /\ \A id \in JobIds : job[id].st # "none" => id \in Deliveries \cup 1..Len(letters)
  /\ lane \in [Lanes -> Seq(JobIds)]
  /\ faults \in 0..MaxFaults /\ redrives \in 0..MaxRedrives
  /\ raced \subseteq Deliveries /\ forfeited \subseteq Deliveries
  /\ handled \in [Deliveries -> 0..2]

Init ==
  /\ queueOn \in BOOLEAN /\ enabled = TRUE
  /\ event = [d \in Deliveries |-> [st |-> "none", attempts |-> 0, payload |-> FALSE, fresh |-> TRUE]]
  /\ letters = <<>>
  /\ call = [a \in Callers |-> Idle]
  /\ swept = {} /\ picked = {}
  /\ job = [id \in JobIds |-> JobIn("none")]
  /\ lane = [k \in Lanes |-> <<>>]
  /\ faults = 0 /\ redrives = 0
  /\ raced = {} /\ forfeited = {}
  /\ handled = [d \in Deliveries |-> 0]

Goto(a, at) == call' = [call EXCEPT ![a].at = at]
Rest(a)     == call' = [call EXCEPT ![a] = Idle]

Fault(f) == f \in Faults /\ faults + redrives + CostOf[f] <= MaxFaults /\ faults' = faults + CostOf[f]

-----------------------------------------------------------------------------
(* IngressService.handle: the request. *)

\* The delivery is let in (instance, route, size, signature, preflight) and is
\* not in ingress_events yet.  From here on the provider may be told so, now or
\* when the call ends, and a repeated request finds the row and changes nothing.
Receive(d) ==
  /\ enabled /\ event[d].st = "none"
  /\ event' = [event EXCEPT ![d] = [st |-> "pending", attempts |-> 0, payload |-> TRUE, fresh |-> TRUE]]
  /\ call' = [call EXCEPT ![d] = [Idle EXCEPT !.at = "add", !.d = d]]
  /\ UNCHANGED <<config, letters, batches, queue, budget, history>>

\* The wrapper of integration.module records what became of the enqueue, then
\* the request is answered.
MarkDispatched(d) ==
  /\ call[d].at = "ok"
  /\ event' = [event EXCEPT ![d] = [@ EXCEPT !.st = "dispatched", !.payload = FALSE, !.fresh = TRUE]]
  /\ Rest(d)
  /\ UNCHANGED <<config, letters, batches, queue, budget, history>>

MarkFailed(d) ==
  /\ call[d].at = "failed"
  /\ event' = [event EXCEPT ![d].attempts = @ + 1, ![d].fresh = TRUE]
  /\ Goto(d, "letter")
  /\ UNCHANGED <<config, letters, batches, queue, budget, history>>

SaveLetter(d) ==
  /\ call[d].at = "letter" /\ Len(letters) < MaxLetters
  /\ letters' = Append(letters, Letter(d))
  /\ Rest(d)
  /\ UNCHANGED <<config, event, batches, queue, budget, history>>

\* Either write may be refused; the request goes on and is answered with 202.
MarkLost(d) ==
  /\ Fault("db") /\ call[d].at \in {"ok", "failed", "letter"}
  /\ IF call[d].at = "failed"
     THEN Goto(d, "letter")
     ELSE Rest(d)
  /\ raced' = raced \cup {d}
  /\ UNCHANGED <<config, rows, batches, queue, redrives, handled, forfeited>>

-----------------------------------------------------------------------------
(* IngressEnqueueService.enqueue, on behalf of any caller. *)

JobOf(a) == IF a = "redrive" THEN call[a].row ELSE call[a].d

\* The queue has the job now, or kept one with this id already.
Add(a) ==
  /\ call[a].at = "add" /\ queueOn
  /\ IF job[JobOf(a)].st = "none"
     THEN job' = [job EXCEPT ![JobOf(a)] = JobIn("waiting")]
     ELSE UNCHANGED job
  /\ Goto(a, "ok")
  /\ UNCHANGED <<config, rows, batches, lane, budget, history>>

\* Redis does not answer; it may have the job all the same.
AddRejected(a) ==
  /\ call[a].at = "add" /\ queueOn /\ Fault("redis")
  /\ Goto(a, "inline")
  /\ \/ UNCHANGED <<job, raced>>
     \/ /\ job[JobOf(a)].st = "none"
        /\ job' = [job EXCEPT ![JobOf(a)] = JobIn("waiting")]
        /\ raced' = raced \cup {call[a].d}
  /\ UNCHANGED <<config, rows, batches, lane, redrives, handled, forfeited>>

AddInline(a) ==
  /\ call[a].at = "add" /\ ~queueOn
  /\ Goto(a, "inline")
  /\ UNCHANGED <<config, rows, batches, queue, budget, history>>

Once(d) == handled' = [handled EXCEPT ![d] = IF @ = 0 THEN 1 ELSE 2]

\* dispatchWebhookForInstance: the plugin handles the delivery and its answer
\* arrives, or it refuses or is not there, or it handled it and the answer is
\* late or an error.
InlineTakes(a) ==
  /\ call[a].at = "inline"
  /\ Once(call[a].d) /\ Goto(a, "took")
  /\ UNCHANGED <<config, rows, batches, queue, budget, raced, forfeited>>

InlineEnds(a) ==
  /\ \/ call[a].at = "took" /\ Goto(a, "ok") /\ UNCHANGED raced
     \/ call[a].at = "took" /\ call[a].d \in Refusable /\ Goto(a, "failed") /\ raced' = raced \cup {call[a].d}
     \/ call[a].at = "inline" /\ call[a].d \in Refusable /\ Goto(a, "failed") /\ UNCHANGED raced
  /\ UNCHANGED <<config, rows, batches, queue, budget, handled, forfeited>>

-----------------------------------------------------------------------------
(* IngressProcessor.process: a job of the queue. *)

Take(id) ==
  /\ job[id].st = "waiting"
  /\ Cardinality({j \in JobIds : job[j].st \in Active}) < Workers
  /\ job' = [job EXCEPT ![id].st = "lane"]
  /\ lane' = [lane EXCEPT ![LaneOf[About(id)]] = Append(@, id)]
  /\ UNCHANGED <<config, rows, call, batches, budget, history>>

\* Mutant: a job does not wait for the one before it.
StartUnlocked(id) ==
  /\ job[id].st = "lane"
  /\ job' = [job EXCEPT ![id].st = "running"]
  /\ UNCHANGED <<config, rows, call, batches, lane, budget, history>>

Start(id) ==
  /\ job[id].st = "lane" /\ Head(lane[LaneOf[About(id)]]) = id
  /\ job' = [job EXCEPT ![id].st = "running"]
  /\ UNCHANGED <<config, rows, call, batches, lane, budget, history>>

JobTakes(id) ==
  /\ job[id].st = "running"
  /\ job' = [job EXCEPT ![id].st = "took"]
  /\ Once(About(id))
  /\ UNCHANGED <<config, rows, call, batches, lane, budget, raced, forfeited>>

JobEnds(id) ==
  /\ job[id].st = "took"
  /\ job' = [job EXCEPT ![id] = JobIn("done")]
  /\ lane' = [lane EXCEPT ![LaneOf[About(id)]] = Tail(@)]
  /\ UNCHANGED <<config, rows, call, batches, budget, history>>

\* Mutant: isFinalAttempt off by one.
JobFailsLate(id) ==
  /\ job[id].st \in {"running", "took"}
  /\ job' = [job EXCEPT ![id] = IF job[id].tries >= MaxTries
                                THEN [@ EXCEPT !.st = "letter"]
                                ELSE [@ EXCEPT !.st = "waiting", !.tries = job[id].tries + 1]]
  /\ lane' = [lane EXCEPT ![LaneOf[About(id)]] = Tail(@)]
  /\ UNCHANGED <<config, rows, call, batches, budget, history>>

\* The error, or the time limit of the dispatch, reaches BullMQ: another run
\* after a pause, unless it was the last.
JobFails(id) ==
  /\ job[id].st \in {"running", "took"} /\ About(id) \in Refusable
  /\ job' = [job EXCEPT ![id] = IF job[id].tries + 1 >= MaxTries
                                THEN [@ EXCEPT !.st = "letter"]
                                ELSE [@ EXCEPT !.st = "waiting", !.tries = job[id].tries + 1]]
  /\ lane' = [lane EXCEPT ![LaneOf[About(id)]] = Tail(@)]
  /\ raced' = IF job[id].st = "took" THEN raced \cup {About(id)} ELSE raced
  /\ UNCHANGED <<config, rows, call, batches, budget, handled, forfeited>>

JobLetter(id) ==
  /\ job[id].st = "letter" /\ Len(letters) < MaxLetters
  /\ letters' = Append(letters, Letter(About(id)))
  /\ job' = [job EXCEPT ![id] = JobIn("failed")]
  /\ UNCHANGED <<config, event, call, batches, lane, budget, history>>

\* The dead letter is refused, and BullMQ does not run the job again.
JobLetterLost(id) ==
  /\ job[id].st = "letter" /\ Fault("db")
  /\ job' = [job EXCEPT ![id] = JobIn("failed")]
  /\ forfeited' = forfeited \cup {About(id)}
  /\ UNCHANGED <<config, rows, call, batches, lane, redrives, handled, raced>>

-----------------------------------------------------------------------------
(* IngressReconcilerService.sweep: one pass at a time over the rows that are *)
(* pending and have seen no activity for the grace period.                   *)

Deal == call["sweep"].d
LastReplay == call["sweep"].tries + 1 >= MaxReplays

SweepStart ==
  /\ call["sweep"].at = "idle" /\ swept = {}
  /\ LET stale == {d \in Deliveries : event[d].st = "pending" /\ ~event[d].fresh}
     IN  /\ stale # {}
         /\ swept' = {[d |-> d, tries |-> event[d].attempts] : d \in stale}
         /\ raced' = raced \cup {d \in stale : Busy("redrive", d) \/ \E n \in picked : letters[n].d = d}
  /\ UNCHANGED <<config, rows, call, picked, queue, budget, handled, forfeited>>

\* Only an instance that is still enabled gets the replay.
SweepRow ==
  /\ call["sweep"].at = "idle"
  /\ \E s \in swept :
       /\ swept' = swept \ {s}
       /\ IF enabled
          THEN call' = [call EXCEPT !["sweep"] = [at |-> "add", d |-> s.d, tries |-> s.tries, row |-> 0]]
          ELSE UNCHANGED call
  /\ UNCHANGED <<config, rows, picked, queue, budget, history>>

SweepMark ==
  /\ call["sweep"].at = "ok"
  /\ event' = [event EXCEPT ![Deal] = [@ EXCEPT !.st = "dispatched", !.payload = FALSE, !.fresh = TRUE]]
  /\ Goto("sweep", "close")
  /\ UNCHANGED <<config, letters, batches, queue, budget, history>>

\* Dead letters of the delivery are closed, also the one of a job that failed
\* while the queue still keeps it, or before this statement was run.
SweepClose ==
  /\ call["sweep"].at = "close"
  /\ letters' = [n \in DOMAIN letters |->
                   IF letters[n].d = Deal THEN [letters[n] EXCEPT !.redriven = TRUE] ELSE letters[n]]
  /\ forfeited' = IF /\ Open(Deal) /\ handled[Deal] = 0
                     /\ ~\E id \in JobIds : Alive(id) /\ About(id) = Deal
                  THEN forfeited \cup {Deal} ELSE forfeited
  /\ Rest("sweep")
  /\ UNCHANGED <<config, event, batches, queue, budget, handled, raced>>

\* Mutant: a failed replay is not counted.
SweepRetryUncounted ==
  /\ call["sweep"].at = "failed" /\ ~LastReplay
  /\ event' = [event EXCEPT ![Deal].fresh = TRUE]
  /\ Rest("sweep")
  /\ UNCHANGED <<config, letters, batches, queue, budget, history>>

\* The replay failed: count it, and after the last one see to a dead letter
\* before the payload goes.
SweepRetry ==
  /\ call["sweep"].at = "failed" /\ ~LastReplay
  /\ event' = [event EXCEPT ![Deal] = [@ EXCEPT !.attempts = call["sweep"].tries + 1, !.fresh = TRUE]]
  /\ Rest("sweep")
  /\ UNCHANGED <<config, letters, batches, queue, budget, history>>

\* Mutant: the payload is retired without seeing to a dead letter.
SweepCountNone ==
  /\ call["sweep"].at = "failed" /\ LastReplay
  /\ Goto("sweep", "exhaust")
  /\ UNCHANGED <<config, rows, batches, queue, budget, history>>

\* Mutant: a dead letter is written without looking for one.
SweepCountBlind ==
  /\ call["sweep"].at = "failed" /\ LastReplay
  /\ Goto("sweep", "letter")
  /\ UNCHANGED <<config, rows, batches, queue, budget, history>>

SweepCount ==
  /\ call["sweep"].at = "failed" /\ LastReplay
  /\ Goto("sweep", IF \E n \in DOMAIN letters : letters[n].d = Deal THEN "exhaust" ELSE "letter")
  /\ UNCHANGED <<config, rows, batches, queue, budget, history>>

SweepLetter ==
  /\ call["sweep"].at = "letter" /\ Len(letters) < MaxLetters
  /\ letters' = Append(letters, Letter(Deal))
  /\ Goto("sweep", "exhaust")
  /\ UNCHANGED <<config, event, batches, queue, budget, history>>

SweepExhaust ==
  /\ call["sweep"].at = "exhaust"
  /\ event' = [event EXCEPT ![Deal] = [st |-> "failed", attempts |-> call["sweep"].tries + 1,
                                       payload |-> FALSE, fresh |-> TRUE]]
  /\ Rest("sweep")
  /\ UNCHANGED <<config, letters, batches, queue, budget, history>>

\* A write of the sweep is refused: the row is left to the next sweep.
SweepLost ==
  /\ Fault("db") /\ call["sweep"].at \in {"ok", "close", "failed", "letter", "exhaust"}
  /\ raced' = raced \cup {Deal}
  /\ Rest("sweep")
  /\ UNCHANGED <<config, rows, batches, queue, redrives, handled, forfeited>>

-----------------------------------------------------------------------------
(* RedriveService.redriveInstance: one batch at a time for the instance. *)

RedriveStart ==
  /\ redrives < MaxRedrives /\ faults + redrives < MaxFaults /\ redrives' = redrives + 1
  /\ call["redrive"].at = "idle" /\ picked = {}
  /\ picked' = {n \in DOMAIN letters : ~letters[n].redriven}
  /\ picked' # {}
  /\ raced' = raced \cup {letters[n].d : n \in {m \in picked' :
                 Busy("sweep", letters[m].d) \/ \E s \in swept : s.d = letters[m].d}}
  /\ UNCHANGED <<config, rows, call, swept, queue, faults, handled, forfeited>>

RedriveRow ==
  /\ call["redrive"].at = "idle"
  /\ \E n \in picked :
       /\ picked' = picked \ {n}
       /\ call' = [call EXCEPT !["redrive"] = [at |-> "add", d |-> letters[n].d, tries |-> 0, row |-> n]]
  /\ UNCHANGED <<config, rows, swept, queue, budget, history>>

\* Mutant: the delivery's pending row is left to the reconciler.
RedriveKeepsRow ==
  /\ call["redrive"].at = "ok"
  /\ Goto("redrive", "close")
  /\ UNCHANGED <<config, rows, batches, queue, budget, history>>

\* The delivery's row first, so that the reconciler does not replay it too.
RedriveRetire ==
  /\ call["redrive"].at = "ok"
  /\ LET d == call["redrive"].d
     IN  event' = IF event[d].st = "pending"
                  THEN [event EXCEPT ![d] = [@ EXCEPT !.st = "dispatched", !.payload = FALSE, !.fresh = TRUE]]
                  ELSE event
  /\ Goto("redrive", "close")
  /\ UNCHANGED <<config, letters, batches, queue, budget, history>>

RedriveClose ==
  /\ call["redrive"].at = "close"
  /\ letters' = [letters EXCEPT ![call["redrive"].row].redriven = TRUE]
  /\ Rest("redrive")
  /\ UNCHANGED <<config, event, batches, queue, budget, history>>

\* A replay that fails leaves its row as it was, but for a count that only
\* orders the next batch.
RedriveFailed ==
  /\ call["redrive"].at = "failed"
  /\ Rest("redrive")
  /\ UNCHANGED <<config, rows, batches, queue, budget, history>>

\* A refused write ends the batch with an error.
RedriveLost ==
  /\ Fault("db") /\ call["redrive"].at \in {"ok", "close", "failed"}
  /\ raced' = raced \cup {call["redrive"].d}
  /\ picked' = {} /\ Rest("redrive")
  /\ UNCHANGED <<config, rows, swept, queue, redrives, handled, forfeited>>

-----------------------------------------------------------------------------
(* The instance, time, and the process. *)

SetEnabled ==
  /\ enabled' = ~enabled
  /\ UNCHANGED <<queueOn, rows, call, batches, queue, budget, history>>

\* The grace period goes by.  It is longer (60 s) than a request takes to
\* record its outcome (a dispatch is given up after 5 s).
Age(d) ==
  /\ event[d].st = "pending" /\ event[d].fresh /\ ~Busy(d, d)
  /\ event' = [event EXCEPT ![d].fresh = FALSE]
  /\ UNCHANGED <<config, letters, call, batches, queue, budget, history>>

\* Jobs that are being run and have stalled as often as they may.
Doomed == {id \in JobIds : job[id].st \in Active /\ job[id].stalls = MaxStalls}

\* Memory is lost; rows and jobs stay.  Jobs that were being run wait again, or
\* fail: the processor is not told, so nobody leaves a dead letter for them.
Crash ==
  /\ Fault("crash")
  /\ call' = [a \in Callers |-> Idle]
  /\ swept' = {} /\ picked' = {}
  /\ lane' = [k \in Lanes |-> <<>>]
  /\ job' = [id \in JobIds |->
               IF id \in Doomed THEN JobIn("failed")
               ELSE IF job[id].st \in Active THEN [job[id] EXCEPT !.st = "waiting", !.stalls = @ + 1]
               ELSE job[id]]
  /\ raced' = raced \cup {d \in Deliveries : (\E a \in Callers : Busy(a, d))
                            \/ \E id \in JobIds : job[id].st \in Active /\ About(id) = d}
  /\ forfeited' = forfeited \cup {d \in Deliveries : handled[d] = 0 /\ \E id \in Doomed : About(id) = d}
  /\ UNCHANGED <<config, rows, redrives, handled>>

-----------------------------------------------------------------------------
Enqueue(a)   == Add(a) \/ AddInline(a) \/ InlineTakes(a) \/ InlineEnds(a)
Request(d)   == Enqueue(d) \/ MarkDispatched(d) \/ MarkFailed(d) \/ SaveLetter(d)
Sweep        == \/ SweepStart \/ SweepRow \/ Enqueue("sweep") \/ SweepMark \/ SweepClose
                \/ SweepRetry \/ SweepCount \/ SweepLetter \/ SweepExhaust
Redrive      == \/ RedriveRow \/ Enqueue("redrive") \/ RedriveRetire \/ RedriveClose \/ RedriveFailed
Process(id)  == Take(id) \/ Start(id) \/ JobTakes(id) \/ JobEnds(id) \/ JobFails(id) \/ JobLetter(id)
Misfortune   == \/ \E d \in Deliveries : MarkLost(d)
                \/ \E a \in Callers : AddRejected(a)
                \/ \E id \in JobIds : JobLetterLost(id)
                \/ SweepLost \/ RedriveLost \/ Crash


\* What the program does by itself ...
System ==
  \/ \E d \in Deliveries : Request(d) \/ Age(d)
  \/ \E id \in JobIds : Process(id)
  \/ Sweep \/ Redrive

Next ==
  \/ System
  \/ \E d \in Deliveries : Receive(d)
  \/ RedriveStart \/ SetEnabled \/ Misfortune

Spec == Init /\ [][Next]_vars

\* ... it goes on doing while it can: timers fire, awaits resume, the worker
\* runs.  No step is favoured; providers, operators and faults owe nothing.
Fairness == WF_vars(System)

FairSpec == Spec /\ Fairness

-----------------------------------------------------------------------------
\* A delivery that was recorded, and that its provider will not send again,
\* has been handled, or is still somewhere it will be taken from: a pending row
\* with its payload, a job of the queue, an open dead letter.  This holds at
\* every await, so a crash loses nothing (IngressService.handle,
\* reconcileRow's and redriveBatch's order of writes).  Three losses of the code
\* are excluded by name: a job's dead letter the database refuses; a dead letter
\* closed by a sweep whose add met the job that had failed already; and a job in
\* hand at a crash for the second time, which BullMQ fails without calling
\* process() while IngressProcessor, unlike WebhookProcessor, has no handler of
\* 'failed' (a replay of its row or letter would meet the failed job).
NothingLost ==
  \A d \in Deliveries \ forfeited :
    event[d].st # "none" =>
      \/ handled[d] > 0
      \/ event[d].st = "pending" /\ event[d].payload
      \/ Open(d)
      \/ \E id \in JobIds : Alive(id) /\ About(id) = d

\* No two jobs of a conversation are dispatched at the same time, also when
\* retries chain themselves behind others and after a restart (KeyedAsyncLock).
\* That is what the host can see: a dispatch it has given up after its time
\* limit (plugin-worker-host.ts:212) lets the next one go, although the handler
\* may still be running in the worker.
OneAtATime ==
  \A i, j \in JobIds :
    /\ job[i].st \in {"running", "took"} /\ job[j].st \in {"running", "took"}
    /\ LaneOf[About(i)] = LaneOf[About(j)]
    => i = j

\* Four paths dispatch a delivery (request, queue, reconciler, redrive), and
\* yet the plugin handles it once, unless its answer got lost, a fault hit the
\* delivery, or a redrive and a sweep had it in hand at the same time.
HandledOnce == \A d \in Deliveries \ raced : handled[d] <= 1

\* The request, the reconciler and the queue may each write a dead letter for
\* a delivery, and yet no two are left open by the replays: a redrive of both
\* would dispatch it twice.
OneOpenLetter ==
  \A d \in Deliveries \ raced : \A m, n \in DOMAIN letters :
    /\ letters[m] = Letter(d) /\ letters[n] = Letter(d)
    /\ ~Busy("sweep", d) /\ ~Busy("redrive", d)
    => m = n

\* A recorded delivery is handled in the end or has a dead letter, unless the
\* instance is disabled: the replay budget ends, a sweep goes on after a row
\* that failed, and the last run of a job leaves its letter.
Settles ==
  \A d \in Deliveries :
    event[d].st = "pending" ~>
      handled[d] > 0 \/ (\E n \in DOMAIN letters : letters[n].d = d) \/ d \in forfeited \/ ~enabled
=============================================================================
