--------------------------- MODULE WebhookDelivery --------------------------
(***************************************************************************)
(* An event on its way to the webhooks that match it: the fan-out through  *)
(* the concurrency limiter, the enqueue with its direct fallback, the      *)
(* direct path with its own retries, the queue's processor, the records of *)
(* deliveries that failed, and the bounded drain when the service stops.   *)
(*                                                                         *)
(* A delivery is one event for one webhook.  It is suspended at one await  *)
(* at a time: a statement, a queue command, a hook chain and a POST are    *)
(* one step each.  Hook chains never throw (HookManager.runHandlers), so a *)
(* chain next to another await shares its step.                            *)
(*                                                                         *)
(* External: BullMQ keeps its jobs when the process dies; it runs a job    *)
(* that lost its worker again, and fails it without a run the second time. *)
(***************************************************************************)
EXTENDS Integers, Sequences, FiniteSets

CONSTANTS
  Deliveries,    (* an event for a webhook that matches it *)
  Events,        (* the calls of dispatch *)
  EventOf,       (* the event of each delivery *)
  QueuedEvents,  (* bound: the events dispatched when there is a queue *)
  Slots,         (* WEBHOOK_DISPATCH_CONCURRENCY *)
  MaxQueued,     (* deliveries the limiter lets wait *)
  Troubled,      (* deliveries that meet more than a crash: a failing hook, receiver, queue or statement *)
  RetryCount,    (* retryCount of the webhooks; 0 is one attempt too *)
  Workers        (* WEBHOOK_WORKER_CONCURRENCY *)

ASSUME WebhookAssumption ==
  /\ IsFiniteSet(Deliveries)
  /\ EventOf \in [Deliveries -> Events] /\ QueuedEvents \subseteq Events
  /\ Troubled \subseteq Deliveries
  /\ Slots \in Nat \ {0} /\ MaxQueued \in Nat /\ RetryCount \in Nat /\ Workers \in Nat \ {0}

VARIABLES
  service,       (* the process: "up", "draining", "drained" (its modules stop) or "down" *)
  queueOn,       (* queue.enabled *)
  closed,        (* ConcurrencyLimiter.closed *)
  active,        (* ConcurrencyLimiter.active *)
  waiters,       (* ConcurrencyLimiter.waiters: deliveries parked for a slot *)
  stage,         (* where each delivery is in dispatchWithLimit *)
  attempt,       (* deliverWebhook's attempt *)
  job,           (* the delivery's BullMQ job: where it is, attemptsMade, stalls *)
  rows,          (* webhook_delivery_failures of a delivery; Seen is Seen or more *)
  answers,       (* history: 2xx answers the service saw; Seen is Seen or more *)
  doubled,       (* history: deliveries whose add was rejected after it had landed *)
  unrecorded,    (* history: deliveries whose record the database refused *)
  logged,        (* history: deliveries the drain logged as abandoned *)
  dropped        (* history: what the end of a process forgot for good *)

limiter == <<closed, active, waiters>>
history == <<doubled, unrecorded, logged, dropped>>
vars    == <<service, queueOn, limiter, stage, attempt, job, rows, answers, history>>

-----------------------------------------------------------------------------
Seen == 2
Bump(n) == IF n < Seen THEN n + 1 ELSE n

(* Awaits of a delivery that holds a slot ... *)
Held == {"pre", "add", "post", "sleep", "record", "hook"}
(* ... of one whose record is written outside the limiter ... *)
Refused == {"shed", "late"}
(* ... and all that live in the memory of the process. *)
Live == {"lookup", "parked"} \cup Refused \cup Held
Ended == {"missed", "cancelled", "over", "lost"}

(* A job the worker has in hand. *)
Running == {"posting", "booking", "recording", "failing"}
JobPlaces == {"none", "wait", "orphan", "doomed", "reporting", "done", "dead"} \cup Running

TypeOK ==
  /\ service \in {"up", "draining", "drained", "down"}
  /\ queueOn \in BOOLEAN /\ closed \in BOOLEAN
  /\ active \in 0..Slots
  /\ waiters \in Seq(Deliveries) /\ Len(waiters) <= MaxQueued
  /\ stage \in [Deliveries -> {"new"} \cup Live \cup Ended]
  /\ attempt \in [Deliveries -> {1} \cup 1..RetryCount]
  /\ job \in [Deliveries -> [at: JobPlaces, made: 0..(RetryCount + 1), stalls: 0..2]]
  /\ rows \in [Deliveries -> 0..Seen] /\ answers \in [Deliveries -> 0..Seen]
  /\ doubled \subseteq Deliveries /\ unrecorded \subseteq Deliveries /\ logged \subseteq Deliveries
  /\ dropped \in [Deliveries -> {"no", "crash", "reporting"} \cup Live]

Init ==
  /\ service = "up" /\ queueOn \in BOOLEAN
  /\ closed = FALSE /\ active = 0 /\ waiters = <<>>
  /\ stage = [d \in Deliveries |-> "new"]
  /\ attempt = [d \in Deliveries |-> 1]
  /\ job = [d \in Deliveries |-> [at |-> "none", made |-> 0, stalls |-> 0]]
  /\ rows = [d \in Deliveries |-> 0] /\ answers = [d \in Deliveries |-> 0]
  /\ doubled = {} /\ unrecorded = {} /\ logged = {}
  /\ dropped = [d \in Deliveries |-> "no"]

Up == service # "down"
InFlight == {d \in Deliveries : stage[d] \in Held}
At(d, s) == Up /\ stage[d] = s
Move(d, s) == stage' = [stage EXCEPT ![d] = s]
JobTo(d, s) == job' = [job EXCEPT ![d].at = s]

-----------------------------------------------------------------------------
(* dispatch: read the webhooks, and hand every match to the limiter.       *)

Matching(e) == {d \in Deliveries : EventOf[d] = e}

Dispatch(e) ==
  /\ Up /\ \A d \in Matching(e) : stage[d] = "new"
  /\ queueOn => e \in QueuedEvents
  /\ stage' = [d \in Deliveries |-> IF EventOf[d] = e THEN "lookup" ELSE stage[d]]
  /\ UNCHANGED <<service, queueOn, limiter, attempt, job, rows, answers, history>>

LookupFails(e) ==
  /\ Up /\ Matching(e) \cap Troubled # {} /\ \A d \in Matching(e) : stage[d] = "lookup"
  /\ stage' = [d \in Deliveries |-> IF EventOf[d] = e THEN "missed" ELSE stage[d]]
  /\ UNCHANGED <<service, queueOn, limiter, attempt, job, rows, answers, history>>

(* What run() does with the delivery that comes at place p of a fan-out:   *)
(* the slots are taken first, then the places to wait.                     *)
Room  == Slots - active
Space == MaxQueued - Len(waiters)
Admit(p) ==
  CASE closed           -> "late"
    [] ~closed /\ p <= Room -> "pre"
    [] ~closed /\ p > Room /\ p <= Room + Space -> "parked"
    [] OTHER -> "shed"

Smaller(m, n) == IF m <= n THEN m ELSE n
Started(n) == IF closed THEN 0 ELSE Smaller(n, Room)
Parked(n)  == IF closed THEN 0 ELSE Smaller(n - Started(n), Space)

Orders(S) ==
  {o \in [1..Cardinality(S) -> S] :
     \A d \in S : \E i \in 1..Cardinality(S) : \A j \in 1..Cardinality(S) : o[j] = d <=> i = j}
PlaceIn(o, d) == CHOOSE i \in DOMAIN o : o[i] = d

FanOut(e) ==
  /\ Up /\ Matching(e) # {} /\ \A d \in Matching(e) : stage[d] = "lookup"
  /\ \E o \in Orders(Matching(e)) :
       /\ stage' = [d \in Deliveries |-> IF EventOf[d] = e THEN Admit(PlaceIn(o, d)) ELSE stage[d]]
       /\ active' = active + Started(Cardinality(Matching(e)))
       /\ waiters' = waiters \o [i \in 1..Parked(Cardinality(Matching(e))) |-> o[Room + i]]
  /\ UNCHANGED <<service, queueOn, closed, attempt, job, rows, answers, history>>

(* The end of run(): the slot goes to the next that waits, or is released. *)
LeaveForgets(d, end) ==        (* Mutant: nobody is woken. *)
  /\ Move(d, end)
  /\ active' = active - 1
  /\ UNCHANGED <<closed, waiters>>
LeaveReleases(d, end) ==       (* Mutant: the slot is both handed on and released. *)
  /\ active' = active - 1
  /\ IF waiters = <<>>
       THEN /\ Move(d, end) /\ UNCHANGED waiters
       ELSE /\ stage' = [stage EXCEPT ![d] = end, ![Head(waiters)] = "pre"]
            /\ waiters' = Tail(waiters)
  /\ UNCHANGED closed
Leave(d, end) ==
  /\ IF waiters = <<>>
       THEN /\ Move(d, end) /\ active' = active - 1 /\ UNCHANGED waiters
       ELSE /\ stage' = [stage EXCEPT ![d] = end, ![Head(waiters)] = "pre"]
            /\ waiters' = Tail(waiters) /\ UNCHANGED active
  /\ UNCHANGED closed

-----------------------------------------------------------------------------
(* deliverOne.  The webhook:before hooks may cancel the delivery, and what *)
(* they return may be refused (oversize, not serializable).                *)

PreflightCancels(d) ==
  /\ At(d, "pre") /\ d \in Troubled
  /\ Leave(d, "cancelled")
  /\ UNCHANGED <<service, queueOn, attempt, job, rows, answers, history>>

PreflightFails(d) ==
  /\ At(d, "pre") /\ d \in Troubled
  /\ Move(d, "record")
  /\ UNCHANGED <<service, queueOn, limiter, attempt, job, rows, answers, history>>

PreflightPasses(d) ==
  /\ At(d, "pre")
  /\ Move(d, IF queueOn THEN "add" ELSE "post")
  /\ UNCHANGED <<service, queueOn, limiter, attempt, job, rows, answers, history>>

(* webhookQueue.add: done, or rejected and the fallback posts.  A rejected *)
(* add may have reached Redis.                                             *)
AddLands(d) ==
  /\ At(d, "add")
  /\ Move(d, "hook") /\ JobTo(d, "wait")
  /\ UNCHANGED <<service, queueOn, limiter, attempt, rows, answers, history>>

AddRejected(d) ==
  /\ At(d, "add") /\ d \in Troubled
  /\ Move(d, "post")
  /\ \/ UNCHANGED <<job, doubled>>
     \/ JobTo(d, "wait") /\ doubled' = doubled \cup {d}
  /\ UNCHANGED <<service, queueOn, limiter, attempt, rows, answers, unrecorded, logged, dropped>>

(* deliverWebhook: a 2xx answer is final whether lastTriggeredAt is        *)
(* written or not; anything else is tried again after a pause, then        *)
(* recorded.                                                               *)
PostAnswered(d) ==
  /\ At(d, "post")
  /\ Move(d, "hook") /\ answers' = [answers EXCEPT ![d] = Bump(@)]
  /\ UNCHANGED <<service, queueOn, limiter, attempt, job, rows, history>>

PostRefusedAlways(d) ==        (* Mutant: tried again without end. *)
  /\ At(d, "post") /\ d \in Troubled
  /\ Move(d, "sleep")
  /\ UNCHANGED <<service, queueOn, limiter, attempt, job, rows, answers, history>>
PostRefused(d) ==
  /\ At(d, "post") /\ d \in Troubled
  /\ Move(d, IF attempt[d] < RetryCount THEN "sleep" ELSE "record")
  /\ UNCHANGED <<service, queueOn, limiter, attempt, job, rows, answers, history>>

PostAgain(d) ==
  /\ At(d, "sleep")
  /\ Move(d, "post") /\ attempt' = [attempt EXCEPT ![d] = @ + 1]
  /\ UNCHANGED <<service, queueOn, limiter, job, rows, answers, history>>

(* recordWebhookDeliveryFailure swallows what the database refuses. *)
Insert(d) ==
  \/ rows' = [rows EXCEPT ![d] = Bump(@)] /\ UNCHANGED unrecorded
  \/ d \in Troubled /\ unrecorded' = unrecorded \cup {d} /\ UNCHANGED rows

Record(d) ==
  /\ At(d, "record")
  /\ Move(d, "hook") /\ Insert(d)
  /\ UNCHANGED <<service, queueOn, limiter, attempt, job, answers, doubled, logged, dropped>>

(* The hooks of the outcome are over. *)
Finish(d) ==
  /\ At(d, "hook")
  /\ Leave(d, "over")
  /\ UNCHANGED <<service, queueOn, attempt, job, rows, answers, history>>

(* The limiter was full or closed: recordUndelivered without a slot. *)
RecordRefused(d) ==
  /\ Up /\ stage[d] \in Refused
  /\ Move(d, "over") /\ Insert(d)
  /\ UNCHANGED <<service, queueOn, limiter, attempt, job, answers, doubled, logged, dropped>>

-----------------------------------------------------------------------------
(* The queue and WebhookProcessor.process.                                 *)

JobAt(d, s) == Up /\ job[d].at = s

WorkerTakes(d) ==
  /\ JobAt(d, "wait")
  /\ Cardinality({c \in Deliveries : job[c].at \in Running}) < Workers
  /\ JobTo(d, "posting")
  /\ UNCHANGED <<service, queueOn, limiter, stage, attempt, rows, answers, history>>

JobAnswered(d) ==
  /\ JobAt(d, "posting")
  /\ JobTo(d, "booking") /\ answers' = [answers EXCEPT ![d] = Bump(@)]
  /\ UNCHANGED <<service, queueOn, limiter, stage, attempt, rows, history>>

(* lastTriggeredAt, written or refused, and the webhook:delivered hooks. *)
JobBookedThrows(d) ==          (* Mutant: a refused write reaches the failure path. *)
  /\ JobAt(d, "booking")
  /\ \/ JobTo(d, "done")
     \/ job[d].made + 1 < RetryCount /\ job' = [job EXCEPT ![d].at = "wait", ![d].made = @ + 1]
     \/ job[d].made + 1 >= RetryCount /\ JobTo(d, "recording")
  /\ UNCHANGED <<service, queueOn, limiter, stage, attempt, rows, answers, history>>
JobBooked(d) ==
  /\ JobAt(d, "booking")
  /\ JobTo(d, "done")
  /\ UNCHANGED <<service, queueOn, limiter, stage, attempt, rows, answers, history>>

(* recordDeliveryFailure: only the final attempt leaves a record. *)
JobRefusedUnseen(d) ==         (* Mutant: the final attempt is off by one. *)
  /\ JobAt(d, "posting") /\ d \in Troubled
  /\ IF job[d].made + 1 < RetryCount
       THEN job' = [job EXCEPT ![d].at = "wait", ![d].made = @ + 1]
       ELSE IF job[d].made + 1 > RetryCount THEN JobTo(d, "recording") ELSE JobTo(d, "failing")
  /\ UNCHANGED <<service, queueOn, limiter, stage, attempt, rows, answers, history>>
JobRefused(d) ==
  /\ JobAt(d, "posting") /\ d \in Troubled
  /\ IF job[d].made + 1 < RetryCount
       THEN job' = [job EXCEPT ![d].at = "wait", ![d].made = @ + 1]
       ELSE JobTo(d, "recording")
  /\ UNCHANGED <<service, queueOn, limiter, stage, attempt, rows, answers, history>>

JobRecord(d) ==
  /\ JobAt(d, "recording")
  /\ JobTo(d, "failing") /\ Insert(d)
  /\ UNCHANGED <<service, queueOn, limiter, stage, attempt, answers, doubled, logged, dropped>>

(* The rethrown error reaches BullMQ; onWorkerFailed ignores this one. *)
JobFails(d) ==
  /\ JobAt(d, "failing")
  /\ job' = [job EXCEPT ![d].at = "dead", ![d].made = @ + 1]
  /\ UNCHANGED <<service, queueOn, limiter, stage, attempt, rows, answers, history>>

(* The stalled check: once back in line, the second time to fail. *)
Stalled(d) ==
  /\ JobAt(d, "orphan")
  /\ job' = [job EXCEPT ![d].at = IF job[d].stalls = 0 THEN "wait" ELSE "doomed",
                        ![d].stalls = @ + 1]
  /\ UNCHANGED <<service, queueOn, limiter, stage, attempt, rows, answers, history>>

(* A job out of stalls fails without a run; onWorkerFailed records it. *)
DoomedFails(d) ==
  /\ JobAt(d, "doomed")
  /\ JobTo(d, "reporting")
  /\ UNCHANGED <<service, queueOn, limiter, stage, attempt, rows, answers, history>>

OnWorkerFailed(d) ==
  /\ JobAt(d, "reporting")
  /\ JobTo(d, "dead") /\ Insert(d)
  /\ UNCHANGED <<service, queueOn, limiter, stage, attempt, answers, doubled, logged, dropped>>

-----------------------------------------------------------------------------
(* onModuleDestroy.  Without a queue the limiter is closed, which rejects  *)
(* what is parked; then the drain waits for the slots and the records of   *)
(* rejected deliveries, until its deadline at the latest, and logs what    *)
(* still holds a slot.                                                     *)

ShutdownDiscards ==            (* Mutant: what is parked is let go. *)
  /\ service = "up" /\ service' = "draining"
  /\ IF queueOn
       THEN UNCHANGED <<limiter, stage>>
       ELSE /\ closed' = TRUE /\ waiters' = <<>> /\ UNCHANGED active
            /\ stage' = [d \in Deliveries |-> IF stage[d] = "parked" THEN "over" ELSE stage[d]]
  /\ UNCHANGED <<queueOn, attempt, job, rows, answers, history>>
Shutdown ==
  /\ service = "up" /\ service' = "draining"
  /\ IF queueOn
       THEN UNCHANGED <<limiter, stage>>
       ELSE /\ closed' = TRUE /\ waiters' = <<>> /\ UNCHANGED active
            /\ stage' = [d \in Deliveries |-> IF stage[d] = "parked" THEN "late" ELSE stage[d]]
  /\ UNCHANGED <<queueOn, attempt, job, rows, answers, history>>

DrainEnds ==
  /\ service = "draining" /\ service' = "drained"
  /\ logged' = logged \cup InFlight
  /\ UNCHANGED <<queueOn, limiter, stage, attempt, job, rows, answers, doubled, unrecorded, dropped>>

(* The end of the process: the limiter and every await are gone, jobs in   *)
(* hand are left to the stalled check.                                     *)
ProcessEnds(killed) ==
  /\ service' = "down"
  /\ closed' = FALSE /\ active' = 0 /\ waiters' = <<>>
  /\ stage' = [d \in Deliveries |-> IF stage[d] \in Live THEN "lost" ELSE stage[d]]
  /\ job' = [d \in Deliveries |->
       [job[d] EXCEPT !.at = IF @ \in Running THEN "orphan" ELSE IF @ = "reporting" THEN "dead" ELSE @]]
  /\ dropped' = [d \in Deliveries |->
       IF stage[d] \in Live /\ job[d].at = "none" THEN IF killed THEN "crash" ELSE stage[d]
       ELSE IF job[d].at = "reporting" THEN IF killed THEN "crash" ELSE "reporting" ELSE dropped[d]]
  /\ UNCHANGED <<queueOn, attempt, rows, answers, doubled, unrecorded, logged>>

(* The worker's close waits for the jobs it has in hand. *)
Exit ==
  /\ service = "drained" /\ \A d \in Deliveries : job[d].at \notin Running
  /\ ProcessEnds(FALSE)

Crash == Up /\ ProcessEnds(TRUE)

Restart ==
  /\ service = "down" /\ service' = "up"
  /\ UNCHANGED <<queueOn, limiter, stage, attempt, job, rows, answers, history>>

-----------------------------------------------------------------------------
(* What the service goes on doing: awaits resume, timers fire, the worker  *)
(* runs, and a process that stopped is started again.                      *)
Deliver(d) ==
  \/ PreflightCancels(d) \/ PreflightFails(d) \/ PreflightPasses(d)
  \/ AddLands(d) \/ AddRejected(d)
  \/ PostAnswered(d) \/ PostRefused(d) \/ PostAgain(d) \/ Record(d)
  \/ Finish(d) \/ RecordRefused(d)
Process(d) ==
  \/ WorkerTakes(d) \/ JobAnswered(d) \/ JobBooked(d) \/ JobRefused(d) \/ JobRecord(d) \/ JobFails(d)
  \/ Stalled(d) \/ DoomedFails(d) \/ OnWorkerFailed(d)
Read(e) == LookupFails(e) \/ FanOut(e)
System ==
  \/ \E e \in Events : Read(e)
  \/ \E d \in Deliveries : Deliver(d) \/ Process(d)
  \/ Restart

Next ==
  \/ System
  \/ \E e \in Events : Dispatch(e)
  \/ Shutdown \/ DrainEnds \/ Exit \/ Crash

Spec == Init /\ [][Next]_vars

(* No step is favoured: each of them takes a delivery further, so none can *)
(* hold another back for ever.                                             *)
Fairness == WF_vars(System)

FairSpec == Spec /\ Fairness

-----------------------------------------------------------------------------
\* The limiter counts its slots: as many are taken as deliveries hold one, and
\* nobody waits while a slot is free, whatever ends first, is cancelled by a
\* hook, or is rejected by a shutdown (ConcurrencyLimiter.run hands a slot on
\* instead of releasing it).
SlotsAddUp ==
  /\ active = Cardinality(InFlight)
  /\ waiters # <<>> => active = Slots
  /\ {waiters[i] : i \in DOMAIN waiters} = {d \in Deliveries : stage[d] = "parked"}

\* Nobody works on the delivery any more, in this process or the next.
Settled(d) == stage[d] \in Ended /\ job[d].at \in {"none", "done", "dead"}

\* A delivery that is over was answered or cancelled by a plugin, or left a
\* trace an operator finds: a row, or the line of the drain.  Once its job is
\* in Redis no crash or shutdown takes that away.  What the code loses is named:
\* a lookup or an insert the database refuses, a crash before the job exists or
\* while a stalled job is reported; at the end of a drain the lookups and the
\* records of rejected deliveries that are not through, and with a queue also
\* what was still parked or came after the drain.
NothingVanishes ==
  \A d \in Deliveries : Settled(d) =>
    \/ answers[d] > 0 \/ rows[d] > 0 \/ stage[d] = "cancelled" \/ d \in logged
    \/ stage[d] = "missed" \/ d \in unrecorded
    \/ dropped[d] \in {"crash", "lookup", "reporting"} \cup Refused
    \/ queueOn /\ dropped[d] \in Live

\* A failure on record is one: a delivery the receiver answered has no row, and
\* none has two rows or two answers, unless its add landed although it was
\* rejected, or its job lost its worker (both at-least-once by the comments of
\* enqueueWithFallback and process).
RecordsAreTrue ==
  \A d \in Deliveries : d \notin doubled /\ job[d].stalls = 0 =>
    rows[d] + answers[d] <= 1

\* A delivery that was accepted settles, once the process stops dying: every
\* slot is handed on, every retry ends.
Settles ==
  <>[][~(Up /\ service' = "down")]_vars =>
    <>[](\A d \in Deliveries : stage[d] = "new" \/ Settled(d))
=============================================================================
