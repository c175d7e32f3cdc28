---------------------------- MODULE BulkMessage -----------------------------
(***************************************************************************)
(* BulkMessageService: createBatch, the run of processBatch that each      *)
(* batch gets, cancelBatch, and the recovery of orphaned batches at boot,  *)
(* with the plan usage the sends reserve and a deletion of the session     *)
(* underneath.                                                             *)
(*                                                                         *)
(* run[b] is processBatch(b) suspended at an await: its pc names the await *)
(* and the other fields are the locals of executeBatch (the loop index and *)
(* the in-memory copy of the batch).  cancel[c] is a suspended cancelBatch. *)
(***************************************************************************)
EXTENDS Integers, FiniteSets

CONSTANTS
  Batches,       (* batches of one session, by (sessionId, batchId) *)
  Size,          (* messages of a batch after duplicates are dropped *)
  Cadence,       (* progress is saved at every Cadence-th message (10) *)
  Cap,           (* BULK_MAX_CONCURRENT_BATCHES *)
  Limit,         (* sentMessages of the user's plan *)
  Clients,       (* callers of cancelBatch *)
  Faults,        (* what may go wrong in a run: "db", "crash", "delete" *)
  MaxCrashes     (* bound: restarts in a run *)

ASSUME BulkAssumption ==
  /\ IsFiniteSet(Batches) /\ Batches # {}
  /\ Size \in Nat \ {0}
  /\ Cadence \in Nat \ {0}
  /\ Cap \in Nat \ {0}
  /\ Limit \in Nat
  /\ MaxCrashes \in Nat

VARIABLES
  session,       (* the session's row: present or deleted *)
  row,           (* message_batches *)
  usage,         (* sentMessages of the user *)
  delivered,     (* messages the engine accepted, by index *)
  processing,    (* processingBatches: none, true or false *)
  inFlight,      (* inFlightBatches *)
  run,           (* processBatch of each batch *)
  cancel,        (* suspended calls of cancelBatch *)
  crashes,       (* restarts so far *)
  up             (* the service serves requests *)

vars == <<session, row, usage, delivered, processing, inFlight, run, cancel,
          crashes, up>>

db   == <<session, row>>
life == <<crashes, up>>

Terminal == {"completed", "cancelled", "failed"}
Statuses == {"pending", "processing"} \cup Terminal

Progress == [sent : 0..Size, failed : 0..Size, pending : 0..Size,
             cancelled : 0..Size]
Fresh == [sent |-> 0, failed |-> 0, pending |-> Size, cancelled |-> 0]

NoRow == [status |-> "none", progress |-> Fresh, stopOnError |-> FALSE]
RowType == [status : Statuses, progress : Progress, stopOnError : BOOLEAN]
            \cup {NoRow}
Exists(b) == row[b].status # "none"

NoRun == [pc |-> "none", i |-> 0, progress |-> Fresh, stopOnError |-> FALSE,
          stopped |-> FALSE, status |-> "pending"]
RunType == [pc : {"none", "insert", "read", "mark", "noEngine", "gate",
                  "reserve", "send", "persist", "release", "failedHook",
                  "progress", "sleep", "reread", "finalUpdate", "finalSave"},
            i : 0..Size, progress : Progress, stopOnError : BOOLEAN,
            stopped : BOOLEAN, status : Statuses]

NoCall == [pc |-> "idle", batch |-> CHOOSE b \in Batches : TRUE,
           progress |-> Fresh]
CallType == [pc : {"idle", "signal", "write"}, batch : Batches,
             progress : Progress]

At(b, pc) == run[b].pc = pc
Running == {b \in Batches : ~At(b, "none")}

Goto(b, r, pc) == run' = [run EXCEPT ![b] = [r EXCEPT !.pc = pc]]

-----------------------------------------------------------------------------
(* Shared pieces *)

SlotFreeOffByOne == inFlight <= Cap   (* Mutant. *)
SlotFree == inFlight < Cap

(* Mutant: the slot is lost with the run. *)
KeepSlot(b) == run' = [run EXCEPT ![b] = NoRun] /\ UNCHANGED inFlight

(* The finally block of processBatch gives the slot back. *)
ReleaseSlot(b) ==
  /\ run' = [run EXCEPT ![b] = NoRun]
  /\ inFlight' = inFlight - 1

Exit(b) ==
  /\ ReleaseSlot(b)
  /\ processing' = [processing EXCEPT ![b] = "none"]

(* The guard of the updates a run makes: they never touch a CANCELLED row. *)
Open(b) == Exists(b) /\ row[b].status # "cancelled"

(* Mutant: whatever the row says by now is overwritten. *)
BlindUpdate(b, p, status) ==
  row' = IF Exists(b) THEN [row EXCEPT ![b].status = status, ![b].progress = p]
                      ELSE row

GuardedUpdate(b, p, status) ==
  IF Open(b)
  THEN row' = [row EXCEPT ![b].status = status, ![b].progress = p]
  ELSE UNCHANGED row

(* Messages sent and failed are no longer pending. *)
Count(p, sent, failed) ==
  [sent |-> p.sent + sent, failed |-> p.failed + failed,
   pending |-> p.pending - sent - failed, cancelled |-> p.cancelled]
CountSent(r)   == [r EXCEPT !.progress = Count(r.progress, 1, 0)]
CountFailed(r) == [r EXCEPT !.progress = Count(r.progress, 0, 1)]

(* Mutant: what is cancelled stays pending as well. *)
PendingKept(p) == [sent |-> p.sent, failed |-> p.failed, pending |-> p.pending,
                   cancelled |-> p.pending]

(* What is pending when a batch is cancelled counts as cancelled. *)
Reconciled(p) == [sent |-> p.sent, failed |-> p.failed, pending |-> 0,
                  cancelled |-> p.pending]

(* resolveFinalBatchStatus of a batch that was not cancelled. *)
FinalStatus(r) ==
  IF r.stopped \/ (r.progress.failed > 0 /\ r.progress.sent = 0)
  THEN "failed" ELSE "completed"

(* The head of the message loop: the cancel flag is read before a message. *)
NextMessage(b, r) ==
  Goto(b, r, IF r.i < Size /\ processing[b] = "true" THEN "gate" ELSE "reread")

(* The delay before the next message, none after the last. *)
Advance(b, r) ==
  IF r.i < Size - 1 /\ processing[b] = "true"
  THEN Goto(b, r, "sleep")
  ELSE NextMessage(b, [r EXCEPT !.i = @ + 1])

(* The result is recorded; progress is saved by cadence and at the end. *)
Record(b, r) ==
  IF r.i % Cadence = 0 \/ r.i = Size - 1
  THEN Goto(b, r, "progress") ELSE Advance(b, r)

(* The failure is recorded, and may end the batch. *)
RecordFailure(b, r) ==
  IF r.stopOnError THEN Goto(b, [r EXCEPT !.stopped = TRUE], "reread")
                   ELSE Record(b, r)

-----------------------------------------------------------------------------
(* createBatch *)

(* The slot is reserved in the turn of the cap check, before the insert. *)
CreateBatch(b) ==
  /\ up /\ session = "present"
  /\ ~Exists(b) /\ At(b, "none")
  /\ SlotFree
  /\ inFlight' = inFlight + 1
  /\ \E stop \in BOOLEAN :
       run' = [run EXCEPT ![b] = [NoRun EXCEPT !.pc = "insert",
                                               !.stopOnError = stop]]
  /\ UNCHANGED <<db, usage, delivered, processing, cancel, life>>

(* The row is there; processBatch is started without being awaited. *)
BatchCreated(b) ==
  /\ At(b, "insert")
  /\ row' = [row EXCEPT ![b] = [status |-> "pending", progress |-> Fresh,
                                stopOnError |-> run[b].stopOnError]]
  /\ Goto(b, run[b], "read")
  /\ UNCHANGED <<session, usage, delivered, processing, inFlight, cancel, life>>

CreateFails(b) ==
  /\ "db" \in Faults
  /\ At(b, "insert")
  /\ ReleaseSlot(b)
  /\ UNCHANGED <<db, usage, delivered, processing, cancel, life>>

-----------------------------------------------------------------------------
(* processBatch *)

(* Neither the flag nor the row says cancelled. *)
NotCancelled(b) == processing[b] # "false" /\ row[b].status # "cancelled"

ReadBatch(b) ==
  /\ At(b, "read")
  /\ \/ /\ ~Exists(b)
        /\ ReleaseSlot(b) /\ UNCHANGED processing
     \/ /\ Exists(b) /\ ~NotCancelled(b)
        /\ Exit(b)
     \/ /\ Exists(b) /\ NotCancelled(b)
        /\ processing' = [processing EXCEPT ![b] = "true"]
        /\ run' = [run EXCEPT ![b] =
                     [NoRun EXCEPT !.pc = "mark", !.progress = row[b].progress,
                                   !.i = row[b].progress.sent + row[b].progress.failed,
                                   !.stopOnError = row[b].stopOnError,
                                   !.status = "processing"]]
        /\ UNCHANGED inFlight
  /\ UNCHANGED <<db, usage, delivered, cancel, life>>

(* The guarded start.  The engine is captured for the whole batch; without *)
(* one the batch fails.                                                    *)
MarkProcessing(b) ==
  /\ At(b, "mark")
  /\ IF Open(b)
     THEN /\ row' = [row EXCEPT ![b].status = "processing"]
          /\ \/ session = "present" /\ NextMessage(b, run[b])
             \/ Goto(b, run[b], "noEngine")
          /\ UNCHANGED <<processing, inFlight>>
     ELSE Exit(b) /\ UNCHANGED row
  /\ UNCHANGED <<session, usage, delivered, cancel, life>>

FailWithoutEngine(b) ==
  /\ At(b, "noEngine")
  /\ GuardedUpdate(b, row[b].progress, "failed")
  /\ Exit(b)
  /\ UNCHANGED <<session, usage, delivered, cancel, life>>

(* The message:sending hook allows or blocks the message, or its content   *)
(* breaks the media cap.                                                   *)
Gate(b) ==
  LET failed == CountFailed(run[b])
  IN  /\ At(b, "gate")
      /\ \/ Goto(b, run[b], "reserve")
         \/ RecordFailure(b, failed)
         \/ Goto(b, failed, "failedHook")
      /\ UNCHANGED <<db, usage, delivered, processing, inFlight, cancel, life>>

(* The usage counter moves only below the limit; without its session (and  *)
(* so without a user) nothing is counted.  The message fails when the limit *)
(* is reached, the trial has ended or the database fails.                  *)
ReserveQuota(b) ==
  /\ At(b, "reserve")
  /\ \/ /\ session = "present" /\ usage < Limit
        /\ usage' = usage + 1
        /\ Goto(b, run[b], "send")
     \/ /\ session = "deleted"
        /\ Goto(b, run[b], "send") /\ UNCHANGED usage
     \/ Goto(b, CountFailed(run[b]), "failedHook") /\ UNCHANGED usage
  /\ UNCHANGED <<db, delivered, processing, inFlight, cancel, life>>

(* The engine of a deleted session was destroyed with it. *)
Send(b) ==
  /\ At(b, "send")
  /\ \/ /\ session = "present"
        /\ delivered' = [delivered EXCEPT ![b] = @ \cup {run[b].i}]
        /\ Goto(b, CountSent(run[b]), "persist")
     \/ Goto(b, run[b], "release") /\ UNCHANGED delivered
  /\ UNCHANGED <<db, usage, processing, inFlight, cancel, life>>

Released(u) == IF u > 0 THEN u - 1 ELSE 0

(* Mutant: a failed insert returns the reservation of a sent message. *)
InsertReleases == usage' = Released(usage)

(* saveOutgoingMessage of a message that has its reservation: the insert   *)
(* may fail, which is logged only.                                         *)
InsertFails == UNCHANGED usage

Persist(b) ==
  /\ At(b, "persist")
  /\ UNCHANGED usage \/ InsertFails
  /\ Record(b, run[b])
  /\ UNCHANGED <<db, delivered, processing, inFlight, cancel, life>>

ReleaseQuota(b) ==
  /\ At(b, "release")
  /\ usage' = IF session = "present" THEN Released(usage) ELSE usage
  /\ Goto(b, CountFailed(run[b]), "failedHook")
  /\ UNCHANGED <<db, delivered, processing, inFlight, cancel, life>>

FailedHookDone(b) ==
  /\ At(b, "failedHook")
  /\ RecordFailure(b, run[b])
  /\ UNCHANGED <<db, usage, delivered, processing, inFlight, cancel, life>>

(* No row to update: a cancel won, whoever issued it. *)
SaveProgress(b) ==
  /\ At(b, "progress")
  /\ IF Open(b)
     THEN /\ row' = [row EXCEPT ![b].progress = run[b].progress]
          /\ Advance(b, run[b])
     ELSE /\ Goto(b, [run[b] EXCEPT !.status = "cancelled",
                                    !.progress = Reconciled(@)], "finalSave")
          /\ UNCHANGED row
  /\ UNCHANGED <<session, usage, delivered, processing, inFlight, cancel, life>>

Delayed(b) ==
  /\ At(b, "sleep")
  /\ NextMessage(b, [run[b] EXCEPT !.i = @ + 1])
  /\ UNCHANGED <<db, usage, delivered, processing, inFlight, cancel, life>>

(* finalizeBatch: the row and the flag decide between CANCELLED and the    *)
(* outcome of the messages.                                                *)
Finalize(b) ==
  LET cancelled == row[b].status = "cancelled" \/ processing[b] # "true"
  IN  /\ At(b, "reread")
      /\ IF cancelled
         THEN Goto(b, [run[b] EXCEPT !.status = "cancelled",
                                     !.progress = Reconciled(@)], "finalSave")
         ELSE Goto(b, [run[b] EXCEPT !.status = FinalStatus(run[b])],
                   "finalUpdate")
      /\ UNCHANGED <<db, usage, delivered, processing, inFlight, cancel, life>>

(* save() of a CANCELLED batch writes the row, and inserts a missing one. *)
FinalSave(b) ==
  /\ At(b, "finalSave")
  /\ row' = [row EXCEPT ![b] = [status |-> "cancelled",
                                progress |-> run[b].progress,
                                stopOnError |-> run[b].stopOnError]]
  /\ Exit(b)
  /\ UNCHANGED <<session, usage, delivered, cancel, life>>

FinalUpdate(b) ==
  /\ At(b, "finalUpdate")
  /\ GuardedUpdate(b, run[b].progress, run[b].status)
  /\ Exit(b)
  /\ UNCHANGED <<session, usage, delivered, cancel, life>>

(* A database error leaves processBatch through its finally block. *)
RunFails(b) ==
  /\ "db" \in Faults
  /\ run[b].pc \in {"read", "mark", "noEngine", "release", "progress",
                    "reread", "finalUpdate", "finalSave"}
  /\ IF At(b, "read") THEN ReleaseSlot(b) /\ UNCHANGED processing ELSE Exit(b)
  /\ UNCHANGED <<db, usage, delivered, cancel, life>>

-----------------------------------------------------------------------------
(* cancelBatch *)

(* The row as it is read; a batch that is gone or terminal is refused. *)
CancelBatch(c, b) ==
  /\ up
  /\ cancel[c].pc = "idle"
  /\ row[b].status \in {"pending", "processing"}
  /\ cancel' = [cancel EXCEPT ![c] = [pc |-> "signal", batch |-> b,
                                      progress |-> row[b].progress]]
  /\ UNCHANGED <<db, usage, delivered, processing, inFlight, run, life>>

CancelSignals(c) ==
  /\ cancel[c].pc = "signal"
  /\ processing' = [processing EXCEPT ![cancel[c].batch] = "false"]
  /\ cancel' = [cancel EXCEPT ![c].pc = "write"]
  /\ UNCHANGED <<db, usage, delivered, inFlight, run, life>>

Cancellable(b) == row[b].status \in {"pending", "processing"}

CancelWrites(c) ==
  LET b == cancel[c].batch
  IN  /\ cancel[c].pc = "write"
      /\ row' = IF Cancellable(b)
                THEN [row EXCEPT ![b].status = "cancelled",
                                 ![b].progress = Reconciled(cancel[c].progress)]
                ELSE row
      /\ cancel' = [cancel EXCEPT ![c] = NoCall]
      /\ UNCHANGED <<session, usage, delivered, processing, inFlight, run, life>>

CancelFails(c) ==
  /\ "db" \in Faults
  /\ cancel[c].pc = "write"
  /\ cancel' = [cancel EXCEPT ![c] = NoCall]
  /\ UNCHANGED <<db, usage, delivered, processing, inFlight, run, life>>

-----------------------------------------------------------------------------
(* The process and the session underneath *)

Crash ==
  /\ "crash" \in Faults
  /\ up
  /\ crashes < MaxCrashes
  /\ crashes' = crashes + 1
  /\ up' = FALSE
  /\ processing' = [b \in Batches |-> "none"]
  /\ inFlight' = 0
  /\ run' = [b \in Batches |-> NoRun]
  /\ cancel' = [c \in Clients |-> NoCall]
  /\ UNCHANGED <<db, usage, delivered>>

(* onApplicationBootstrap fails orphaned PROCESSING batches before the     *)
(* first request is served.  Its saves can be repeated after a crash.      *)
Boot ==
  /\ ~up
  /\ up' = TRUE
  /\ row' = [b \in Batches |-> IF row[b].status = "processing"
                               THEN [row[b] EXCEPT !.status = "failed"]
                               ELSE row[b]]
  /\ UNCHANGED <<session, usage, delivered, processing, inFlight, run, cancel,
                 crashes>>

(* The transaction of SessionEngineControls.delete. *)
DeleteSession ==
  /\ "delete" \in Faults
  /\ up /\ session = "present"
  /\ session' = "deleted"
  /\ row' = [b \in Batches |-> NoRow]
  /\ UNCHANGED <<usage, delivered, processing, inFlight, run, cancel, life>>

-----------------------------------------------------------------------------
Init ==
  /\ session = "present"
  /\ row = [b \in Batches |-> NoRow]
  /\ usage = 0
  /\ delivered = [b \in Batches |-> {}]
  /\ processing = [b \in Batches |-> "none"]
  /\ inFlight = 0
  /\ run = [b \in Batches |-> NoRun]
  /\ cancel = [c \in Clients |-> NoCall]
  /\ crashes = 0
  /\ up = TRUE

RunStep(b) ==
  \/ BatchCreated(b) \/ ReadBatch(b) \/ MarkProcessing(b)
  \/ FailWithoutEngine(b) \/ Gate(b) \/ ReserveQuota(b) \/ Send(b)
  \/ Persist(b) \/ ReleaseQuota(b) \/ FailedHookDone(b) \/ SaveProgress(b)
  \/ Delayed(b) \/ Finalize(b) \/ FinalSave(b) \/ FinalUpdate(b)

Next ==
  \/ \E b \in Batches : \/ CreateBatch(b) \/ CreateFails(b)
                        \/ RunStep(b) \/ RunFails(b)
  \/ \E c \in Clients : \/ \E b \in Batches : CancelBatch(c, b)
                        \/ CancelSignals(c) \/ CancelWrites(c) \/ CancelFails(c)
  \/ Crash \/ Boot \/ DeleteSession

Spec == Init /\ [][Next]_vars

-----------------------------------------------------------------------------
(* Properties *)

TypeOK ==
  /\ session \in {"present", "deleted"}
  /\ row \in [Batches -> RowType]
  /\ usage \in 0..Limit
  /\ delivered \in [Batches -> SUBSET (0..(Size - 1))]
  /\ processing \in [Batches -> {"none", "true", "false"}]
  /\ inFlight \in 0..Cap
  /\ run \in [Batches -> RunType]
  /\ cancel \in [Clients -> CallType]
  /\ crashes \in 0..MaxCrashes
  /\ up \in BOOLEAN

(* Every run holds one slot of the cap and gives it back on every exit: no *)
(* burst overshoots the cap and no failure eats a slot for ever.           *)
SlotsBalance == inFlight = Cardinality(Running) /\ inFlight <= Cap

Total(p) == p.sent + p.failed + p.pending + p.cancelled

(* The counters of a batch always account for each of its messages, never  *)
(* claim a message that was not sent, and a COMPLETED batch has an outcome *)
(* for each.                                                               *)
CountersAccount ==
  \A b \in Batches : Exists(b) =>
    LET p == row[b].progress
    IN  /\ Total(p) = Size
        /\ p.sent <= Cardinality(delivered[b])
        /\ row[b].status = "completed"
             => p.sent = Cardinality(delivered[b]) /\ p.sent + p.failed = Size

(* Messages sent, and those whose send holds a reservation. *)
Covered == {m \in Batches \X (0..(Size - 1)) :
              \/ m[2] \in delivered[m[1]]
              \/ run[m[1]].pc \in {"send", "release"} /\ run[m[1]].i = m[2]}

(* Every message WhatsApp accepted is paid for: usage covers all that was  *)
(* sent and every send under way, and never exceeds the plan.              *)
UsageCoversSent ==
  session = "present" => Cardinality(Covered) <= usage /\ usage <= Limit

(* The detailed service keeps the contract of the endpoint. *)
Contract == INSTANCE BatchContract WITH
  status <- [b \in Batches |-> IF session = "present" THEN row[b].status ELSE "gone"],
  underway <- [b \in Batches |-> /\ session = "present"
                                 /\ row[b].status = "cancelled"
                                 /\ run[b].pc \in {"gate", "reserve", "send"}]

KeepsContract == Contract!Spec

(* session-engine-controls.ts deletes the batches of a session with it, as *)
(* "a session delete would otherwise orphan them forever".                 *)
DeletedKeepsNoBatch ==
  session = "deleted" /\ Running = {} => \A b \in Batches : ~Exists(b)
=============================================================================
