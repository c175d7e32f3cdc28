# A verification development of SmartConfirm

SmartConfirm is a NestJS back end (`src/src/`) that drives WhatsApp sessions and
offers them over HTTP: one engine (a Baileys socket) per session, messages and
bulk batches through it, webhooks and plugins fed by its events, shops and
quotas around it.  Node runs one callback at a time; what makes the program hard
is that every handler awaits (the database, an engine, a hook, a timer) in the
middle of what it does, and other handlers run there.  All models here share
that granularity: **the code between two awaits is one action**, and a call
that is suspended at an await is a record that keeps the local variables the
code holds across it.

## Inventory

| Component | State it keeps | Operations | What is hard, what makes it correct |
|---|---|---|---|
| Session lifecycle (`modules/session/session-engine-controls.ts`, `session-engine-lifecycle.service.ts`, `session-lifecycle-fences.ts`, `engine/engine-registry.service.ts`) | session rows; the engine registry and its reservations; stop marks; reconnect timers; INITIALIZING promises; credential fences | start, stop, logout, forceKill, delete, import, reconnect timer, engine callbacks | every control may meet every other at any await: one start at a time, no engine outside the registry, a stop that stays final, no removal of a live engine's credentials |
| Bulk messages (`modules/message/bulk-message.service.ts`) | batch rows, in-flight slots, cancel flags, plan quota | createBatch, processBatch, cancelBatch, boot recovery | a cancel against progress writes; a crash in the middle of a batch; release of the quota of failed sends |
| Messages and acks (`modules/message/message.service.ts`, `modules/session/message-projector.service.ts`, `message-history-projector.ts`, `message-mutation-projector.ts`, `message/pending-message-reaper.service.ts`) | message rows, plan usage, mutation queues, a search provider's copy | send, echo, arrival, ack, reaction, edit, revoke, history import, reaper | one message in two rows; acks before the row exists, out of order or after the reaper; the quota of failed sends |
| Integration ingress (`modules/integration/`, `queue/processors/ingress.processor.ts`) | ingress events, dead letters, queue jobs, ordering locks | receive, enqueue, process, reconcile, redrive | redelivery by the provider, the queue and the reconciler at once; order per conversation; a crash between any two writes |
| Webhook delivery (`modules/webhook/webhook.service.ts`, `queue/processors/webhook.processor.ts`, `common/utils/concurrency-limiter.ts`) | limiter, queue jobs, records of failures | dispatch, retry, direct fallback, drain | slots that leak; a delivery that disappears; one recorded as failed that was answered |
| Plan usage and billing (`modules/auth/plan-usage.service.ts`, `modules/billing/`) | usage counters, subscriptions, transactions, add-ons | reserve, release, period reset, provider callbacks | concurrent reservations at the limit; callbacks out of order or repeated |
| Plugin runtime and administration (`core/plugins/`, `core/hooks/`, `modules/plugins/`) | plugin states, worker threads, shims, package directories, the registry file | install, update, uninstall, enable, disable, call, crash | a worker that dies at any await; calls in flight; a restart in the middle of an update |
| Campaigns, shops, commerce automation | rows, conversations | CRUD, provider webhooks, LLM turns | duplicates of one provider event |
| Auth, gateway, search, MCP, storage, infra, stats | rows, sockets, files | request/response | mostly I/O |

How they interact: controllers call services; services look engines up in the
registry and call them; engines call back through the closures that
`session-engine-event-wiring.ts` builds, each gated on its instance being the
live one; the projector persists messages and acks and fires hooks; hooks run
plugins and the webhook fan-out; bulk and single sends pass a gate hook and
reserve plan usage before they reach the engine.

`PROJECT.json` lists every component with what is modelled of it, and every
hazard with its line and the properties aimed at it.

## Session lifecycle

`SessionLifecycle.tla` is one session service: `Sessions` rows, `Engines`
instances and `Slots` calls.  A call is a task `[op, sid, pc, eng, wait]`: `pc`
names the await it is suspended at, `eng` is the engine it captured and `wait`
the credential removals its fence found, or the engine whose INITIALIZING write
a control awaits.

| Variable | Code |
|---|---|
| `row`, `status`, `late` | the `sessions` table, its `status`, and status updates issued without await |
| `authDir`, `logouts`, `pendingTeardowns` | the auth directory (whose credentials it holds), adapter logouts that still have their `rm` ahead, those the fences track |
| `engines`, `initializing` | `EngineRegistry` |
| `stopping`, `reconnect`, `pendingInitial` | `stoppingSessions`, `reconnectStates`, `pendingInitialStatuses` |
| `rejected` | the controls whose awaited INITIALIZING write has been rejected and whose `await` has not thrown yet |
| `phase`, `owner` | life of an engine instance (`free`, `created`, `running`, `unlinked`: link lost but registered, `closing`: torn down) and the session its callbacks close over |

| Actions | Code |
|---|---|
| `Start`, `StartChecks`, `StartAccepted`, `StartHookDone`, `StartFailed`, `StartFailedWritten` | `start()` from its reservation to its `finally` |
| `InitialStatusWritten`, `EngineInitialized`, `EngineInitTimeout` | `initializeEngine()`: registration, the INITIALIZING write, re-validation, the init deadline |
| `CheckRow`, `ResurrectedDown`, `PurgeCheck`, `Repurge` | the post-init guard (`isSessionRetired`, `purgeAuthDirsIfDeleted`) of a start or reconnect |
| `Stop`, `Logout`, `ForceKill`, `ImportData`, then `BeginTeardown` or `ControlRejected`, `TeardownDone`, `FinalStatusWritten` | the retiring controls; one whose awaited INITIALIZING write rejects ends before its teardown |
| `Delete`, `DeleteAccepted`, `DeleteFenced`, `DeleteCommits`, `DeleteFails`, `DeletePurges`, `FenceTimeout` | `delete()` with both fences |
| `ReconnectTimer`, `Reconnects`, `ReconnectFailed` | `scheduleReconnect` and `executeReconnect` |
| `RemoteLoggedOut`, `Disconnected`, `HandleDisconnected`, `EngineError`, `Ready`, `FinalizeReady`, `RejectDuplicate` | engine callbacks |
| `LateWriteSettles`, `LogoutSettles` | un-awaited writes and the raw logout of an adapter |

Data that is abstracted: names and numbers (a session key is drawn fresh by
`create()`, so it never names another session's directory), QR codes, the
contents of the auth directory (only whose it is), delays (a timer may fire at
any moment once armed).  `FAILED` and `READY` updates are issued without await
in several places and settle in any order, so they are elements of `late`.

### Runs

All runs use one session (the state of two sessions is disjoint but for the
session cap), two or three engine instances and two or three concurrent calls:
the races of this code are between the two calls, and the replacement of an
engine needs a second and, for a replacement of the replacement, a third.
`Ops` selects which operations a run lets callers and engines issue, which is
what keeps the state space small.  `MaxAttempts = 1` lets a reconnect be
scheduled and its budget run out; `MaxConcurrent = 1`.  Deadlock is not
checked: a service without requests is idle, and a run may use up its engines.

| Run | What it asks | Result |
|---|---|---|
| `SessionFaults` | one start at a time; no dead engine stuck in the registry; a quiet session that holds an engine holds a working one - under reconnects, errors, remote logouts, duplicates, imports and slow writes | holds |
| `SessionControls` | the INITIALIZING write settles before a control's own; a serving engine is registered; a stop is final; credentials are removed only by their own logout - under all controls, without reconnects | holds |
| `SessionLiveness` | reservations are released, dying engines leave the registry | holds under fairness |
| `SessionOrphan` | a serving engine is registered, with reconnects | violated |
| `SessionDeleteRace` | a deleted session leaves no engine | violated |
| `SessionDuplicateLogout` | credentials are removed only by their own logout, with duplicate numbers | violated |

Fairness: `WF(Resume(t))` for each suspended call.  Every await of the code is
bounded: teardowns and fences race a 10 s timer, `initialize()` races the init
deadline, and everything else is one database operation or one hook.  Nothing
is assumed about requests, engine events, timers or late writes.

### Disagreements with the code's own claims

The three violation runs are described under `findings` in `PROJECT.json`.  In
short: `executeReconnect` does not look at the registry again after its fence,
so it can replace an engine that a `start()` registered (`SessionOrphan`); a
`start()` accepted between the eviction and the transaction of a `delete()` may
pass its post-init guard before the row goes (`SessionDeleteRace`); the logout
of a rejected duplicate number is unknown to the credential fences
(`SessionDuplicateLogout`).  Observed but not run: `executeReconnect` ignores
`MAX_CONCURRENT_SESSIONS`; a stop that lands during the `session:starting` hook
leaves the row INITIALIZING.

### Proofs

`SessionLifecycleProofs.tla` and `SessionSafetyProofs.tla` prove, for any sets
of sessions, engines and calls, from `SessionAssumption` and, in the last four,
a restriction of `Ops`:

* `TypeCorrect` - `TypeOK`.  The inductive invariant `TInv` adds the shape of
  tasks: which operation can be suspended at which await, and with which
  captured engine.
* `OneStartAtATime` - `OneStart`.  It needs `OwnInv` as well: what a call
  captured was created for its session.
* `NoSlotWedges`, `QuietSessionsServe` - through `SlotInv`: a registered engine
  that is not serving is either created and in the hands of the call that is
  initializing it, or closing and in the hands of the call that removes it.
* `RetiredWritesSettle` - through `WriteInv`: a control that captured a pending
  INITIALIZING write holds it in `wait` until it is gone.  It assumes
  `"slow" \notin Ops`: a write takes less than the ten seconds
  `awaitInitialStatus` waits.  With slower writes the property is false.
* `SocketsAreRegistered` - `ServingIsRegistered`, through `RegistryInv`: only
  starts create engines (`OnlyStarts`); a start past its checks finds the slot
  of its session empty or filled by its own engine (`StartOwnsSlot`, which needs
  `OneStart`: the reservation keeps the other starts out); and what a call
  captured has come no further in its life than the call's own await says
  (`CapturedPhase`).  It assumes `Ops \cap {"drop", "import", "slow"} = {}`.
* `StopsAreFinal` - `StopIsFinal`, through `StopInv`: while a session marked as
  stopped still has an engine registered, some call (`Ending`) will take that
  engine out or find the mark after its `initialize()`.  A control that ends
  because its awaited write was rejected takes nothing out: `RejectedGone` says
  that the catch of the start has done it by then.  The theorem assumes the same
  and `"ready" \notin Ops`.
* `CredentialsStaySafe` - `CredentialsSafe`, an action property, shown at each
  step (`ClearsSafely`) from `CredInv`: whoever purges a directory does so after
  the row was deleted (`PurgesDeleted`), a start that may still create an engine
  knows of every logout on its way (`LogoutsFenced`), and the directory of an
  engine that serves or logs out holds its own credentials or none
  (`OwnDirectory`).  Same assumption as `StopsAreFinal`.

The assumptions on `Ops` name the operations under which the code does not keep
these three properties; TLC finds a counterexample with each of them.  A drop arms a reconnect
that may replace a registered engine (`SessionOrphan`).  The orphan stop of an
import tears an engine down without waiting for its INITIALIZING write, and so
does a control which that write outlasts: once a failed delete has taken its
stop mark back, the start goes on and initializes the engine that has left the
registry.  The logout of a duplicate number (`ready`) runs outside the fences
(`SessionDuplicateLogout`), and its handler marks the session as stopped even
when a newer engine serves by then.  An engine may report an error in
all three theorems, which the run `SessionControls` leaves out.

Only model-checked: the liveness properties `SlotReleased` and
`ReservationReleased`.

### Not modelled

The counting of the liveness watchdog (its outcome is `Disconnected`), process
shutdown, the force path of an import, failures of reads and of the final
status writes, the status updates of QR and state-change callbacks, the session
cap across several sessions, other back-end instances (the code assumes one).


## Bulk messages

`BatchContract.tla` is what the bulk endpoint promises for a batch, with no word
of how: it moves from pending over processing to one terminal status for ever,
no message of it is sent twice, and once CANCELLED is stored at most the message
already under way still goes out.

`BulkMessage.tla` is `BulkMessageService` with the quota of `PlanUsageService`
and a delete of the session underneath.

| Variable | Code |
|---|---|
| `session`, `row` | the session's row, `message_batches` (status, progress, stopOnError) |
| `processing`, `inFlight` | `processingBatches` (absent, true, or false once a cancel signalled), `inFlightBatches` |
| `run` | `processBatch` of each batch, suspended at an await: the loop index and the in-memory copy of progress, which may be ahead of the row |
| `cancel` | a `cancelBatch` suspended before its flag or before its write, with the progress it read |
| `usage`, `delivered` | `sentMessages` of the user; what the engine accepted |
| `up`, `crashes` | whether the service serves, restarts so far |

| Actions | Code |
|---|---|
| `CreateBatch`, `BatchCreated`, `CreateFails` | `createBatch`: check and reservation in one turn, the insert |
| `ReadBatch`, `MarkProcessing`, `FailWithoutEngine` | `processBatch` up to the message loop |
| `Gate`, `ReserveQuota`, `Send`, `Persist`, `ReleaseQuota`, `FailedHookDone`, `SaveProgress`, `Delayed` | the awaits of `processBatchMessage` |
| `Finalize`, `FinalSave`, `FinalUpdate` | `finalizeBatch`; the save of a cancelled batch inserts a missing row |
| `RunFails` | any rejected database call of the run, through the `finally` |
| `CancelBatch`, `CancelSignals`, `CancelWrites`, `CancelFails` | `cancelBatch` |
| `Crash`, `Boot`, `DeleteSession` | restart, `onApplicationBootstrap`, the transaction of the session's delete |

Abstracted: contents, templates and media (the gate or the media cap passes or
fails a message), the ids (a batch is its `(sessionId, batchId)`; two creates of
one id at once, which the unique constraint decides, are left out), the delay.
The engine accepts a message or fails; after the session is deleted it fails,
because the delete destroyed it first.  The period reset of the usage counter
is left out, so within a run `usage` covers all that was ever sent.

### Runs

| Run | What it asks | Result |
|---|---|---|
| `BulkBatches` | types and bounds, the slots, the counters, the quota, and that the service implements `BatchContract` | holds |
| `BulkDeleted` | once its session is deleted and no run is left, a batch has no row | violated |

Bounds: two batches of three messages for one slot and a quota of four, one
canceller, one crash.  Two batches make the cap bite; three messages are a
first one (which the cadence of ten saves), one between and a last one; the
quota runs out inside the second batch.  A second canceller would only find a
terminal row or the flag the first has set.  Deadlock is not checked: with all
batches done nothing is left to do.

`BulkDeleted`: the progress update takes "no row affected" for a cancel, and
`finalizeBatch` then saves the batch, which inserts a deleted row again;
`createBatch` does the same when its insert lands after the delete.

### Proofs

`BulkMessageProofs.tla` and `BulkContractProofs.tla` prove every property of
`BulkBatches` from `BulkAssumption`, for any number of batches, messages,
slots, cancels and restarts and any set of faults: `BulkTypeCorrect`,
`BulkSlotsBalance`, `BulkCountersAccount`, `BulkUsageCoversSent`, and
`BulkKeepsContract`, the refinement.  None is inductive as it stands.  `IInv`
relates, per batch, the run to what it delivered (`Local`: everything delivered
lies behind the loop index, and the copy of the counters agrees with it), the
row to what was delivered (`Accounts`), and the run to its row (`InStep`: a
batch that has begun is being processed, cancelled or deleted, and a CANCELLED
row implies a lowered flag - which is why `cancelBatch` signals before it
writes).  `Called` says what a suspended cancel may still rely on.  The
refinement and the quota both follow from what one step may do to a batch
(`Effect`).

## Messages

`MessageRows.tla` is the `messages` table of one session and everything that
writes it.  A message a REST call sends may end up in two rows: the one the
call inserts PENDING, without a WhatsApp id, before it calls the engine
(`own`), and the one its echo inserts (`event`); the unique index lets only one
of them carry the id.

| Variable | Code |
|---|---|
| `own`, `event` | rows of `messages`: status, whether the id is set, the media payload, reactions, text |
| `pc`, `usage`, `nameless` | a send suspended at an await; `sentMessages` of the user; sends whose engine could not read the id back |
| `task`, `stale`, `fanned` | `handleMessage` and `handleMessageCreate` suspended at an await, those whose engine was retired meanwhile, how often the message went out |
| `acks`, `chain`, `sweep`, `importing` | `handleMessageAck` with its retry, the `KeyedMutationQueue` of each message, the rows the reaper found, the import's rows between select and insert |
| `index` | the documents of a search provider |
| `accepted`, `receipts`, `wanted`, `revoked`, `early`, `lost`, `imported`, `outliving`, `unmetered`, `hurt`, `leaked` | history, for the properties only |

| Actions | Code |
|---|---|
| `Request`, `Gate`, `FindSession`, `FindUser`, `Reserve`, `Insert`, `Undo`, `EngineAnswers`, `SaveSent`, `Merge`, `Drop`, `AnnounceSurvivor`, `SaveFailed`, `Release` | the send of `MessageService`: `applySendingGate`, `reserveOutgoingMessage`, `saveOutgoingMessage`, `persistSentState` with its merge, `failSend` |
| `Report`, `Project`, `FanOut` | the projector's handlers of arrivals and echoes |
| `Ack`, `Advance` | `handleMessageAck` with `ackStatusTransitionFrom` |
| `MutationArrives`, `ReadReactions`, `WriteReactions`, `ApplyEdit`, `Revoke` | the mutation projector |
| `ImportSelect`, `ImportInsert` | the history projector |
| `SweepStart`, `Reap` | `PendingMessageReaper` |
| `Retire`, `Revive`, `Delete`, `Crash` | the session under the messages, the process |

The metadata column of a row holds the media payload, what a message quotes and
the reactions to it, and is written as a whole: by the merge (`Overwritten`) and
by a reaction, which writes back what it has read.

Run `MessageRows`: two media sends with their echoes, one of them with receipts
and one reacted to; a reply that is reacted to; two text sends that share an
allowance of one, one of them revoked; a message from the phone; one that
arrives twice and is in the history; one with reactions of two people, an edit
and a revoke.  Each statement may fail, and the process dies once or the
session is deleted (`MaxUpsets`), with its engine retired by then or, as the run
`SessionDeleteRace` shows to happen, another one registered.  `Casts` keeps
these stories apart: two of them share only the usage counter and the session,
and the one pair that competes for the counter is in one cast.  `MaxChain` bounds
a queue to two operations for the message both reactions and edits come for,
which is where one can overtake another, and to one elsewhere.  Fairness
(`FairSpec`): the reaper's timer fires, a sweep ends, and the database does not
refuse the same update in every sweep; nothing is assumed of senders, engine or
receipts.  `PendingResolves` says that in the end no row is PENDING: sends are
finitely many here, so it is the fate of every row.  Deadlock is not checked:
with everything reported nothing is left to do.

What the code does and the properties therefore exempt by name:

* the merge with an echo sets SENT without the guard acks have, so a row that is
  already READ goes back (`AcksAdvance`);
* the merge of a send with media or a quoted message overwrites the reactions
  that came for its echo's row (`lost`, `MutationsKept`); when a reaction has
  read that row before the merge and writes it back after, the reactions stay
  and the payload is lost instead (`OneCopy`);
* a session deleted between `findOne` and the user's lookup of a send has no
  user, and the send passes uncounted (`unmetered`, `QuotaAccount`); a refused
  FAILED save skips the release of the reservation (`leaked`);
* a refused SENT save leaves the row PENDING, and the reaper then marks a message
  FAILED that WhatsApp has (`NotFailedOnceSent`);
* a live message that the history import stored first is never dispatched, and
  one whose process died between insert and dispatch neither; the handlers of an
  engine that is registered after the delete find no row of what was dispatched
  before it and dispatch it again (`outliving`, `ReceivedOnce`);
* those handlers store rows that nobody purges, and so does the import, which
  does not look again whether its session still exists (`NoOrphanRows`); a
  send's own save inserts its row again after a delete;
* an edit queued behind a reaction may land after a revoke (`MutationsKept`).

Abstracted: contents, chats, and the order in which un-awaited index updates
reach a provider (it is the order they are issued in).

### Proofs

`MessageRowsProofs.tla` proves the seven safety properties of the run from
`MessageAssumption`, for any sets of messages, reports, receipts and imports,
any allowance, any faults and any number of restarts, and without the bound
`Casts`: `MessageTypeCorrect`, `AllowanceCounted`, `FailuresTrue`,
`OneCopyKept`, `ReceivedOnceOnly`, `MutationsKeptInOrder`, `NoOrphans`, and the
action property `AcksOnlyAdvance`.  The inductive invariant has a part for each
question, and says of a call that is under way what the property says of one
that is over:

* `Shape`, used by all others: only one row of a message carries its id, and a
  send's own row does so only when the call is over.  So an update by id never
  meets the row of a send that is still on its way.
* `Account`: the counter is the number of sends in `Held`; adding to and taking
  from it goes through the cardinality theorems of the library.  `Metered`: a
  send passes uncounted only once its session is gone, and gives nothing back.
* `Failures`: a row with an id is FAILED only by a receipt, and the row of a
  send that ended without a fault is not PENDING, so the reaper finds nothing.
* `Copy`: what the merge has done at each of its three awaits.
* `Arrivals` and `Purged`: an arriving message has a row exactly when it went
  out or one report is about to send it out, but for the handlers in
  `outliving`, and a handler that may still store a row after the delete is one
  of them.
* `Queues`: what the queue of a message, applied in its order, leaves of the
  row is what was asked for - the last reaction of each sender, the last edit -
  where the first operation, once it has read the row, counts with what it read
  (`Base`), or a merge has overwritten it.  `Carries`: only the first operation
  has read the row, and the payload it carries is the row's, or lost.

`PendingResolves` stays with TLC.

## Ingress

`Ingress.tla` is the way of a provider's webhook into a plugin.

| Variable | Code |
|---|---|
| `event` | `ingress_events`: status, attempts, whether the payload is still there, whether the grace period is over |
| `letters` | `integration_delivery_failures`, in insertion order |
| `call` | a caller of the shared enqueue - a request, the reconciler's sweep, the redrive - suspended at an await |
| `swept`, `picked` | the rest of the batch a sweep or a redrive has read |
| `job`, `lane` | BullMQ's jobs with their attempts and stalls; `KeyedAsyncLock`, the jobs chained on each ordering key |
| `handled`, `raced`, `forfeited` | history |

| Actions | Code |
|---|---|
| `Receive`, `MarkDispatched`, `MarkFailed`, `SaveLetter`, `MarkLost` | `IngressService.handle` and the outcome its wrapper records |
| `Add`, `AddRejected`, `AddInline`, `InlineTakes`, `InlineEnds` | `IngressEnqueueService.enqueue` for any caller |
| `Take`, `Start`, `JobTakes`, `JobEnds`, `JobFails`, `JobLetter`, `JobLetterLost` | `IngressProcessor.process` |
| `SweepStart` ... `SweepLost` | `IngressReconcilerService` |
| `RedriveStart` ... `RedriveLost` | `RedriveService` |
| `SetEnabled`, `Age`, `Crash` | the operator, time, the process |

Run `Ingress`: two deliveries of one conversation, one of which the plugin may
fail on, queue on or off, two runs per job, two replays, two workers, and either
two crashes or one fault (a crash, a refused statement, an unreachable Redis) and
one redrive (`CostOf` and `MaxFaults` say what may come together).  Two
deliveries are what the lock and the batches need; one fault at any step is
what the order of writes has to survive, and the second crash is what a job that
has stalled once has to.  Fairness: one `WF` on everything the
program does by itself; no step of it undoes another, so none needs its own.
A row ages only when its request has ended, because the grace period (60 s) is
longer than a dispatch may take (5 s).

Named losses (`forfeited`): a job's dead letter that the database refuses; an
open letter that a sweep closes although its add met only the failed job the
queue still keeps; and a job in hand at a crash for the second time.  BullMQ's
`maxStalledCount` is 1 (`webhook.processor.ts:24-31` says so for the sister
queue): the second stall fails the job without calling `process()`, and
`IngressProcessor` has no handler of `failed` that could leave a letter
(`Doomed`; the model fails the job at the crash, BullMQ when a worker meets it
next).  `raced` names what may be handled twice: a delivery whose answer got
lost, that a fault hit, or that a redrive and a sweep had at the same time.

`OneAtATime` is about dispatches the host awaits.  After a dispatch's time limit
(`plugin-worker-host.ts:212-216`) the job fails and the next of its key is
dispatched, although the first handler may still be running in the worker.

Left out: retention and pruning, eviction of kept jobs, stalls without a crash
(a lost lock), the checks before the row is written.

### Proofs

`IngressProofs.tla` proves the five invariants of the run from
`IngressAssumption`, for any deliveries and ordering keys, any budget of runs,
replays, redrives, letters and faults: `IngressTypeCorrect`, `OneJobPerLane`,
`NothingIsLost`, `EachHandledOnce`, `LettersStaySingle`.

* `TypeOK` is inductive with `RowHeld`: the redrive holds a row that is there
  and whose delivery it works on.
* `OneAtATime` follows from `Chains`: the chain of a key is exactly the jobs on
  it, once each, and only its first may be dispatched.
* `NothingLost` follows from `Kept`, which says at each await of each caller
  what stands for its delivery.  A caller that is about to record a success has
  a handled delivery, a living job or an open letter to show for it.  A redrive
  closes a letter because its own job was added; that job may meanwhile have
  failed and left a letter of its own, further down, so the invariant says of a
  letter whose job id is in use that something *later* stands for its delivery
  (`Beyond`).  `Onward` states what any step must leave of this, and is shown
  once per group of actions.

* `HandledOnce` and `OneOpenLetter` follow from `Turns`: outside `raced`, one
  request, sweep, redrive or job at most has its turn at a delivery.  `Single`:
  one living job, and while it has not reached the plugin nothing was handled.
  `Claims`: a caller about to dispatch finds the delivery unhandled and no job
  for it.  `RowOf`: a row that is pending with nobody at it has not been handled.
  `SweepOf` and `RedriveOf`: what either batch holds is as it was when the batch
  was read, and the two never hold the same delivery.  `LettersOf`: one letter
  is open, and while it is no job can leave another, but for the letter a
  redrive has dispatched and is about to close.

`Settles` stays with TLC.

## Plugins

`PluginHost.tla` is one sandboxed plugin: the loader's entry (`plugin`), the
registry's entry in memory and in the file (`noted`, `stored`), the directory
with its `.bak` and `.new` (`disk`), the worker threads (`worker`, `killed`), what they registered (`sandboxHost`,
`subscribed`, `shims`, `search`), the operation under way (`op`), and the calls
in both directions (`call`, `inFlight`, `cap`, `slots`).  Every worker has a
generation number, which is used again when nobody refers to it.

| Actions | Code |
|---|---|
| `Enable`, `Raised`, `Refused`, `EnableDone`, `EnableFailed` | `enablePlugin`, `enableSandboxed`: `load`, `onLoad`, `onEnable` with their limits |
| `Disable`, `Lowered`, `DisableDone` | `disablePlugin`, `teardownSandboxed` |
| `Install`, `Update`, `Swap`, `SwapLoads`, `SwapFails`, `RollBack`, `PutBack`, `Reload`, `Uninstall`, `Erase` | `PluginsService` and the installer |
| `SwapRefused`, `SwapStuck`, `EnableUndone`, `RollBackRefused`, `EraseRefused` | the same where the file system refuses an `rm` or a rename |
| `Save`, `SaveTwice`, `Entry` | the registry: a failed write is logged and forgotten |
| `Subscribe`, `ProvideSearch`, `Exit` | the worker's registrations and its end |
| `Hold`, `Dispatch`, `Settle`, `Ask`, `Done` | calls into the worker, capability calls of it |
| `Shutdown`, `Restart`, `Restore` | `onModuleDestroy`, `recoverInterruptedUpdates`, `onApplicationBootstrap` |

What an operation does between two awaits is a chain of steps in which only the
end of the process can intervene (`op.at \in Sync`): file operations are such
steps, because a restart between two of them matters.

Run `PluginHost`: three packages, one of which does not load, one hook and one
plain call, two capability calls for one slot, any number of restarts.  Bound
`Room`: calls under way, losses suffered and a registry write that has failed
count together against `MaxTraffic`; so each loss is met alone and with one other.
Fairness: time limits fire, `terminate()` ends a thread, a turn of the event loop
ends; `SF` for the steps of a call, since they are possible only between two turns.
The worker, capabilities, operator and file system owe nothing.  Deadlock is not
checked: a process whose plugin is installed and idle waits for its operator.

`InstallKept` is claimed outside three losses the code accepts, kept in `forfeit`
from the step they happen in:

* `backup`: the process ends while the directory holds an update that does not
  load and its rollback has not begun (or is deleting it); the recovery at boot
  removes the backup without looking whether the live directory loads.  The
  comment at `plugins.service.ts:410-417` promises a rollback.  The refused
  removal at `plugins.service.ts:522` may tear the backup the rollback then
  restores.
* `left`: the catch of the swap (487-489), the rollback (541-542) or the removal
  of a backup is itself refused: the plugin is out of the loader or the backup
  stays behind, until a start that recovers it.
* `registry`: `saveRegistry` swallows a failed write (`plugin-storage.service.ts:114`);
  after a restart the decision is that of the last write that succeeded.

Not covered: the guard against re-entrant hooks is lifted when a hook's time
limit fires, although the worker is still in it; a failure while the new tree is
staged, which leaves the running install alone; a backup found without a live
directory under a running process (472-478), which boot recovery has already
settled whenever the plugin is loaded.

### Proofs

`PluginHostProofs.tla` proves the four invariants of the run from
`PluginAssumption`, for any packages, any finite sets of calls and capability
calls, and any limit: `PluginTypeCorrect`, `Served`, `CallsCounted`,
`InstallIsKept`.  None of the three properties is inductive: they speak of the
moments between two turns, or at rest, and an operation breaks them in between.
The invariant says instead what each point of an operation finds:

* `Engine`, of the worker and its registrations: for instance at `failing` the
  host is out of the way already, the thread has been told to end, and hooks
  may still be those of this one thread, which is why they go away only after
  its end.
* `Package` and `Wanted`, of the directory, the registry entry and the
  decision: where the old package is at each step of an update and of its
  rollback, and what each loss has taken from that (`Backed`, `Tidy`, `Kept`).
* `Counted`, of the calls: the counters of a host are the calls that name it.

That a new worker's number is in nobody's hands (`FreshIs`) is a counting
argument: there are two numbers more than calls.  `OperationsEnd` stays with TLC.

## Webhooks

`WebhookDelivery.tla` follows each delivery (an event for one webhook) from
`dispatch` to its end.

| Variable | Code |
|---|---|
| `closed`, `active`, `waiters` | `ConcurrencyLimiter` |
| `stage`, `attempt` | the await of `dispatchWithLimit` and `deliverOne` the delivery is at; the direct path's attempt |
| `job` | its BullMQ job: place, attempts, stalls |
| `rows` | `webhook_delivery_failures` |
| `service`, `queueOn` | the process and its drain; `queue.enabled` |
| `answers`, `doubled`, `unrecorded`, `logged`, `dropped` | history |

| Actions | Code |
|---|---|
| `Dispatch`, `LookupFails`, `FanOut` | `dispatch` and the limiter's `run` for every match |
| `PreflightCancels`, `PreflightFails`, `PreflightPasses`, `AddLands`, `AddRejected`, `PostAnswered`, `PostRefused`, `PostAgain`, `Record`, `Finish`, `RecordRefused` | `deliverOne`, `enqueueWithFallback`, `deliverWebhook`, `recordUndelivered` |
| `WorkerTakes`, `JobAnswered`, `JobBooked`, `JobRefused`, `JobRecord`, `JobFails`, `Stalled`, `DoomedFails`, `OnWorkerFailed` | `WebhookProcessor` and what BullMQ does with a job |
| `Shutdown`, `DrainEnds`, `Exit`, `Crash`, `Restart` | `onModuleDestroy` and the process |

Run `WebhookDelivery`: an event for two webhooks and one for a third, one slot,
one place to wait, two attempts, one worker, any number of crashes; only two of
the deliveries meet failing hooks, receivers, queues or statements, and with a
queue only the first event is dispatched (`Troubled`, `QueuedEvents`), which
halves the space and leaves every case.  Fairness: one `WF` on what the service
goes on doing; each such step takes a delivery further.  `Settles` assumes that
the process stops dying at some time.  Deadlock is not checked: everything may
be over.

Named losses, in `NothingVanishes`: a lookup or a record the database refuses;
a crash before the job exists, or while the failure of a stalled job is being
recorded; at the end of a drain, lookups and the records of rejected deliveries
that are not through (the records of deliveries shed by a full limiter are not
in `pendingBookkeeping`, so the drain does not wait for them); with a queue,
what was still parked (the limiter is closed only without one).
`RecordsAreTrue` exempts adds that landed although they were rejected, and jobs
that lost their worker: both may post again.

### Proofs

`WebhookDeliveryProofs.tla` proves the four invariants of the run from
`WebhookAssumption`, for any finite set of deliveries and any fan-out, limiter
size, retry budget and faults: `TypeCorrect`, `LimiterCorrect`,
`DeliveriesTraced`, `RecordsCorrect`.  The inductive invariant is
`TypeOK /\ Limiter /\ Each`.  `Limiter` adds to the counting that the parked
deliveries stand in the queue once each and that a closed limiter has an empty
queue; `Each` says per delivery what it must have left behind at every place of
its two lives, the dispatch and the job (`Traced`), and how many rows and
answers it can have there (`Counted`), which needs the arithmetic of the
retries (`Budget`).  The step that takes work is `FanOut`, which starts, parks
and sheds any number of deliveries at once: its counting goes through a
bijection between the places of the order and the deliveries.

## What is proved and what is only checked

Theorems hold for every value of the constants; the runs check the same
definitions on small instances, and each passing property is also shown to fail
when the code it depends on is changed in one plausible way (`mutants`).
Every invariant and every action property of the passing runs has a theorem.
Three of them carry an assumption on which operations occur and one on the speed
of a write; the section on sessions says why.

Out of the prover's reach, and so with TLC alone: all liveness properties, and
what a recursive definition computes (none of these models has one).

## Not modelled

* Billing.  Its handlers read an entity, call a provider and save the whole
  entity, or look for a row and insert it, with nothing between the two that
  would keep another callback out; what may arrive, and in which order, is up
  to providers whose rules are not in this repository.  The listed hazard - a
  quota add-on applied once per delivery of its checkout event - is visible in
  the code without a model.
* The monthly reset of plan usage, a read-modify-save race with reservations;
  within a period the counting is part of the bulk and the message models.
* The session cap across several sessions.
* Campaigns, shops, commerce automation, authentication, gateway, search, MCP,
  infrastructure, dashboard: HTTP clients, single guarded statements, views and
  user interface.  Most of the repository's lines are of this kind.

## Plan

1. `PlanUsage`: reserve, release and the period reset, with the add-ons.
2. Several sessions for the session cap.
