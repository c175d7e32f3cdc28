-------------------------- MODULE SessionLifecycle --------------------------
(***************************************************************************)
(* The session lifecycle core of the backend: SessionEngineControls        *)
(* (start, stop, logout, forceKill, delete, stopOrphanEngines for a data   *)
(* import),                                                                *)
(* SessionEngineLifecycle (initializeEngine, the ready and disconnect      *)
(* handlers, the reconnect timer), the SessionLifecycleFences they share   *)
(* and the EngineRegistry.                                                 *)
(*                                                                         *)
(* Node runs one callback at a time, so the code between two awaits is one *)
(* action.  A call that is suspended at an await is a record in task; its  *)
(* pc names the await, and it keeps what the call holds in local variables *)
(* across it: the captured engine and the captured credential fence.       *)
(***************************************************************************)
EXTENDS Integers, FiniteSets

CONSTANTS
  Sessions,       (* session rows; create() draws a fresh key for each, which *)
                  (* also names its auth directory *)
  Engines,        (* engine instances; an instance is never reused *)
  NoEngine,
  Slots,          (* bound: calls suspended at an await at the same time *)
  Ops,            (* the operations a run lets callers and engines issue *)
  MaxAttempts,    (* resolveReconnectConfig(session.config).maxAttempts *)
  MaxConcurrent   (* MAX_CONCURRENT_SESSIONS *)

ASSUME SessionAssumption ==
  /\ Sessions # {}
  /\ NoEngine \notin Engines
  /\ MaxAttempts \in Nat
  /\ MaxConcurrent \in Nat \ {0}

VARIABLES
  row,            (* the sessions table: absent, present or deleted *)
  status,         (* Session.status as persisted *)
  late,           (* status writes issued without await, not settled yet *)
  authDir,        (* the engine whose credentials the auth directory holds *)
  engines,        (* EngineRegistry.engines *)
  initializing,   (* EngineRegistry.initializing *)
  stopping,       (* stoppingSessions *)
  reconnect,      (* reconnectStates: presence, armed timer, attempts *)
  pendingInitial, (* pendingInitialStatuses *)
  logouts,        (* engines whose logout() still has its rm ahead of it *)
  pendingTeardowns, (* those of them the fences know of *)
  rejected,       (* calls whose awaited INITIALIZING write was rejected *)
  phase,          (* life of an engine instance *)
  owner,          (* the session an engine's callbacks close over *)
  task            (* suspended calls *)

vars == <<row, status, late, authDir, engines, initializing, stopping,
          reconnect, pendingInitial, logouts, pendingTeardowns, rejected, phase, owner,
          task>>

db     == <<row, status, late>>
memory == <<engines, initializing, stopping, reconnect, pendingInitial>>
promises == <<logouts, pendingTeardowns, rejected>>
world  == <<authDir, promises, phase, owner>>

Statuses == {"DISCONNECTED", "INITIALIZING", "READY", "FAILED",
             "ACTION_REQUIRED"}
EngineOrNone == Engines \cup {NoEngine}
Free == {e \in Engines : phase[e] = "free"}

-----------------------------------------------------------------------------
(* Tasks *)

Requests == {"start", "stop", "logout", "kill", "delete", "import"}
Handlers == {"reconnect", "drop", "ready"}

IdleTask == [op |-> "idle", sid |-> CHOOSE s \in Sessions : TRUE,
             pc |-> "idle", eng |-> NoEngine, wait |-> {}]

Labels == {"idle", "row", "fence", "hook", "initialStatus", "initialize",
           "rowCheck", "resurrected", "purgeCheck", "repurge", "reaped",
           "writeFailed", "awaitInitial", "teardown", "final", "fence2",
           "purge", "replace", "lookup"}

TaskType == [op : Requests \cup Handlers \cup {"idle"}, sid : Sessions,
             pc : Labels, eng : EngineOrNone, wait : SUBSET Engines]

At(t, pc) == task[t].pc = pc
Idle(t)   == At(t, "idle")

(* Spawn and resume a call; Return ends it. *)
Call(t, op, s, pc, e, w) ==
  task' = [task EXCEPT ![t] =
             [op |-> op, sid |-> s, pc |-> pc, eng |-> e, wait |-> w]]
Goto(t, pc) == task' = [task EXCEPT ![t].pc = pc]
Return(t)   == task' = [task EXCEPT ![t] = IdleTask]

(* Mutant: the reservation is not given back. *)
ReturnReserved(t) == Return(t) /\ UNCHANGED initializing

(* start() returns through its finally block, which drops the reservation. *)
ReturnFrom(t) ==
  /\ Return(t)
  /\ initializing' = IF task[t].op = "start"
                     THEN initializing \ {task[t].sid} ELSE initializing

(* Engines are numbered only to bound a run: a call that will create one   *)
(* is admitted while an instance is left for it.                           *)
Creators == {t \in Slots : /\ task[t].op \in {"start", "reconnect"}
                           /\ task[t].pc \in {"row", "fence", "hook", "teardown"}}
CanCreate == Cardinality(Creators) < Cardinality(Free)

-----------------------------------------------------------------------------
(* Shared pieces *)

Registered(s) == engines[s] # NoEngine
IsLive(s, e)  == e # NoEngine /\ engines[s] = e

(* Mutant: the registry is not reconciled. *)
LeaveRegistered(s, e) == UNCHANGED engines

(* Mutant: whichever engine the id maps to by now is dropped. *)
DeleteAnyway(s, e) == engines' = [engines EXCEPT ![s] = NoEngine]

DeleteIfLive(s, e) ==
  engines' = IF IsLive(s, e) THEN [engines EXCEPT ![s] = NoEngine] ELSE engines
ActiveIds == {s \in Sessions : Registered(s)} \cup initializing

ReconnectType == [on : BOOLEAN, timer : BOOLEAN, attempts : 0..MaxAttempts]
NoReconnect  == [on |-> FALSE, timer |-> FALSE, attempts |-> 0]
NewReconnect == [on |-> TRUE, timer |-> FALSE, attempts |-> 0]
CancelReconnect(s) == reconnect' = [reconnect EXCEPT ![s] = NoReconnect]

(* An UPDATE of a row that is gone changes nothing. *)
UpdateStatus(s, st) ==
  status' = IF row[s] = "present" THEN [status EXCEPT ![s] = st] ELSE status
Write(s, st) == [sid |-> s, st |-> st]

(* teardownEngineSafely: the call latches the engine shut at once; what it *)
(* started may outlive the 10s the caller waits for it.                    *)
TearDown(e) == phase' = [phase EXCEPT ![e] = "closing"]

(* logout() on an engine with a live socket ends in an rm of the auth      *)
(* directory; without one it throws before anything is sent.               *)
BeginLogout(e, tracked) ==
  LET begun == IF phase[e] = "running" THEN {e} ELSE {}
  IN  /\ logouts' = logouts \cup begun
      /\ pendingTeardowns' = pendingTeardowns \cup (IF tracked THEN begun ELSE {})
      /\ UNCHANGED rejected

(* evictAndForceDestroy of whatever the registry holds for s. *)
Evict(s) ==
  IF Registered(s)
  THEN /\ TearDown(engines[s])
       /\ engines' = [engines EXCEPT ![s] = NoEngine]
  ELSE UNCHANGED <<phase, engines>>

(* awaitPendingTeardown waits on the entry it found when it was called. *)
Fence(s) == {e \in pendingTeardowns : owner[e] = s}

(* Mutant: the fence is open. *)
FenceOpen(t) == TRUE

FenceSettled(t) == task[t].wait \cap Fence(task[t].sid) = {}

(* decideReconnect: exhausted, or the next attempt.  The stability window  *)
(* is a matter of elapsed time, so a reset is a choice.                    *)
BudgetOverrun(a) == a > MaxAttempts   (* Mutant: one attempt too many. *)
BudgetSpent(a)   == a >= MaxAttempts
Attempts(s) == {reconnect[s].attempts, 0}

(* issued: status writes made just before; reap: the caller evicts anyway. *)
ScheduleReconnect(s, issued, reap) ==
  LET schedule(a) == reconnect[s].on /\ ~BudgetSpent(a)
      exhausted(a) == reconnect[s].on /\ BudgetSpent(a)
  IN  \E a \in Attempts(s) :
        /\ reconnect' = IF schedule(a)
                        THEN [reconnect EXCEPT ![s].timer = TRUE,
                                               ![s].attempts = a + 1]
                        ELSE reconnect
        /\ late' = late \cup issued
                        \cup (IF exhausted(a) THEN {Write(s, "FAILED")} ELSE {})
        /\ IF exhausted(a) \/ reap THEN Evict(s) ELSE UNCHANGED <<phase, engines>>

-----------------------------------------------------------------------------
(* initializeEngine, entered by start() and by executeReconnect *)

(* Register a new instance and issue the INITIALIZING write. *)
InitializeEngine(t, s) ==
  \E e \in Free :
    /\ engines' = [engines EXCEPT ![s] = e]
    /\ phase' = [phase EXCEPT ![e] = "created"]
    /\ owner' = [owner EXCEPT ![e] = s]
    /\ pendingInitial' = [pendingInitial EXCEPT ![s] = e]
    /\ Call(t, task[t].op, s, "initialStatus", e, {})

(* isSessionRetired once initializeEngine has returned: a stop mark retires *)
(* the session at once, otherwise the row is read.  A retired session gives *)
(* up the engine it holds now, then its auth directory.                     *)
Retire(t, s) ==
  IF Registered(s)
  THEN /\ TearDown(engines[s])
       /\ Call(t, task[t].op, s, "resurrected", engines[s], {})
  ELSE Goto(t, "purgeCheck") /\ UNCHANGED phase

(* Mutant: only the row is checked again. *)
EngineReturnedUnchecked(t, s) == Goto(t, "rowCheck") /\ UNCHANGED phase

EngineReturned(t, s) ==
  IF s \in stopping THEN Retire(t, s) ELSE Goto(t, "rowCheck") /\ UNCHANGED phase

(* Ownership and the stop mark are checked again after the write, before   *)
(* the adapter may initialize and write its auth directory.                *)
MayInitialize(s, e) == IsLive(s, e) /\ s \notin stopping

(* Only this engine's entry: a replacement may have its own by now. *)
ForgetPending(t) ==
  pendingInitial' = [pendingInitial EXCEPT
                       ![task[t].sid] = IF @ = task[t].eng THEN NoEngine ELSE @]

InitialStatusWritten(t) ==
  LET s == task[t].sid
      e == task[t].eng
  IN  /\ At(t, "initialStatus")
      /\ UpdateStatus(s, "INITIALIZING")
      /\ ForgetPending(t)
      /\ IF MayInitialize(s, e)
         THEN /\ phase' = [phase EXCEPT ![e] = "running"]
              /\ authDir' = [authDir EXCEPT ![s] = e]
              /\ Goto(t, "initialize")
         ELSE EngineReturned(t, s) /\ UNCHANGED authDir
      /\ UNCHANGED <<row, late, engines, initializing, stopping, reconnect,
                     promises, owner>>

(* engine.initialize() resolves. *)
EngineInitialized(t) ==
  /\ At(t, "initialize")
  /\ EngineReturned(t, task[t].sid)
  /\ UNCHANGED <<db, memory, authDir, promises, owner>>

(* The init deadline passes: the id is dropped from the registry, the      *)
(* instance is force-destroyed, the row is written DISCONNECTED.           *)
EngineInitTimeout(t) ==
  /\ At(t, "initialize")
  /\ engines' = [engines EXCEPT ![task[t].sid] = NoEngine]
  /\ TearDown(task[t].eng)
  /\ Goto(t, "reaped")
  /\ UNCHANGED <<db, initializing, stopping, reconnect, pendingInitial,
                 authDir, promises, owner>>

CheckRow(t) ==
  LET s == task[t].sid
  IN  /\ At(t, "rowCheck")
      /\ IF row[s] = "present"
         THEN ReturnFrom(t) /\ UNCHANGED phase
         ELSE Retire(t, s) /\ UNCHANGED initializing
      /\ UNCHANGED <<db, engines, stopping, reconnect, pendingInitial, authDir,
                     promises, owner>>

(* purgeAuthDirsIfDeleted: never while the row owns the directory.  (Its   *)
(* second read, by name, finds nothing: names are never drawn twice.)      *)
PurgeCheck(t) ==
  /\ At(t, "purgeCheck")
  /\ IF row[task[t].sid] = "present"
     THEN ReturnFrom(t)
     ELSE Goto(t, "repurge") /\ UNCHANGED initializing
  /\ UNCHANGED <<db, engines, stopping, reconnect, pendingInitial, world>>

Repurge(t) ==
  /\ At(t, "repurge")
  /\ authDir' = [authDir EXCEPT ![task[t].sid] = NoEngine]
  /\ ReturnFrom(t)
  /\ UNCHANGED <<db, engines, stopping, reconnect, pendingInitial,
                 promises, phase, owner>>

-----------------------------------------------------------------------------
(* start() *)

(* The reservation is taken before the first await. *)
ReservableByEngine(s) == ~Registered(s)   (* Mutant: only engines count. *)
Reservable(s) == s \notin initializing

Start(t, s) ==
  /\ Idle(t)
  /\ Reservable(s)
  /\ CanCreate
  /\ initializing' = initializing \cup {s}
  /\ Call(t, "start", s, "row", NoEngine, {})
  /\ UNCHANGED <<db, engines, stopping, reconnect, pendingInitial, world>>

StartChecks(t) ==
  LET s == task[t].sid
  IN  /\ At(t, "row") /\ task[t].op = "start"
      /\ IF \/ row[s] # "present"
            \/ Registered(s)
            \/ Cardinality(ActiveIds \ {s}) >= MaxConcurrent
         THEN ReturnFrom(t)
         ELSE /\ Call(t, "start", s, "fence", NoEngine, Fence(s))
              /\ UNCHANGED initializing
      /\ UNCHANGED <<db, engines, stopping, reconnect, pendingInitial, world>>

(* Past the fence the start is accepted: the mark and any reconnect go. *)
StartAccepted(t) ==
  LET s == task[t].sid
  IN  /\ At(t, "fence") /\ task[t].op = "start"
      /\ FenceSettled(t)
      /\ stopping' = stopping \ {s}
      /\ CancelReconnect(s)
      /\ Goto(t, "hook")
      /\ UNCHANGED <<db, engines, initializing, pendingInitial, world>>

(* The session:starting hook has run. *)
StartHookDone(t) ==
  LET s == task[t].sid
  IN  /\ At(t, "hook") /\ task[t].op = "start"
      /\ reconnect' = [reconnect EXCEPT ![s] = NewReconnect]
      /\ InitializeEngine(t, s)
      /\ UNCHANGED <<db, initializing, stopping, authDir, promises>>

(* The controls that captured the engine of t and the promise of its write. *)
AwaitingWrite(t) ==
  {u \in Slots : /\ At(u, "awaitInitial")
                 /\ task[u].eng = task[t].eng
                 /\ task[u].wait # {}}

(* initializeEngine throws: the INITIALIZING write or engine.initialize()   *)
(* rejected, or the row of a timed-out one is written.                      *)
InitFailed(t) ==
  \/ /\ At(t, "initialStatus")
     /\ ForgetPending(t)
     /\ rejected' = rejected \cup AwaitingWrite(t)
     /\ UNCHANGED status
  \/ At(t, "initialize") /\ UNCHANGED <<status, pendingInitial, rejected>>
  \/ /\ At(t, "reaped")
     /\ UpdateStatus(task[t].sid, "DISCONNECTED")
     /\ UNCHANGED <<pendingInitial, rejected>>

(* The catch of start() evicts what is registered, reaps it, then writes    *)
(* FAILED.                                                                  *)

StartFailed(t) ==
  /\ task[t].op = "start"
  /\ InitFailed(t)
  /\ IF Registered(task[t].sid)
     THEN Goto(t, "writeFailed") /\ UNCHANGED initializing
     ELSE ReturnFrom(t)
  /\ Evict(task[t].sid)
  /\ UNCHANGED <<row, late, stopping, reconnect, authDir, logouts,
                 pendingTeardowns, owner>>

StartFailedWritten(t) ==
  /\ At(t, "writeFailed")
  /\ UpdateStatus(task[t].sid, "FAILED")
  /\ ReturnFrom(t)
  /\ UNCHANGED <<row, late, engines, stopping, reconnect, pendingInitial, world>>

-----------------------------------------------------------------------------
(* The retiring controls: stop(), logout(), forceKill(), delete() and      *)
(* stopOrphanEngines().  All set the stop mark and cancel the reconnect    *)
(* before their first await.                                               *)

(* What a control does once its mark is set: capture the engine and the    *)
(* promise of its INITIALIZING write, or go on without one.                *)
PendingWrite(s) == IF pendingInitial[s] = engines[s] THEN {engines[s]} ELSE {}

Retiring(t, op, s, without) ==
  /\ stopping' = stopping \cup {s}
  /\ CancelReconnect(s)
  /\ IF Registered(s)
     THEN Call(t, op, s, "awaitInitial", engines[s], PendingWrite(s))
     ELSE without
  /\ UNCHANGED <<db, engines, initializing, pendingInitial>>

Stop(t, s) ==
  /\ Idle(t)
  /\ row[s] = "present"
  /\ Retiring(t, "stop", s, Call(t, "stop", s, "final", NoEngine, {}))
  /\ UNCHANGED world

Logout(t, s) ==
  /\ Idle(t)
  /\ row[s] = "present"
  /\ Registered(s)
  /\ Retiring(t, "logout", s, FALSE)
  /\ UNCHANGED world

ForceKill(t, s) ==
  /\ Idle(t)
  /\ row[s] = "present"
  /\ Registered(s)
  /\ Retiring(t, "kill", s, FALSE)
  /\ UNCHANGED world

(* importData of a backup without s: an active s goes through              *)
(* stopOrphanEngines, which needs no row and does not wait for the         *)
(* INITIALIZING write; then the transaction replaces the rows.             *)
StopOrphanEngines(t, s) ==
  /\ s \in ActiveIds
  /\ stopping' = stopping \cup {s}
  /\ CancelReconnect(s)
  /\ IF Registered(s)
     THEN /\ TearDown(engines[s])
          /\ Call(t, "import", s, "teardown", engines[s], {})
     ELSE Call(t, "import", s, "replace", NoEngine, {}) /\ UNCHANGED phase

ImportData(t, s) ==
  /\ Idle(t)
  /\ \/ StopOrphanEngines(t, s)
     \/ /\ s \notin ActiveIds /\ row[s] = "present"
        /\ Call(t, "import", s, "replace", NoEngine, {})
        /\ UNCHANGED <<stopping, reconnect, phase>>
  /\ UNCHANGED <<db, engines, initializing, pendingInitial, authDir,
                 promises, owner>>

(* The transaction commits, or a row that fails to import rolls it back. *)
ImportEnds(t) ==
  /\ At(t, "replace")
  /\ row' \in {row, [row EXCEPT ![task[t].sid] =
                           IF @ = "present" THEN "deleted" ELSE @]}
  /\ Return(t)
  /\ UNCHANGED <<status, late, memory, world>>

Delete(t, s) ==
  /\ Idle(t)
  /\ row[s] = "present"
  /\ Call(t, "delete", s, "fence", NoEngine, Fence(s))
  /\ UNCHANGED <<db, memory, world>>

(* Fence #1 passed. *)
DeleteAccepted(t) ==
  LET s == task[t].sid
  IN  /\ At(t, "fence") /\ task[t].op = "delete"
      /\ FenceSettled(t)
      /\ Retiring(t, "delete", s, Call(t, "delete", s, "fence2", NoEngine, Fence(s)))
      /\ UNCHANGED world

(* awaitInitialStatus waits for the one promise it captured, for 10s: with *)
(* "slow" in Ops the write may take longer than that.                      *)
InitialStatusIgnored(t) == TRUE   (* Mutant: no wait. *)
InitialStatusSettled(t) ==
  \/ \A u \in Slots : At(u, "initialStatus") => task[u].eng \notin task[t].wait
  \/ "slow" \in Ops

(* awaitInitialStatus returned; the teardown of the captured engine starts. *)
BeginTeardown(t) ==
  LET s == task[t].sid
      e == task[t].eng
  IN  /\ At(t, "awaitInitial")
      /\ t \notin rejected
      /\ InitialStatusSettled(t)
      /\ TearDown(e)
      /\ IF task[t].op = "logout" THEN BeginLogout(e, TRUE) ELSE UNCHANGED promises
      /\ Call(t, task[t].op, s, "teardown", e, {})
      /\ UNCHANGED <<db, memory, authDir, owner>>

(* awaitInitialStatus throws: the call ends before its teardown, which the *)
(* catch of the start does; only delete() drops its mark.                  *)
ControlRejected(t) ==
  LET s == task[t].sid
  IN  /\ At(t, "awaitInitial")
      /\ t \in rejected
      /\ rejected' = rejected \ {t}
      /\ stopping' = IF task[t].op = "delete" THEN stopping \ {s} ELSE stopping
      /\ Return(t)
      /\ UNCHANGED <<db, engines, initializing, reconnect, pendingInitial,
                     authDir, logouts, pendingTeardowns, phase, owner>>

(* The teardown settled or its 10s ran out; each caller goes its own way. *)
TeardownDone(t) ==
  LET s  == task[t].sid
      op == task[t].op
  IN  /\ At(t, "teardown")
      /\ DeleteIfLive(s, task[t].eng)
      /\ \/ op \in {"stop", "logout", "kill", "ready"} /\ Goto(t, "final")
         \/ op = "delete" /\ Call(t, op, s, "fence2", task[t].eng, Fence(s))
         \/ op = "import" /\ Goto(t, "replace")
         \/ op = "reconnect" /\ Call(t, op, s, "fence", NoEngine, Fence(s))
      /\ UNCHANGED <<db, initializing, stopping, reconnect, pendingInitial, world>>

ResurrectedDown(t) ==
  /\ At(t, "resurrected")
  /\ DeleteIfLive(task[t].sid, task[t].eng)
  /\ Goto(t, "purgeCheck")
  /\ UNCHANGED <<db, initializing, stopping, reconnect, pendingInitial, world>>

(* The last status write; delete() ends a 409 here and drops its mark. *)
FinalStatusWritten(t) ==
  LET s == task[t].sid
  IN  /\ At(t, "final")
      /\ UpdateStatus(s, IF task[t].op = "ready" THEN "ACTION_REQUIRED"
                                                  ELSE "DISCONNECTED")
      /\ stopping' = IF task[t].op = "delete" THEN stopping \ {s} ELSE stopping
      /\ Return(t)
      /\ UNCHANGED <<row, late, engines, initializing, reconnect,
                     pendingInitial, world>>

(* Fence #2 passed: the session:deleted hook runs. *)
DeleteFenced(t) ==
  /\ At(t, "fence2")
  /\ FenceSettled(t)
  /\ Goto(t, "hook")
  /\ UNCHANGED <<db, memory, world>>

(* The transaction removes the children and the row; the purge follows. *)
DeleteCommits(t) ==
  /\ At(t, "hook") /\ task[t].op = "delete"
  /\ row' = [row EXCEPT ![task[t].sid] = "deleted"]
  /\ Goto(t, "purge")
  /\ UNCHANGED <<status, late, memory, world>>

(* The hook or the transaction fails: the row stays, the mark goes. *)
DeleteFails(t) ==
  /\ At(t, "hook") /\ task[t].op = "delete"
  /\ stopping' = stopping \ {task[t].sid}
  /\ Return(t)
  /\ UNCHANGED <<db, engines, initializing, reconnect, pendingInitial, world>>

DeletePurges(t) ==
  LET s == task[t].sid
  IN  /\ At(t, "purge")
      /\ authDir' = [authDir EXCEPT ![s] = NoEngine]
      /\ stopping' = stopping \ {s}
      /\ Return(t)
      /\ UNCHANGED <<db, engines, initializing, reconnect, pendingInitial,
                     promises, phase, owner>>

(* The fence gives up after 10s: start() and fence #1 refuse with nothing  *)
(* done, fence #2 first corrects the status of the engine it destroyed.    *)
FenceTimeout(t) ==
  LET s == task[t].sid
      lone == At(t, "fence2") /\ task[t].eng = NoEngine
  IN  /\ \/ At(t, "fence") /\ task[t].op \in {"start", "delete"}
         \/ At(t, "fence2")
      /\ ~FenceSettled(t)
      /\ stopping' = IF lone THEN stopping \ {s} ELSE stopping
      /\ IF At(t, "fence2") /\ ~lone
         THEN Goto(t, "final") /\ UNCHANGED initializing
         ELSE ReturnFrom(t)
      /\ UNCHANGED <<db, engines, reconnect, pendingInitial, world>>

-----------------------------------------------------------------------------
(* The reconnect timer and executeReconnect *)

ReconnectTimer(t, s) ==
  /\ Idle(t)
  /\ reconnect[s].timer
  /\ CanCreate
  /\ reconnect' = [reconnect EXCEPT ![s].timer = FALSE]
  /\ IF s \in stopping THEN UNCHANGED <<task, phase>>
     ELSE IF Registered(s)
     THEN /\ TearDown(engines[s])
          /\ Call(t, "reconnect", s, "teardown", engines[s], {})
     ELSE /\ Call(t, "reconnect", s, "fence", NoEngine, Fence(s))
          /\ UNCHANGED phase
  /\ UNCHANGED <<db, engines, initializing, stopping, pendingInitial, authDir,
                 promises, owner>>

Reconnects(t) ==
  /\ At(t, "fence") /\ task[t].op = "reconnect"
  /\ FenceSettled(t)
  /\ InitializeEngine(t, task[t].sid)
  /\ UNCHANGED <<db, initializing, stopping, reconnect, authDir, promises>>

(* The catch, also of a fence that gave up: reap what is registered and    *)
(* schedule another attempt.                                               *)
ReconnectFailed(t) ==
  LET s == task[t].sid
  IN  /\ task[t].op = "reconnect"
      /\ \/ InitFailed(t)
         \/ /\ At(t, "fence") /\ ~FenceSettled(t)
            /\ UNCHANGED <<status, pendingInitial, rejected>>
      /\ ScheduleReconnect(s, {}, TRUE)
      /\ Return(t)
      /\ UNCHANGED <<row, initializing, stopping, authDir, logouts,
                     pendingTeardowns, owner>>

-----------------------------------------------------------------------------
(* Engine callbacks.  Each is gated on its instance being the live one. *)

(* WhatsApp ended the link (401): the adapter drops its socket and removes *)
(* the credentials, tracked by the fences, before it reports the drop.     *)
RemoteLoggedOut(e) ==
  /\ phase[e] = "running"
  /\ phase' = [phase EXCEPT ![e] = "unlinked"]
  /\ BeginLogout(e, TRUE)
  /\ UNCHANGED <<db, memory, authDir, owner, task>>

(* onDisconnected, or the watchdog's onDead: the row is read first. *)
Disconnected(t, e) ==
  LET s == owner[e]
  IN  /\ Idle(t)
      /\ phase[e] \in {"running", "unlinked"} /\ e \notin logouts
      /\ IsLive(s, e)
      /\ Call(t, "drop", s, "row", e, {})
      /\ UNCHANGED <<db, memory, world>>

HandleDisconnected(t) ==
  LET s == task[t].sid
  IN  /\ At(t, "row") /\ task[t].op = "drop"
      /\ IF row[s] = "present" /\ IsLive(s, task[t].eng)
         THEN ScheduleReconnect(s, {Write(s, "DISCONNECTED")}, FALSE)
         ELSE UNCHANGED <<reconnect, late, engines, phase>>
      /\ Return(t)
      /\ UNCHANGED <<row, status, initializing, stopping, pendingInitial,
                     authDir, promises, owner>>

(* onError is terminal: no reconnect, the engine is evicted at once. *)
EngineError(e) ==
  LET s == owner[e]
  IN  /\ phase[e] = "running"
      /\ IsLive(s, e)
      /\ CancelReconnect(s)
      /\ late' = late \cup {Write(s, "FAILED")}
      /\ Evict(s)
      /\ UNCHANGED <<row, status, initializing, stopping, pendingInitial,
                     authDir, promises, owner, task>>

(* onReady: the number is looked up among the other sessions first. *)
Ready(t, e) ==
  LET s == owner[e]
  IN  /\ Idle(t)
      /\ phase[e] = "running"
      /\ IsLive(s, e)
      /\ Call(t, "ready", s, "lookup", e, {})
      /\ UNCHANGED <<db, memory, world>>

FinalizeReady(t) ==
  LET s == task[t].sid
      e == task[t].eng
  IN  /\ At(t, "lookup")
      /\ IF IsLive(s, e)
         THEN /\ reconnect' = [reconnect EXCEPT ![s].attempts = 0]
              /\ late' = late \cup {Write(s, "READY")}
         ELSE UNCHANGED <<reconnect, late>>
      /\ Return(t)
      /\ UNCHANGED <<row, status, engines, initializing, stopping,
                     pendingInitial, world>>

(* The number belongs to another session: this link is logged out. *)
RejectDuplicate(t) ==
  LET s == task[t].sid
      e == task[t].eng
  IN  /\ At(t, "lookup")
      /\ stopping' = stopping \cup {s}
      /\ TearDown(e)
      /\ BeginLogout(e, FALSE)
      /\ Goto(t, "teardown")
      /\ UNCHANGED <<db, engines, initializing, reconnect, pendingInitial,
                     authDir, owner>>

-----------------------------------------------------------------------------
(* What settles on its own *)

(* A write issued without await settles. *)
LateWriteSettles(w) ==
  /\ w \in late
  /\ late' = late \ {w}
  /\ UpdateStatus(w.sid, w.st)
  /\ UNCHANGED <<row, memory, world, task>>

(* A raw logout ends: its rm of the auth directory lands, or it     *)
(* failed before it got there.                                             *)
LogoutSettles(e) ==
  /\ e \in logouts
  /\ logouts' = logouts \ {e}
  /\ pendingTeardowns' = pendingTeardowns \ {e}
  /\ authDir' \in {[authDir EXCEPT ![owner[e]] = NoEngine], authDir}
  /\ UNCHANGED <<db, memory, rejected, phase, owner, task>>

(* SessionService.create *)
Create(s) ==
  /\ row[s] = "absent"
  /\ row' = [row EXCEPT ![s] = "present"]
  /\ UNCHANGED <<status, late, memory, world, task>>

-----------------------------------------------------------------------------
Init ==
  /\ row = [s \in Sessions |-> "absent"]
  /\ status = [s \in Sessions |-> "DISCONNECTED"]
  /\ late = {}
  /\ authDir = [s \in Sessions |-> NoEngine]
  /\ engines = [s \in Sessions |-> NoEngine]
  /\ initializing = {}
  /\ stopping = {}
  /\ reconnect = [s \in Sessions |-> NoReconnect]
  /\ pendingInitial = [s \in Sessions |-> NoEngine]
  /\ logouts = {}
  /\ pendingTeardowns = {}
  /\ rejected = {}
  /\ phase = [e \in Engines |-> "free"]
  /\ owner = [e \in Engines |-> CHOOSE s \in Sessions : TRUE]
  /\ task = [t \in Slots |-> IdleTask]

Request(t, s) ==
  \/ "start"  \in Ops /\ Start(t, s)
  \/ "stop"   \in Ops /\ Stop(t, s)
  \/ "logout" \in Ops /\ Logout(t, s)
  \/ "kill"   \in Ops /\ ForceKill(t, s)
  \/ "delete" \in Ops /\ Delete(t, s)
  \/ "import" \in Ops /\ ImportData(t, s)

EngineEvent(t, e) ==
  \/ "drop"  \in Ops /\ Disconnected(t, e)
  \/ "ready" \in Ops /\ Ready(t, e)

(* A suspended call resumes. *)
Resume(t) ==
  \/ InitialStatusWritten(t) \/ EngineInitialized(t) \/ EngineInitTimeout(t)
  \/ CheckRow(t) \/ ResurrectedDown(t)
  \/ PurgeCheck(t) \/ Repurge(t)
  \/ StartChecks(t) \/ StartAccepted(t) \/ StartHookDone(t)
  \/ StartFailed(t) \/ StartFailedWritten(t)
  \/ BeginTeardown(t) \/ ControlRejected(t)
  \/ TeardownDone(t) \/ FinalStatusWritten(t)
  \/ DeleteAccepted(t) \/ DeleteFenced(t) \/ DeleteCommits(t) \/ DeleteFails(t)
  \/ DeletePurges(t)
  \/ ImportEnds(t)
  \/ FenceTimeout(t) \/ Reconnects(t) \/ ReconnectFailed(t)
  \/ HandleDisconnected(t) \/ FinalizeReady(t) \/ RejectDuplicate(t)

Next ==
  \/ \E t \in Slots, s \in Sessions : Request(t, s) \/ ReconnectTimer(t, s)
  \/ \E t \in Slots, e \in Engines : EngineEvent(t, e)
  \/ \E t \in Slots : Resume(t)
  \/ \E e \in Engines : \/ ("error" \in Ops /\ EngineError(e))
                       \/ ("unlink" \in Ops /\ RemoteLoggedOut(e))
  \/ \E w \in late : LateWriteSettles(w)
  \/ \E e \in logouts : LogoutSettles(e)
  \/ \E s \in Sessions : Create(s)

Spec == Init /\ [][Next]_vars

-----------------------------------------------------------------------------
(* What suspended calls finish: every await here is bounded by a deadline  *)
(* (10s teardown and fence races, the init deadline) or is one database    *)
(* operation or hook, so a call that can resume does.                      *)
Fairness == \A t \in Slots : WF_vars(Resume(t))

FairSpec == Spec /\ Fairness

-----------------------------------------------------------------------------
(* Properties *)

Phases == {"free", "created", "running", "unlinked", "closing"}

(* Every variable has its type; only tracked logouts are still running.    *)
TypeOK ==
  /\ row \in [Sessions -> {"absent", "present", "deleted"}]
  /\ status \in [Sessions -> Statuses]
  /\ late \subseteq [sid : Sessions, st : Statuses]
  /\ authDir \in [Sessions -> EngineOrNone]
  /\ engines \in [Sessions -> EngineOrNone]
  /\ initializing \subseteq Sessions
  /\ stopping \subseteq Sessions
  /\ reconnect \in [Sessions -> ReconnectType]
  /\ pendingInitial \in [Sessions -> EngineOrNone]
  /\ logouts \subseteq Engines
  /\ pendingTeardowns \subseteq logouts
  /\ rejected \subseteq Slots
  /\ phase \in [Engines -> Phases]
  /\ owner \in [Engines -> Sessions]
  /\ task \in [Slots -> TaskType]

Serving(e) == phase[e] \in {"running", "unlinked"}
Quiet(s) == /\ \A t \in Slots : Idle(t) \/ task[t].sid # s
            /\ ~reconnect[s].timer
            /\ \A w \in late : w.sid # s

(* The reservation start() takes before its first await admits one start   *)
(* per session, whatever else interleaves; a start and its reservation     *)
(* come and go together.                                                   *)
OneStart ==
  /\ \A t, u \in Slots :
        task[t].op = "start" /\ task[u].op = "start"
          /\ task[t].sid = task[u].sid => t = u
  /\ initializing = {task[t].sid : t \in {u \in Slots : task[u].op = "start"}}

(* No dead engine wedges a session: while the registry still holds an      *)
(* engine whose teardown began, a suspended call is there to remove it.    *)
(* (start() would answer "already started" for ever otherwise.)            *)
NoWedgedSlot ==
  \A s \in Sessions :
    Registered(s) /\ phase[engines[s]] = "closing"
      => \E t \in Slots : /\ task[t].pc \in {"teardown", "resurrected"}
                          /\ task[t].eng = engines[s]

(* Once nothing is in flight for a session, an engine it still holds is    *)
(* one that was initialized and not torn down.                             *)
QuietServes ==
  \A s \in Sessions : Quiet(s) /\ Registered(s) => Serving(engines[s])

(* A control that waits for the INITIALIZING write of the engine it        *)
(* captured tears it down, and writes its own final status, only after     *)
(* that write has settled.                                                 *)
RetiredWriteSettled ==
  \A t, u \in Slots :
    /\ task[t].op \in {"stop", "logout", "kill", "delete"}
    /\ task[t].pc \in {"teardown", "final", "fence2", "hook"}
    /\ task[t].eng # NoEngine
    /\ At(u, "initialStatus")
    => task[u].eng # task[t].eng

(* An engine that serves is the registered one: no socket outlives its     *)
(* place in the registry, where no control could reach it any more.        *)
ServingIsRegistered == \A e \in Engines : Serving(e) => engines[owner[e]] = e

(* Stop is final: once every call on a stopped session has returned, no    *)
(* engine is registered or serving for it.                                 *)
StopIsFinal ==
  \A s \in stopping : Quiet(s) =>
    ~Registered(s) /\ \A e \in Engines : owner[e] = s => ~Serving(e)

(* Only a logout removes the credentials of a session that still exists,   *)
(* and only the ones of the engine it logged out.                          *)
CredentialsSafe ==
  [][\A s \in Sessions : LET e == authDir[s]
     IN  e # NoEngine /\ authDir'[s] = NoEngine
           => row[s] # "present" \/ e \in logouts \ logouts']_vars

(* A start reservation is always given back. *)
ReservationReleased ==
  \A s \in Sessions : s \in initializing ~> s \notin initializing

(* An engine under teardown always leaves the registry. *)
SlotReleased ==
  \A e \in Engines : phase[e] = "closing" ~> engines[owner[e]] # e

-----------------------------------------------------------------------------
(* What comments of the code state and the interleavings refute *)

(* "an engine for it" must not outlive the row: a start that races a       *)
(* delete is torn down by the post-init guard.                             *)
DeletedLeavesNothing ==
  \A s \in Sessions : row[s] = "deleted" /\ Quiet(s) => ~Registered(s)
=============================================================================
