----------------------- MODULE SessionLifecycleProofs -----------------------
(***************************************************************************)
(* Safety of the session lifecycle for every number of sessions, engine    *)
(* instances and concurrent calls, and every set of operations.            *)
(***************************************************************************)
EXTENDS SessionLifecycle, TLAPS

-----------------------------------------------------------------------------
(* The parts of the inductive invariant *)

(* A call is where its operation can be, and has captured an engine where  *)
(* the code has a local variable for one.                                  *)
InPlace(k) ==
  /\ k.pc = "idle" <=> k.op = "idle"
  /\ k.pc \in {"initialStatus", "initialize", "rowCheck", "resurrected",
               "purgeCheck", "repurge", "reaped"} => k.op \in {"start", "reconnect"}
  /\ k.pc = "writeFailed" => k.op = "start"
  /\ k.pc = "row" => k.op \in {"start", "drop"}
  /\ k.pc = "fence" => k.op \in {"start", "delete", "reconnect"}
  /\ k.pc = "hook" => k.op \in {"start", "delete"}
  /\ k.pc = "awaitInitial" => k.op \in {"stop", "logout", "kill", "delete"}
  /\ k.pc = "teardown" => k.op \in {"stop", "logout", "kill", "delete", "ready",
                                   "import", "reconnect"}
  /\ k.pc = "final" => k.op \in {"stop", "logout", "kill", "delete", "ready"}
  /\ k.pc \in {"fence2", "purge"} => k.op = "delete"
  /\ k.pc = "replace" => k.op = "import"
  /\ k.pc = "lookup" => k.op = "ready"
  /\ k.pc \in {"initialStatus", "initialize", "reaped", "resurrected",
               "awaitInitial", "teardown", "lookup"} => k.eng # NoEngine

CallsInPlace == \A t \in Slots : InPlace(task[t])

(* A captured engine was created for the session of the call. *)
CapturedOwned ==
  \A t \in Slots :
    task[t].eng # NoEngine
      => owner[task[t].eng] = task[t].sid /\ phase[task[t].eng] # "free"

(* So was a registered one: the registry is injective. *)
RegisteredOwned ==
  \A s \in Sessions :
    Registered(s) => owner[engines[s]] = s /\ phase[engines[s]] # "free"

-----------------------------------------------------------------------------
(* Typing *)

TInv == TypeOK /\ CallsInPlace

LEMMA IdleTyped ==
  /\ IdleTask \in TaskType /\ InPlace(IdleTask)
  /\ IdleTask.op = "idle" /\ IdleTask.pc = "idle" /\ IdleTask.eng = NoEngine
  <1>1. (CHOOSE s \in Sessions : TRUE) \in Sessions BY SessionAssumption
  <1> QED BY <1>1
          DEF IdleTask, TaskType, InPlace, Requests, Handlers, EngineOrNone,
              Labels

LEMMA CallTyped ==
  ASSUME TInv, NEW t \in Slots, NEW op \in Requests \cup Handlers, NEW s \in Sessions,
         NEW pc \in Labels, NEW e \in EngineOrNone, NEW w \in SUBSET Engines,
         InPlace([op |-> op, sid |-> s, pc |-> pc, eng |-> e, wait |-> w]),
         Call(t, op, s, pc, e, w)
  PROVE  task' \in [Slots -> TaskType] /\ CallsInPlace'
  BY DEF TInv, TypeOK, CallsInPlace, Call, TaskType

LEMMA GotoTyped ==
  ASSUME TInv, NEW t \in Slots, NEW pc \in Labels,
         InPlace([task[t] EXCEPT !.pc = pc]), Goto(t, pc)
  PROVE  task' \in [Slots -> TaskType] /\ CallsInPlace'
  <1>1. [task[t] EXCEPT !.pc = pc] \in TaskType BY DEF TInv, TypeOK, TaskType
  <1> QED BY <1>1 DEF TInv, TypeOK, CallsInPlace, Goto

LEMMA ReturnTyped ==
  ASSUME TInv, NEW t \in Slots, Return(t)
  PROVE  task' \in [Slots -> TaskType] /\ CallsInPlace'
  BY IdleTyped DEF TInv, TypeOK, CallsInPlace, Return

LEMMA Fields ==
  ASSUME TInv, NEW t \in Slots
  PROVE  /\ task[t].op \in Requests \cup Handlers \cup {"idle"}
         /\ task[t].sid \in Sessions /\ task[t].pc \in Labels
         /\ task[t].eng \in EngineOrNone /\ task[t].wait \in SUBSET Engines
         /\ InPlace(task[t])
         /\ \A pc : /\ [task[t] EXCEPT !.pc = pc].pc = pc
                    /\ [task[t] EXCEPT !.pc = pc].op = task[t].op
                    /\ [task[t] EXCEPT !.pc = pc].eng = task[t].eng
  BY DEF TInv, TypeOK, CallsInPlace, TaskType

LEMMA FenceTyped ==
  ASSUME TInv, NEW s \in Sessions
  PROVE  /\ Fence(s) \in SUBSET Engines
         /\ engines[s] \in EngineOrNone
         /\ Registered(s) => engines[s] \in Engines
         /\ PendingWrite(s) \in SUBSET Engines \/ ~Registered(s)
  BY SessionAssumption
  DEF TInv, TypeOK, Fence, PendingWrite, Registered, EngineOrNone

LEMMA CancelTyped ==
  ASSUME TInv, NEW s \in Sessions, CancelReconnect(s)
  PROVE  reconnect' \in [Sessions -> ReconnectType]
  BY SessionAssumption
  DEF TInv, TypeOK, CancelReconnect, NoReconnect, ReconnectType

LEMMA TearDownTyped ==
  ASSUME TInv, NEW e, TearDown(e)
  PROVE  phase' \in [Engines -> Phases]
  BY DEF TInv, TypeOK, TearDown, Phases

LEMMA EvictTyped ==
  ASSUME TInv, NEW s \in Sessions, Evict(s)
  PROVE  phase' \in [Engines -> Phases] /\ engines' \in [Sessions -> EngineOrNone]
  BY TearDownTyped DEF TInv, TypeOK, Evict, EngineOrNone

LEMMA WriteTyped ==
  ASSUME TInv, NEW s \in Sessions, NEW st \in Statuses
  PROVE  /\ Write(s, st) \in [sid : Sessions, st : Statuses]
         /\ UpdateStatus(s, st) => status' \in [Sessions -> Statuses]
  BY DEF TInv, TypeOK, UpdateStatus, Write

LEMMA LogoutTyped ==
  ASSUME TInv, NEW e \in Engines, NEW b \in BOOLEAN, BeginLogout(e, b)
  PROVE  logouts' \subseteq Engines /\ pendingTeardowns' \subseteq logouts'
  BY DEF TInv, TypeOK, BeginLogout

LEMMA ScheduleTyped ==
  ASSUME TInv, NEW s \in Sessions, NEW reap \in BOOLEAN,
         NEW issued \in SUBSET [sid : Sessions, st : Statuses],
         ScheduleReconnect(s, issued, reap)
  PROVE  /\ reconnect' \in [Sessions -> ReconnectType]
         /\ late' \subseteq [sid : Sessions, st : Statuses]
         /\ phase' \in [Engines -> Phases]
         /\ engines' \in [Sessions -> EngineOrNone]
  <1>1. PICK a \in Attempts(s) :
          /\ reconnect' = IF reconnect[s].on /\ ~BudgetSpent(a)
                          THEN [reconnect EXCEPT ![s].timer = TRUE,
                                                 ![s].attempts = a + 1]
                          ELSE reconnect
          /\ late' = late \cup issued
                \cup (IF reconnect[s].on /\ BudgetSpent(a)
                      THEN {Write(s, "FAILED")} ELSE {})
          /\ Evict(s) \/ UNCHANGED <<phase, engines>>
    BY DEF ScheduleReconnect
  <1>2. a \in 0..MaxAttempts BY SessionAssumption DEF Attempts, TInv, TypeOK, ReconnectType
  <1>3. ~BudgetSpent(a) => a + 1 \in 0..MaxAttempts
    BY <1>2, SessionAssumption DEF BudgetSpent
  <1>4. reconnect' \in [Sessions -> ReconnectType]
    BY <1>1, <1>3 DEF TInv, TypeOK, ReconnectType
  <1>5. Write(s, "FAILED") \in [sid : Sessions, st : Statuses]
    BY WriteTyped DEF Statuses
  <1>6. late' \subseteq [sid : Sessions, st : Statuses] BY <1>1, <1>5 DEF TInv, TypeOK
  <1>7. phase' \in [Engines -> Phases] /\ engines' \in [Sessions -> EngineOrNone]
    BY <1>1, EvictTyped DEF TInv, TypeOK
  <1> QED BY <1>4, <1>6, <1>7

LEMMA OwnerTyped ==
  ASSUME TInv, NEW e \in Engines
  PROVE  owner[e] \in Sessions
  BY DEF TInv, TypeOK

LEMMA StatesTyped ==
  ASSUME TInv, NEW s \in Sessions
  PROVE  /\ [reconnect EXCEPT ![s] = NewReconnect]
                \in [Sessions -> ReconnectType]
         /\ [reconnect EXCEPT ![s].attempts = 0] \in [Sessions -> ReconnectType]
         /\ [reconnect EXCEPT ![s].timer = FALSE] \in [Sessions -> ReconnectType]
  <1>1. reconnect \in [Sessions -> ReconnectType] BY DEF TInv, TypeOK
  <1>2. NewReconnect \in ReconnectType
    BY SessionAssumption DEF ReconnectType, NewReconnect
  <1>3. [reconnect[s] EXCEPT !.attempts = 0] \in ReconnectType
    BY <1>1, SessionAssumption DEF ReconnectType
  <1>4. [reconnect[s] EXCEPT !.timer = FALSE] \in ReconnectType
    BY <1>1 DEF ReconnectType
  <1> QED BY <1>1, <1>2, <1>3, <1>4

LEMMA Typing == TInv /\ [Next]_vars => TInv'
  <1> SUFFICES ASSUME TInv, [Next]_vars PROVE TInv' OBVIOUS
  <1>0. TypeOK BY DEF TInv
  <1>1. ASSUME NEW t \in Slots, NEW s \in Sessions, Start(t, s) PROVE TInv'
    <2>1. task' \in [Slots -> TaskType] /\ CallsInPlace'
      BY <1>1, CallTyped, Fields, SessionAssumption
      DEF Start, Idle, At, InPlace, EngineOrNone, Labels, Requests, Handlers
    <2>2. TypeOK'
      BY <1>0, <1>1, <2>1, Fields, FenceTyped, SessionAssumption
      DEF Start, Idle, db, world, At, promises, TypeOK, EngineOrNone, Phases,
          Statuses
    <2> QED BY <2>1, <2>2 DEF TInv
  <1>2. ASSUME NEW t \in Slots, NEW s \in Sessions, Stop(t, s) PROVE TInv'
    <2>1. task' \in [Slots -> TaskType] /\ CallsInPlace'
      BY <1>2, CallTyped, Fields, FenceTyped, SessionAssumption
      DEF Stop, Idle, Retiring, At, InPlace, EngineOrNone, Labels, Requests,
          Handlers
    <2>2. TypeOK'
      BY <1>0, <1>2, <2>1, CancelTyped, Fields, FenceTyped, SessionAssumption
      DEF Stop, Idle, Retiring, world, At, Registered, db, promises, TypeOK,
          EngineOrNone, Phases, Statuses
    <2> QED BY <2>1, <2>2 DEF TInv
  <1>3. ASSUME NEW t \in Slots, NEW s \in Sessions, Logout(t, s) PROVE TInv'
    <2>1. task' \in [Slots -> TaskType] /\ CallsInPlace'
      BY <1>3, CallTyped, Fields, FenceTyped, SessionAssumption
      DEF Logout, Idle, Retiring, At, InPlace, EngineOrNone, Labels, Requests,
          Handlers
    <2>2. TypeOK'
      BY <1>0, <1>3, <2>1, CancelTyped, Fields, FenceTyped, SessionAssumption
      DEF Logout, Idle, Registered, Retiring, world, At, db, promises, TypeOK,
          EngineOrNone, Phases, Statuses
    <2> QED BY <2>1, <2>2 DEF TInv
  <1>4. ASSUME NEW t \in Slots, NEW s \in Sessions, ForceKill(t, s) PROVE TInv'
    <2>1. task' \in [Slots -> TaskType] /\ CallsInPlace'
      BY <1>4, CallTyped, Fields, FenceTyped, SessionAssumption
      DEF ForceKill, Idle, Retiring, At, InPlace, EngineOrNone, Labels,
          Requests, Handlers
    <2>2. TypeOK'
      BY <1>0, <1>4, <2>1, CancelTyped, Fields, FenceTyped, SessionAssumption
      DEF ForceKill, Idle, Registered, Retiring, world, At, db, promises, TypeOK,
          EngineOrNone, Phases, Statuses
    <2> QED BY <2>1, <2>2 DEF TInv
  <1>5. ASSUME NEW t \in Slots, NEW s \in Sessions, Delete(t, s) PROVE TInv'
    <2>1. task' \in [Slots -> TaskType] /\ CallsInPlace'
      BY <1>5, CallTyped, Fields, FenceTyped, SessionAssumption
      DEF Delete, Idle, At, InPlace, EngineOrNone, Labels, Requests, Handlers
    <2>2. TypeOK'
      BY <1>0, <1>5, <2>1, Fields, FenceTyped, SessionAssumption
      DEF Delete, Idle, db, memory, world, At, promises, TypeOK, EngineOrNone,
          Phases, Statuses
    <2> QED BY <2>1, <2>2 DEF TInv
  <1>6. ASSUME NEW t \in Slots, NEW s \in Sessions, ImportData(t, s) PROVE TInv'
    <2>1. task' \in [Slots -> TaskType] /\ CallsInPlace'
      BY <1>6, CallTyped, Fields, FenceTyped, SessionAssumption
      DEF ImportData, Idle, StopOrphanEngines, At, InPlace, EngineOrNone,
          Labels, Requests, Handlers
    <2>2. TypeOK'
      BY <1>0, <1>6, <2>1, CancelTyped, TearDownTyped, Fields, FenceTyped,
         SessionAssumption
      DEF ImportData, Idle, StopOrphanEngines, ActiveIds, db, promises, At,
          Registered, TypeOK, EngineOrNone, Phases, Statuses
    <2> QED BY <2>1, <2>2 DEF TInv
  <1>7. ASSUME NEW t \in Slots, NEW s \in Sessions, ReconnectTimer(t, s)
        PROVE  TInv'
    <2>1. task' \in [Slots -> TaskType] /\ CallsInPlace'
      <3>1. CASE s \in stopping
        BY <1>7, <3>1 DEF ReconnectTimer, TInv, TypeOK, CallsInPlace
      <3>2. CASE s \notin stopping /\ Registered(s)
        BY <1>7, <3>2, CallTyped, FenceTyped
        DEF ReconnectTimer, InPlace, EngineOrNone, Labels, Handlers, Registered
      <3>3. CASE s \notin stopping /\ ~Registered(s)
        BY <1>7, <3>3, CallTyped, FenceTyped
        DEF ReconnectTimer, InPlace, EngineOrNone, Labels, Handlers
      <3> QED BY <3>1, <3>2, <3>3
    <2>2. phase' \in [Engines -> Phases]
      BY <1>0, <1>7, TearDownTyped DEF ReconnectTimer, TypeOK
    <2>3. reconnect' \in [Sessions -> ReconnectType]
      BY <1>7, StatesTyped DEF ReconnectTimer
    <2>4. TypeOK'
      BY <1>0, <1>7, <2>1, <2>2, <2>3 DEF ReconnectTimer, db, promises, TypeOK
    <2> QED BY <2>1, <2>4 DEF TInv
  <1>8. ASSUME NEW t \in Slots, NEW e \in Engines, Disconnected(t, e)
        PROVE  TInv'
    <2>1. task' \in [Slots -> TaskType] /\ CallsInPlace'
      BY <1>8, CallTyped, OwnerTyped, SessionAssumption
      DEF Disconnected, InPlace, EngineOrNone, Labels, Handlers
    <2>2. TypeOK'
      BY <1>0, <1>8, <2>1 DEF Disconnected, db, memory, world, promises, TypeOK
    <2> QED BY <2>1, <2>2 DEF TInv
  <1>9. ASSUME NEW t \in Slots, NEW e \in Engines, Ready(t, e) PROVE TInv'
    <2>1. task' \in [Slots -> TaskType] /\ CallsInPlace'
      BY <1>9, CallTyped, OwnerTyped, SessionAssumption
      DEF Ready, InPlace, EngineOrNone, Labels, Handlers
    <2>2. TypeOK'
      BY <1>0, <1>9, <2>1 DEF Ready, db, memory, world, promises, TypeOK
    <2> QED BY <2>1, <2>2 DEF TInv
  <1>10. ASSUME NEW t \in Slots, InitialStatusWritten(t) PROVE TInv'
    <2>1. task' \in [Slots -> TaskType] /\ CallsInPlace'
      BY <1>10, GotoTyped, CallTyped, Fields, FenceTyped, SessionAssumption
      DEF InitialStatusWritten, At, ForgetPending, MayInitialize,
          EngineReturned, Retire, InPlace, EngineOrNone, Labels, Requests,
          Handlers
    <2>2. TypeOK'
      BY <1>0, <1>10, <2>1, WriteTyped, TearDownTyped, Fields, FenceTyped,
         SessionAssumption
      DEF InitialStatusWritten, At, ForgetPending, MayInitialize,
          EngineReturned, promises, IsLive, Retire, Registered, TypeOK, EngineOrNone,
          Phases, Statuses
    <2> QED BY <2>1, <2>2 DEF TInv
  <1>11. ASSUME NEW t \in Slots, EngineInitialized(t) PROVE TInv'
    <2>1. task' \in [Slots -> TaskType] /\ CallsInPlace'
      BY <1>11, GotoTyped, CallTyped, Fields, FenceTyped, SessionAssumption
      DEF EngineInitialized, At, EngineReturned, Retire, InPlace, EngineOrNone,
          Labels, Requests, Handlers
    <2>2. TypeOK'
      BY <1>0, <1>11, <2>1, TearDownTyped, Fields, FenceTyped, SessionAssumption
      DEF EngineInitialized, At, EngineReturned, db, memory, promises, Retire,
          Registered, TypeOK, EngineOrNone, Phases, Statuses
    <2> QED BY <2>1, <2>2 DEF TInv
  <1>12. ASSUME NEW t \in Slots, EngineInitTimeout(t) PROVE TInv'
    <2>1. task' \in [Slots -> TaskType] /\ CallsInPlace'
      BY <1>12, GotoTyped, Fields, SessionAssumption
      DEF EngineInitTimeout, At, InPlace, EngineOrNone, Labels, Requests,
          Handlers
    <2>2. TypeOK'
      BY <1>0, <1>12, <2>1, TearDownTyped, Fields, FenceTyped, SessionAssumption
      DEF EngineInitTimeout, At, db, promises, TypeOK, EngineOrNone, Phases, Statuses
    <2> QED BY <2>1, <2>2 DEF TInv
  <1>13. ASSUME NEW t \in Slots, CheckRow(t) PROVE TInv'
    <2>1. task' \in [Slots -> TaskType] /\ CallsInPlace'
      BY <1>13, ReturnTyped, CallTyped, GotoTyped, Fields, FenceTyped,
         SessionAssumption
      DEF CheckRow, At, ReturnFrom, Retire, InPlace, EngineOrNone, Labels,
          Requests, Handlers
    <2>2. TypeOK'
      BY <1>0, <1>13, <2>1, TearDownTyped, Fields, FenceTyped, SessionAssumption
      DEF CheckRow, At, ReturnFrom, Retire, db, promises, Registered, TypeOK,
          EngineOrNone, Phases, Statuses
    <2> QED BY <2>1, <2>2 DEF TInv
  <1>14. ASSUME NEW t \in Slots, ResurrectedDown(t) PROVE TInv'
    <2>1. task' \in [Slots -> TaskType] /\ CallsInPlace'
      BY <1>14, GotoTyped, Fields, SessionAssumption
      DEF ResurrectedDown, At, InPlace, EngineOrNone, Labels, Requests, Handlers
    <2>2. TypeOK'
      BY <1>0, <1>14, <2>1, Fields, FenceTyped, SessionAssumption
      DEF ResurrectedDown, At, DeleteIfLive, db, world, IsLive, promises, TypeOK,
          EngineOrNone, Phases, Statuses
    <2> QED BY <2>1, <2>2 DEF TInv
  <1>15. ASSUME NEW t \in Slots, PurgeCheck(t) PROVE TInv'
    <2>1. task' \in [Slots -> TaskType] /\ CallsInPlace'
      BY <1>15, GotoTyped, ReturnTyped, Fields, SessionAssumption
      DEF PurgeCheck, At, ReturnFrom, InPlace, EngineOrNone, Labels, Requests,
          Handlers
    <2>2. TypeOK'
      BY <1>0, <1>15, <2>1, Fields, FenceTyped, SessionAssumption
      DEF PurgeCheck, At, ReturnFrom, db, world, promises, TypeOK, EngineOrNone,
          Phases, Statuses
    <2> QED BY <2>1, <2>2 DEF TInv
  <1>16. ASSUME NEW t \in Slots, Repurge(t) PROVE TInv'
    <2>1. task' \in [Slots -> TaskType] /\ CallsInPlace'
      BY <1>16, ReturnTyped, Fields, SessionAssumption
      DEF Repurge, At, ReturnFrom, InPlace, EngineOrNone, Labels, Requests,
          Handlers
    <2>2. TypeOK'
      BY <1>0, <1>16, <2>1, Fields, FenceTyped, SessionAssumption
      DEF Repurge, At, ReturnFrom, db, promises, TypeOK, EngineOrNone, Phases,
          Statuses
    <2> QED BY <2>1, <2>2 DEF TInv
  <1>17. ASSUME NEW t \in Slots, StartChecks(t) PROVE TInv'
    <2>1. task' \in [Slots -> TaskType] /\ CallsInPlace'
      BY <1>17, CallTyped, ReturnTyped, Fields, FenceTyped, SessionAssumption
      DEF StartChecks, At, ReturnFrom, InPlace, EngineOrNone, Labels, Requests,
          Handlers
    <2>2. TypeOK'
      BY <1>0, <1>17, <2>1, Fields, FenceTyped, SessionAssumption
      DEF StartChecks, At, Registered, ActiveIds, ReturnFrom, db, world, promises,
          TypeOK, EngineOrNone, Phases, Statuses
    <2> QED BY <2>1, <2>2 DEF TInv
  <1>18. ASSUME NEW t \in Slots, StartAccepted(t) PROVE TInv'
    <2>1. task' \in [Slots -> TaskType] /\ CallsInPlace'
      BY <1>18, GotoTyped, Fields, SessionAssumption
      DEF StartAccepted, At, InPlace, EngineOrNone, Labels, Requests, Handlers
    <2>2. TypeOK'
      BY <1>0, <1>18, <2>1, CancelTyped, Fields, FenceTyped, SessionAssumption
      DEF StartAccepted, At, db, world, promises, TypeOK, EngineOrNone, Phases,
          Statuses
    <2> QED BY <2>1, <2>2 DEF TInv
  <1>19. ASSUME NEW t \in Slots, StartHookDone(t) PROVE TInv'
    <2>1. task' \in [Slots -> TaskType] /\ CallsInPlace'
      BY <1>19, CallTyped, Fields, SessionAssumption
      DEF StartHookDone, At, InitializeEngine, Free, InPlace, EngineOrNone, Labels, Requests, Handlers
    <2>2. reconnect' \in [Sessions -> ReconnectType]
      BY <1>19, Fields, StatesTyped DEF StartHookDone
    <2>3. TypeOK'
      BY <1>0, <1>19, <2>1, <2>2, Fields
      DEF StartHookDone, InitializeEngine, Free, db, promises, TypeOK, EngineOrNone, Phases
    <2> QED BY <2>1, <2>3 DEF TInv
  <1>20. ASSUME NEW t \in Slots, StartFailed(t) PROVE TInv'
    <2>1. task' \in [Slots -> TaskType] /\ CallsInPlace'
      BY <1>20, GotoTyped, ReturnTyped, Fields, FenceTyped, SessionAssumption
      DEF StartFailed, InitFailed, ReturnFrom, At, ForgetPending, InPlace,
          EngineOrNone, Labels, Requests, Handlers
    <2>2. TypeOK'
      BY <1>0, <1>20, <2>1, EvictTyped, WriteTyped, Fields, FenceTyped,
         SessionAssumption
      DEF StartFailed, InitFailed, AwaitingWrite, Registered, ReturnFrom, At,
          ForgetPending, TypeOK, EngineOrNone, Phases, Statuses
    <2> QED BY <2>1, <2>2 DEF TInv
  <1>21. ASSUME NEW t \in Slots, StartFailedWritten(t) PROVE TInv'
    <2>1. task' \in [Slots -> TaskType] /\ CallsInPlace'
      BY <1>21, ReturnTyped, Fields, SessionAssumption
      DEF StartFailedWritten, At, ReturnFrom, InPlace, EngineOrNone, Labels,
          Requests, Handlers
    <2>2. TypeOK'
      BY <1>0, <1>21, <2>1, WriteTyped, Fields, FenceTyped, SessionAssumption
      DEF StartFailedWritten, At, ReturnFrom, world, promises, TypeOK, EngineOrNone,
          Phases, Statuses
    <2> QED BY <2>1, <2>2 DEF TInv
  <1>22. ASSUME NEW t \in Slots, BeginTeardown(t) PROVE TInv'
    <2>1. task' \in [Slots -> TaskType] /\ CallsInPlace'
      BY <1>22, CallTyped, Fields, SessionAssumption
      DEF BeginTeardown, At, InPlace, EngineOrNone, Labels, Requests, Handlers
    <2>2. phase' \in [Engines -> Phases]
      BY <1>22, TearDownTyped DEF BeginTeardown
    <2>3. task[t].eng \in Engines
      BY <1>22, Fields DEF BeginTeardown, At, InPlace, EngineOrNone
    <2>4. logouts' \subseteq Engines /\ pendingTeardowns' \subseteq logouts'
      <3>1. CASE task[t].op = "logout"
        BY <1>22, <2>3, <3>1, LogoutTyped DEF BeginTeardown
      <3>2. CASE task[t].op # "logout"
        BY <1>0, <1>22, <3>2 DEF BeginTeardown, promises, TypeOK
      <3> QED BY <3>1, <3>2
    <2>5. TypeOK'
      BY <1>0, <1>22, <2>1, <2>2, <2>4
      DEF BeginTeardown, BeginLogout, db, memory, promises, TypeOK
    <2> QED BY <2>1, <2>5 DEF TInv
  <1>23. ASSUME NEW t \in Slots, TeardownDone(t) PROVE TInv'
    <2>1. task' \in [Slots -> TaskType] /\ CallsInPlace'
      BY <1>23, GotoTyped, CallTyped, Fields, FenceTyped, SessionAssumption
      DEF TeardownDone, At, InPlace, EngineOrNone, Labels, Requests, Handlers
    <2>2. TypeOK'
      BY <1>0, <1>23, <2>1, Fields, FenceTyped, SessionAssumption
      DEF TeardownDone, At, DeleteIfLive, db, world, IsLive, promises, TypeOK,
          EngineOrNone, Phases, Statuses
    <2> QED BY <2>1, <2>2 DEF TInv
  <1>24. ASSUME NEW t \in Slots, FinalStatusWritten(t) PROVE TInv'
    <2>1. task' \in [Slots -> TaskType] /\ CallsInPlace'
      BY <1>24, ReturnTyped, Fields, SessionAssumption
      DEF FinalStatusWritten, At, InPlace, EngineOrNone, Labels, Requests,
          Handlers
    <2>2. TypeOK'
      BY <1>0, <1>24, <2>1, WriteTyped, Fields, FenceTyped, SessionAssumption
      DEF FinalStatusWritten, At, world, promises, TypeOK, EngineOrNone, Phases,
          Statuses
    <2> QED BY <2>1, <2>2 DEF TInv
  <1>25. ASSUME NEW t \in Slots, DeleteAccepted(t) PROVE TInv'
    <2>1. task' \in [Slots -> TaskType] /\ CallsInPlace'
      BY <1>25, CallTyped, Fields, FenceTyped, SessionAssumption
      DEF DeleteAccepted, At, Retiring, InPlace, EngineOrNone, Labels, Requests,
          Handlers
    <2>2. TypeOK'
      BY <1>0, <1>25, <2>1, CancelTyped, Fields, FenceTyped, SessionAssumption
      DEF DeleteAccepted, At, Retiring, world, Registered, db, promises, TypeOK,
          EngineOrNone, Phases, Statuses
    <2> QED BY <2>1, <2>2 DEF TInv
  <1>26. ASSUME NEW t \in Slots, DeleteFenced(t) PROVE TInv'
    <2>1. task' \in [Slots -> TaskType] /\ CallsInPlace'
      BY <1>26, GotoTyped, Fields, SessionAssumption
      DEF DeleteFenced, At, InPlace, EngineOrNone, Labels, Requests, Handlers
    <2>2. TypeOK'
      BY <1>0, <1>26, <2>1, Fields, FenceTyped, SessionAssumption
      DEF DeleteFenced, At, db, memory, world, promises, TypeOK, EngineOrNone,
          Phases, Statuses
    <2> QED BY <2>1, <2>2 DEF TInv
  <1>27. ASSUME NEW t \in Slots, DeleteCommits(t) PROVE TInv'
    <2>1. task' \in [Slots -> TaskType] /\ CallsInPlace'
      BY <1>27, GotoTyped, Fields, SessionAssumption
      DEF DeleteCommits, At, InPlace, EngineOrNone, Labels, Requests, Handlers
    <2>2. TypeOK'
      BY <1>0, <1>27, <2>1, Fields, FenceTyped, SessionAssumption
      DEF DeleteCommits, At, memory, world, promises, TypeOK, EngineOrNone, Phases,
          Statuses
    <2> QED BY <2>1, <2>2 DEF TInv
  <1>28. ASSUME NEW t \in Slots, DeleteFails(t) PROVE TInv'
    <2>1. task' \in [Slots -> TaskType] /\ CallsInPlace'
      BY <1>28, ReturnTyped, Fields, SessionAssumption
      DEF DeleteFails, At, InPlace, EngineOrNone, Labels, Requests, Handlers
    <2>2. TypeOK'
      BY <1>0, <1>28, <2>1, Fields, FenceTyped, SessionAssumption
      DEF DeleteFails, At, db, world, promises, TypeOK, EngineOrNone, Phases,
          Statuses
    <2> QED BY <2>1, <2>2 DEF TInv
  <1>29. ASSUME NEW t \in Slots, DeletePurges(t) PROVE TInv'
    <2>1. task' \in [Slots -> TaskType] /\ CallsInPlace'
      BY <1>29, ReturnTyped, Fields, SessionAssumption
      DEF DeletePurges, At, InPlace, EngineOrNone, Labels, Requests, Handlers
    <2>2. TypeOK'
      BY <1>0, <1>29, <2>1, Fields, FenceTyped, SessionAssumption
      DEF DeletePurges, At, db, promises, TypeOK, EngineOrNone, Phases, Statuses
    <2> QED BY <2>1, <2>2 DEF TInv
  <1>30. ASSUME NEW t \in Slots, ImportEnds(t) PROVE TInv'
    <2>1. task' \in [Slots -> TaskType] /\ CallsInPlace'
      BY <1>30, ReturnTyped, Fields, SessionAssumption
      DEF ImportEnds, At, InPlace, EngineOrNone, Labels, Requests, Handlers
    <2>2. TypeOK'
      BY <1>0, <1>30, <2>1, Fields, FenceTyped, SessionAssumption
      DEF ImportEnds, At, memory, world, promises, TypeOK, EngineOrNone, Phases,
          Statuses
    <2> QED BY <2>1, <2>2 DEF TInv
  <1>31. ASSUME NEW t \in Slots, FenceTimeout(t) PROVE TInv'
    <2>1. task' \in [Slots -> TaskType] /\ CallsInPlace'
      BY <1>31, GotoTyped, ReturnTyped, Fields, SessionAssumption
      DEF FenceTimeout, At, ReturnFrom, InPlace, EngineOrNone, Labels, Requests,
          Handlers
    <2>2. TypeOK'
      BY <1>0, <1>31, <2>1, Fields, FenceTyped, SessionAssumption
      DEF FenceTimeout, At, ReturnFrom, db, world, promises, TypeOK, EngineOrNone,
          Phases, Statuses
    <2> QED BY <2>1, <2>2 DEF TInv
  <1>32. ASSUME NEW t \in Slots, Reconnects(t) PROVE TInv'
    <2>1. task' \in [Slots -> TaskType] /\ CallsInPlace'
      BY <1>32, CallTyped, Fields, SessionAssumption
      DEF Reconnects, At, InitializeEngine, Free, InPlace, EngineOrNone, Labels,
          Requests, Handlers
    <2>2. TypeOK'
      BY <1>0, <1>32, <2>1, Fields, FenceTyped, SessionAssumption
      DEF Reconnects, At, InitializeEngine, db, promises, Free, TypeOK, EngineOrNone,
          Phases, Statuses
    <2> QED BY <2>1, <2>2 DEF TInv
  <1>33. ASSUME NEW t \in Slots, ReconnectFailed(t) PROVE TInv'
    <2>1. task' \in [Slots -> TaskType] /\ CallsInPlace'
      BY <1>33, ReturnTyped DEF ReconnectFailed
    <2>2. /\ reconnect' \in [Sessions -> ReconnectType]
          /\ late' \subseteq [sid : Sessions, st : Statuses]
          /\ phase' \in [Engines -> Phases]
          /\ engines' \in [Sessions -> EngineOrNone]
      BY <1>33, Fields, ScheduleTyped DEF ReconnectFailed
    <2>3. /\ status' \in [Sessions -> Statuses]
          /\ pendingInitial' \in [Sessions -> EngineOrNone]
      BY <1>0, <1>33, Fields, WriteTyped
      DEF ReconnectFailed, InitFailed, ForgetPending, TypeOK, EngineOrNone, Statuses
    <2>4. TypeOK'
      BY <1>0, <1>33, <2>1, <2>2, <2>3
      DEF ReconnectFailed, InitFailed, AwaitingWrite, TypeOK
    <2> QED BY <2>1, <2>4 DEF TInv
  <1>34. ASSUME NEW t \in Slots, HandleDisconnected(t) PROVE TInv'
    <2>1. task' \in [Slots -> TaskType] /\ CallsInPlace'
      BY <1>34, ReturnTyped DEF HandleDisconnected
    <2>2. Write(task[t].sid, "DISCONNECTED") \in [sid : Sessions, st : Statuses]
      BY Fields, WriteTyped DEF Statuses
    <2>3. /\ reconnect' \in [Sessions -> ReconnectType]
          /\ late' \subseteq [sid : Sessions, st : Statuses]
          /\ phase' \in [Engines -> Phases]
          /\ engines' \in [Sessions -> EngineOrNone]
      <3>1. CASE ScheduleReconnect(task[t].sid, {Write(task[t].sid, "DISCONNECTED")}, FALSE)
        BY <2>2, <3>1, Fields, ScheduleTyped
      <3>2. CASE UNCHANGED <<reconnect, late, engines, phase>>
        BY <1>0, <3>2 DEF TypeOK
      <3> QED BY <1>34, <3>1, <3>2 DEF HandleDisconnected
    <2>4. TypeOK'
      BY <1>0, <1>34, <2>1, <2>3 DEF HandleDisconnected, promises, TypeOK
    <2> QED BY <2>1, <2>4 DEF TInv
  <1>35. ASSUME NEW t \in Slots, FinalizeReady(t) PROVE TInv'
    <2>1. task' \in [Slots -> TaskType] /\ CallsInPlace'
      BY <1>35, ReturnTyped DEF FinalizeReady
    <2>2. Write(task[t].sid, "READY") \in [sid : Sessions, st : Statuses]
      BY Fields, WriteTyped DEF Statuses
    <2>3. reconnect' \in [Sessions -> ReconnectType]
      <3>1. CASE IsLive(task[t].sid, task[t].eng)
        <4>1. [reconnect EXCEPT ![task[t].sid].attempts = 0] \in [Sessions -> ReconnectType]
          BY Fields, StatesTyped
        <4> QED BY <1>35, <3>1, <4>1 DEF FinalizeReady
      <3>2. CASE ~IsLive(task[t].sid, task[t].eng)
        BY <1>0, <1>35, <3>2 DEF FinalizeReady, TypeOK
      <3> QED BY <3>1, <3>2
    <2>5. late' \subseteq [sid : Sessions, st : Statuses]
      <3>1. CASE IsLive(task[t].sid, task[t].eng)
        BY <1>0, <1>35, <2>2, <3>1 DEF FinalizeReady, TypeOK
      <3>2. CASE ~IsLive(task[t].sid, task[t].eng)
        BY <1>0, <1>35, <3>2 DEF FinalizeReady, TypeOK
      <3> QED BY <3>1, <3>2
    <2>4. TypeOK'
      BY <1>0, <1>35, <2>1, <2>3, <2>5 DEF FinalizeReady, world, promises, TypeOK
    <2> QED BY <2>1, <2>4 DEF TInv
  <1>36. ASSUME NEW t \in Slots, RejectDuplicate(t) PROVE TInv'
    <2>1. task' \in [Slots -> TaskType] /\ CallsInPlace'
      BY <1>36, GotoTyped, Fields, SessionAssumption
      DEF RejectDuplicate, At, InPlace, EngineOrNone, Labels, Requests, Handlers
    <2>2. phase' \in [Engines -> Phases]
      BY <1>36, TearDownTyped DEF RejectDuplicate
    <2>3. task[t].eng \in Engines /\ task[t].sid \in Sessions
      BY <1>36, Fields DEF RejectDuplicate, At, InPlace, EngineOrNone
    <2>4. logouts' \subseteq Engines /\ pendingTeardowns' \subseteq logouts'
      BY <1>36, <2>3, LogoutTyped DEF RejectDuplicate
    <2>5. TypeOK'
      BY <1>0, <1>36, <2>1, <2>2, <2>3, <2>4
      DEF RejectDuplicate, BeginLogout, db, TypeOK
    <2> QED BY <2>1, <2>5 DEF TInv
  <1>37. ASSUME NEW e \in Engines, EngineError(e) PROVE TInv'
    <2>1. task' \in [Slots -> TaskType] /\ CallsInPlace'
      BY <1>0, <1>37 DEF EngineError, IsLive, promises, TInv, TypeOK, CallsInPlace
    <2>2. TypeOK'
      BY <1>0, <1>37, <2>1, CancelTyped, WriteTyped, EvictTyped, Fields,
         FenceTyped, SessionAssumption
      DEF EngineError, IsLive, promises, TypeOK, EngineOrNone, Phases, Statuses
    <2> QED BY <2>1, <2>2 DEF TInv
  <1>38. ASSUME NEW e \in Engines, RemoteLoggedOut(e) PROVE TInv'
    <2>1. task' \in [Slots -> TaskType] /\ CallsInPlace'
      BY <1>0, <1>38 DEF RemoteLoggedOut, db, memory, TInv, TypeOK, CallsInPlace
    <2>2. TypeOK'
      BY <1>0, <1>38, <2>1, LogoutTyped, Fields, FenceTyped, SessionAssumption
      DEF RemoteLoggedOut, BeginLogout, db, memory, TypeOK, EngineOrNone, Phases,
          Statuses
    <2> QED BY <2>1, <2>2 DEF TInv
  <1>39. ASSUME NEW e \in logouts, LogoutSettles(e) PROVE TInv'
    <2>1. task' \in [Slots -> TaskType] /\ CallsInPlace'
      BY <1>0, <1>39 DEF LogoutSettles, db, memory, TInv, TypeOK, CallsInPlace
    <2>2. TypeOK'
      BY <1>0, <1>39, <2>1, Fields, FenceTyped, SessionAssumption
      DEF LogoutSettles, db, memory, TypeOK, EngineOrNone, Phases, Statuses
    <2> QED BY <2>1, <2>2 DEF TInv
  <1>40. ASSUME NEW w \in late, LateWriteSettles(w) PROVE TInv'
    <2>1. task' \in [Slots -> TaskType] /\ CallsInPlace'
      BY <1>0, <1>40
      DEF LateWriteSettles, memory, world, promises, TInv, TypeOK, CallsInPlace
    <2>2. TypeOK'
      BY <1>0, <1>40, <2>1, WriteTyped, Fields, FenceTyped, SessionAssumption
      DEF LateWriteSettles, memory, world, promises, TypeOK, EngineOrNone, Phases,
          Statuses
    <2> QED BY <2>1, <2>2 DEF TInv
  <1>41. ASSUME NEW s \in Sessions, Create(s) PROVE TInv'
    <2>1. task' \in [Slots -> TaskType] /\ CallsInPlace'
      BY <1>0, <1>41 DEF Create, memory, world, promises, TInv, TypeOK, CallsInPlace
    <2>2. TypeOK'
      BY <1>0, <1>41, <2>1, Fields, FenceTyped, SessionAssumption
      DEF Create, memory, world, promises, TypeOK, EngineOrNone, Phases, Statuses
    <2> QED BY <2>1, <2>2 DEF TInv
  <1>42. ASSUME UNCHANGED vars PROVE TInv'
    BY <1>42 DEF vars, TInv, TypeOK, CallsInPlace
  <1>43. ASSUME NEW t \in Slots, ControlRejected(t) PROVE TInv'
    <2>1. task' \in [Slots -> TaskType] /\ CallsInPlace'
      BY <1>43, ReturnTyped DEF ControlRejected
    <2>2. TypeOK'
      BY <1>0, <1>43, <2>1 DEF ControlRejected, db, TypeOK
    <2> QED BY <2>1, <2>2 DEF TInv
  <1> QED BY <1>1, <1>2, <1>3, <1>4, <1>5, <1>6, <1>7, <1>8, <1>9, <1>10, <1>11,
             <1>12, <1>13, <1>14, <1>15, <1>16, <1>17, <1>18, <1>19, <1>20,
             <1>21, <1>22, <1>23, <1>24, <1>25, <1>26, <1>27, <1>28, <1>29,
             <1>30, <1>31, <1>32, <1>33, <1>34, <1>35, <1>36, <1>37, <1>38,
             <1>39, <1>40, <1>41, <1>42, <1>43
          DEF Next, vars, Request, EngineEvent, Resume

LEMMA Initially == Init => TInv
  BY SessionAssumption, IdleTyped
  DEF Init, TInv, TypeOK, CallsInPlace, EngineOrNone, Statuses, Phases,
      ReconnectType, NoReconnect

(* Every variable has its type, and every suspended call stands where its  *)
(* operation can stand, in every reachable state.                          *)
THEOREM TypeCorrect == Spec => []TypeOK
  <1>1. TInv => TypeOK BY DEF TInv
  <1> QED BY <1>1, Initially, Typing, PTL DEF Spec

-----------------------------------------------------------------------------
(* Ownership *)

OwnInv == CapturedOwned /\ RegisteredOwned

(* What every step but the creation of an engine does: engines keep their  *)
(* owner and stay created, the registry gains none, and a call holds an    *)
(* engine it held before or found in the registry.                         *)
Carries ==
  /\ owner' = owner
  /\ \A e \in Engines : phase'[e] = phase[e] \/ phase'[e] # "free"
  /\ \A s \in Sessions : engines'[s] \in {engines[s], NoEngine}
  /\ \A t \in Slots :
       \/ task'[t].eng = NoEngine
       \/ task'[t].eng = task[t].eng /\ task'[t].sid = task[t].sid
       \/ task'[t].eng = engines[task'[t].sid]

LEMMA CarriesOwned ==
  ASSUME TInv, TInv', OwnInv, Carries
  PROVE  OwnInv'
  <1>1. \A e \in Engines : phase[e] # "free" => phase'[e] # "free"
    BY DEF Carries
  <1>2. RegisteredOwned'
    <2> SUFFICES ASSUME NEW s \in Sessions, Registered(s)'
                 PROVE  (owner[engines[s]] = s /\ phase[engines[s]] # "free")'
      BY DEF RegisteredOwned
    <2>1. engines'[s] = engines[s] /\ Registered(s) BY DEF Carries, Registered
    <2>2. engines[s] \in Engines BY <2>1, FenceTyped
    <2> QED BY <1>1, <2>1, <2>2 DEF OwnInv, RegisteredOwned, Carries
  <1>3. CapturedOwned'
    <2> SUFFICES ASSUME NEW t \in Slots, task'[t].eng # NoEngine
                 PROVE  /\ owner'[task'[t].eng] = task'[t].sid
                        /\ phase'[task'[t].eng] # "free"
      BY DEF CapturedOwned
    <2>0. task'[t].sid \in Sessions /\ task'[t].eng \in Engines
      BY DEF TInv, TypeOK, TaskType, EngineOrNone
    <2>1. CASE task'[t].eng = task[t].eng /\ task'[t].sid = task[t].sid
      BY <1>1, <2>0, <2>1 DEF OwnInv, CapturedOwned, Carries
    <2>2. CASE task'[t].eng = engines[task'[t].sid]
      BY <1>1, <2>0, <2>2 DEF OwnInv, RegisteredOwned, Registered, Carries
    <2> QED BY <2>1, <2>2 DEF Carries
  <1> QED BY <1>2, <1>3 DEF OwnInv

LEMMA CreationOwned ==
  ASSUME TInv, TInv', OwnInv, NEW t \in Slots, InitializeEngine(t, task[t].sid)
  PROVE  OwnInv'
  <1>1. PICK e \in Free :
          /\ engines' = [engines EXCEPT ![task[t].sid] = e]
          /\ phase' = [phase EXCEPT ![e] = "created"]
          /\ owner' = [owner EXCEPT ![e] = task[t].sid]
          /\ Call(t, task[t].op, task[t].sid, "initialStatus", e, {})
    BY DEF InitializeEngine
  <1>2. task[t].sid \in Sessions BY Fields
  <1>3. e \in Engines /\ phase[e] = "free" BY <1>1 DEF Free
  <1>4. RegisteredOwned'
    <2> SUFFICES ASSUME NEW s \in Sessions, Registered(s)'
                 PROVE  owner'[engines'[s]] = s /\ phase'[engines'[s]] # "free"
      BY DEF RegisteredOwned
    <2>1. CASE s = task[t].sid BY <1>1, <1>3, <2>1 DEF TInv, TypeOK
    <2>2. CASE s # task[t].sid
      <3>1. engines'[s] = engines[s] /\ Registered(s)
        BY <1>1, <1>2, <2>2 DEF TInv, TypeOK, Registered
      <3>2. engines[s] # e /\ engines[s] \in Engines
        BY <1>3, <3>1, FenceTyped DEF OwnInv, RegisteredOwned
      <3> QED BY <1>1, <1>3, <3>1, <3>2
              DEF OwnInv, RegisteredOwned, TInv, TypeOK
    <2> QED BY <2>1, <2>2
  <1>5. CapturedOwned'
    <2> SUFFICES ASSUME NEW u \in Slots, task'[u].eng # NoEngine
                 PROVE  /\ owner'[task'[u].eng] = task'[u].sid
                        /\ phase'[task'[u].eng] # "free"
      BY DEF CapturedOwned
    <2>1. CASE u = t BY <1>1, <1>3, <2>1 DEF Call, TInv, TypeOK
    <2>2. CASE u # t
      <3>1. task'[u] = task[u] BY <1>1, <2>2 DEF Call, TInv, TypeOK
      <3>2. task[u].eng \in Engines /\ task[u].eng # e
        BY <1>3, <3>1, Fields DEF OwnInv, CapturedOwned, EngineOrNone
      <3> QED BY <1>1, <1>3, <3>1, <3>2 DEF OwnInv, CapturedOwned, TInv, TypeOK
    <2> QED BY <2>1, <2>2
  <1> QED BY <1>4, <1>5 DEF OwnInv

LEMMA CallCarries ==
  ASSUME TInv, NEW t \in Slots, NEW op, NEW s, NEW pc, NEW e, NEW w,
         Call(t, op, s, pc, e, w),
         e = NoEngine \/ e = engines[s] \/ (e = task[t].eng /\ s = task[t].sid)
  PROVE  \A u \in Slots :
           \/ task'[u].eng = NoEngine
           \/ task'[u].eng = task[u].eng /\ task'[u].sid = task[u].sid
           \/ task'[u].eng = engines[task'[u].sid]
  BY DEF TInv, TypeOK, Call

LEMMA GotoCarries ==
  ASSUME TInv, NEW t \in Slots, NEW pc, Goto(t, pc)
  PROVE  \A u \in Slots :
           task'[u].eng = task[u].eng /\ task'[u].sid = task[u].sid
  BY DEF TInv, TypeOK, Goto, TaskType

LEMMA ReturnCarries ==
  ASSUME TInv, NEW t \in Slots, Return(t)
  PROVE  \A u \in Slots :
           \/ task'[u].eng = NoEngine
           \/ task'[u].eng = task[u].eng /\ task'[u].sid = task[u].sid
  BY IdleTyped DEF TInv, TypeOK, Return

LEMMA TearDownCarries ==
  ASSUME TInv, NEW e, TearDown(e)
  PROVE  \A f \in Engines : phase'[f] = phase[f] \/ phase'[f] # "free"
  BY DEF TInv, TypeOK, TearDown

LEMMA EvictCarries ==
  ASSUME TInv, NEW s, Evict(s)
  PROVE  /\ \A f \in Engines : phase'[f] = phase[f] \/ phase'[f] # "free"
         /\ \A r \in Sessions : engines'[r] \in {engines[r], NoEngine}
  BY TearDownCarries DEF Evict, TInv, TypeOK

LEMMA DeleteIfLiveCarries ==
  ASSUME TInv, NEW s, NEW e, DeleteIfLive(s, e)
  PROVE  \A r \in Sessions : engines'[r] \in {engines[r], NoEngine}
  BY DEF DeleteIfLive, TInv, TypeOK

LEMMA ScheduleCarries ==
  ASSUME TInv, NEW s \in Sessions, NEW issued, NEW reap,
         ScheduleReconnect(s, issued, reap)
  PROVE  /\ \A f \in Engines : phase'[f] = phase[f] \/ phase'[f] # "free"
         /\ \A r \in Sessions : engines'[r] \in {engines[r], NoEngine}
  BY EvictCarries DEF ScheduleReconnect, TInv, TypeOK

LEMMA Ownership == TInv /\ TInv' /\ OwnInv /\ [Next]_vars => OwnInv'
  <1> SUFFICES ASSUME TInv, TInv', OwnInv, [Next]_vars PROVE OwnInv' OBVIOUS
  <1>1. ASSUME NEW t \in Slots, NEW s \in Sessions, Start(t, s) PROVE OwnInv'
    <2>1. Carries
      BY <1>1, CallCarries DEF Start, world, Carries
    <2> QED BY <2>1, CarriesOwned
  <1>2. ASSUME NEW t \in Slots, NEW s \in Sessions, Stop(t, s) PROVE OwnInv'
    <2>1. Carries
      BY <1>2, CallCarries DEF Stop, Retiring, world, Carries
    <2> QED BY <2>1, CarriesOwned
  <1>3. ASSUME NEW t \in Slots, NEW s \in Sessions, Logout(t, s) PROVE OwnInv'
    <2>1. Carries
      BY <1>3, CallCarries DEF Logout, Retiring, world, Carries
    <2> QED BY <2>1, CarriesOwned
  <1>4. ASSUME NEW t \in Slots, NEW s \in Sessions, ForceKill(t, s)
        PROVE  OwnInv'
    <2>1. Carries
      BY <1>4, CallCarries DEF ForceKill, Retiring, world, Carries
    <2> QED BY <2>1, CarriesOwned
  <1>5. ASSUME NEW t \in Slots, NEW s \in Sessions, Delete(t, s) PROVE OwnInv'
    <2>1. Carries
      BY <1>5, CallCarries DEF Delete, memory, world, Carries
    <2> QED BY <2>1, CarriesOwned
  <1>6. ASSUME NEW t \in Slots, NEW s \in Sessions, ImportData(t, s)
        PROVE  OwnInv'
    <2>1. Carries
      BY <1>6, CallCarries, TearDownCarries
      DEF ImportData, StopOrphanEngines, Carries
    <2> QED BY <2>1, CarriesOwned
  <1>7. ASSUME NEW t \in Slots, NEW s \in Sessions, ReconnectTimer(t, s)
        PROVE  OwnInv'
    <2>1. Carries
      BY <1>7, TearDownCarries, CallCarries DEF ReconnectTimer, Carries
    <2> QED BY <2>1, CarriesOwned
  <1>8. ASSUME NEW t \in Slots, NEW e \in Engines, Disconnected(t, e)
        PROVE  OwnInv'
    <2>1. Carries
      BY <1>8, CallCarries DEF Disconnected, IsLive, memory, world, Carries
    <2> QED BY <2>1, CarriesOwned
  <1>9. ASSUME NEW t \in Slots, NEW e \in Engines, Ready(t, e) PROVE OwnInv'
    <2>1. Carries
      BY <1>9, CallCarries DEF Ready, IsLive, memory, world, Carries
    <2> QED BY <2>1, CarriesOwned
  <1>10. ASSUME NEW t \in Slots, InitialStatusWritten(t) PROVE OwnInv'
    <2>1. CASE phase' = [phase EXCEPT ![task[t].eng] = "running"]
               /\ Goto(t, "initialize")
      <3>1. Carries
        BY <1>10, <2>1, GotoCarries
        DEF InitialStatusWritten, Carries, TInv, TypeOK
      <3> QED BY <3>1, CarriesOwned
    <2>2. CASE EngineReturned(t, task[t].sid)
      <3>1. Carries
        BY <1>10, <2>2, GotoCarries, TearDownCarries, CallCarries
        DEF InitialStatusWritten, EngineReturned, Retire, Carries
      <3> QED BY <3>1, CarriesOwned
    <2> QED BY <1>10, <2>1, <2>2 DEF InitialStatusWritten
  <1>11. ASSUME NEW t \in Slots, EngineInitialized(t) PROVE OwnInv'
    <2>1. Carries
      BY <1>11, GotoCarries, TearDownCarries, CallCarries
      DEF EngineInitialized, EngineReturned, memory, Retire, Carries
    <2> QED BY <2>1, CarriesOwned
  <1>12. ASSUME NEW t \in Slots, EngineInitTimeout(t) PROVE OwnInv'
    <2>1. Carries
      BY <1>12, TearDownCarries, GotoCarries DEF EngineInitTimeout, Carries
    <2> QED BY <2>1, CarriesOwned
  <1>13. ASSUME NEW t \in Slots, CheckRow(t) PROVE OwnInv'
    <2>1. Carries
      BY <1>13, ReturnCarries, TearDownCarries, CallCarries, GotoCarries
      DEF CheckRow, ReturnFrom, Retire, Carries
    <2> QED BY <2>1, CarriesOwned
  <1>14. ASSUME NEW t \in Slots, ResurrectedDown(t) PROVE OwnInv'
    <2>1. Carries
      BY <1>14, DeleteIfLiveCarries, GotoCarries
      DEF ResurrectedDown, world, Carries
    <2> QED BY <2>1, CarriesOwned
  <1>15. ASSUME NEW t \in Slots, PurgeCheck(t) PROVE OwnInv'
    <2>1. Carries
      BY <1>15, GotoCarries, ReturnCarries
      DEF PurgeCheck, ReturnFrom, world, Carries
    <2> QED BY <2>1, CarriesOwned
  <1>16. ASSUME NEW t \in Slots, Repurge(t) PROVE OwnInv'
    <2>1. Carries
      BY <1>16, ReturnCarries DEF Repurge, ReturnFrom, Carries
    <2> QED BY <2>1, CarriesOwned
  <1>17. ASSUME NEW t \in Slots, StartChecks(t) PROVE OwnInv'
    <2>1. Carries
      BY <1>17, CallCarries, ReturnCarries
      DEF StartChecks, ReturnFrom, world, Carries
    <2> QED BY <2>1, CarriesOwned
  <1>18. ASSUME NEW t \in Slots, StartAccepted(t) PROVE OwnInv'
    <2>1. Carries
      BY <1>18, GotoCarries DEF StartAccepted, world, Carries
    <2> QED BY <2>1, CarriesOwned
  <1>19. ASSUME NEW t \in Slots, StartHookDone(t) PROVE OwnInv'
    BY <1>19, CreationOwned DEF StartHookDone
  <1>20. ASSUME NEW t \in Slots, StartFailed(t) PROVE OwnInv'
    <2>1. Carries
      BY <1>20, GotoCarries, EvictCarries, ReturnCarries
      DEF StartFailed, ReturnFrom, Carries
    <2> QED BY <2>1, CarriesOwned
  <1>21. ASSUME NEW t \in Slots, StartFailedWritten(t) PROVE OwnInv'
    <2>1. Carries
      BY <1>21, ReturnCarries DEF StartFailedWritten, ReturnFrom, world, Carries
    <2> QED BY <2>1, CarriesOwned
  <1>22. ASSUME NEW t \in Slots, BeginTeardown(t) PROVE OwnInv'
    <2>1. Carries
      BY <1>22, TearDownCarries, CallCarries DEF BeginTeardown, memory, Carries
    <2> QED BY <2>1, CarriesOwned
  <1>23. ASSUME NEW t \in Slots, TeardownDone(t) PROVE OwnInv'
    <2>1. Carries
      BY <1>23, DeleteIfLiveCarries, GotoCarries, CallCarries
      DEF TeardownDone, world, Carries
    <2> QED BY <2>1, CarriesOwned
  <1>24. ASSUME NEW t \in Slots, FinalStatusWritten(t) PROVE OwnInv'
    <2>1. Carries
      BY <1>24, ReturnCarries DEF FinalStatusWritten, world, Carries
    <2> QED BY <2>1, CarriesOwned
  <1>25. ASSUME NEW t \in Slots, DeleteAccepted(t) PROVE OwnInv'
    <2>1. Carries
      BY <1>25, CallCarries DEF DeleteAccepted, Retiring, world, Carries
    <2> QED BY <2>1, CarriesOwned
  <1>26. ASSUME NEW t \in Slots, DeleteFenced(t) PROVE OwnInv'
    <2>1. Carries
      BY <1>26, GotoCarries DEF DeleteFenced, memory, world, Carries
    <2> QED BY <2>1, CarriesOwned
  <1>27. ASSUME NEW t \in Slots, DeleteCommits(t) PROVE OwnInv'
    <2>1. Carries
      BY <1>27, GotoCarries DEF DeleteCommits, memory, world, Carries
    <2> QED BY <2>1, CarriesOwned
  <1>28. ASSUME NEW t \in Slots, DeleteFails(t) PROVE OwnInv'
    <2>1. Carries
      BY <1>28, ReturnCarries DEF DeleteFails, world, Carries
    <2> QED BY <2>1, CarriesOwned
  <1>29. ASSUME NEW t \in Slots, DeletePurges(t) PROVE OwnInv'
    <2>1. Carries
      BY <1>29, ReturnCarries DEF DeletePurges, Carries
    <2> QED BY <2>1, CarriesOwned
  <1>30. ASSUME NEW t \in Slots, ImportEnds(t) PROVE OwnInv'
    <2>1. Carries
      BY <1>30, ReturnCarries DEF ImportEnds, memory, world, Carries
    <2> QED BY <2>1, CarriesOwned
  <1>31. ASSUME NEW t \in Slots, FenceTimeout(t) PROVE OwnInv'
    <2>1. Carries
      BY <1>31, GotoCarries, ReturnCarries
      DEF FenceTimeout, ReturnFrom, world, Carries
    <2> QED BY <2>1, CarriesOwned
  <1>32. ASSUME NEW t \in Slots, Reconnects(t) PROVE OwnInv'
    BY <1>32, CreationOwned DEF Reconnects
  <1>33. ASSUME NEW t \in Slots, ReconnectFailed(t) PROVE OwnInv'
    <2>1. Carries
      BY <1>33, ScheduleCarries, ReturnCarries, Fields
      DEF ReconnectFailed, Carries
    <2> QED BY <2>1, CarriesOwned
  <1>34. ASSUME NEW t \in Slots, HandleDisconnected(t) PROVE OwnInv'
    <2>1. Carries
      BY <1>34, ScheduleCarries, ReturnCarries, Fields
      DEF HandleDisconnected, IsLive, Carries
    <2> QED BY <2>1, CarriesOwned
  <1>35. ASSUME NEW t \in Slots, FinalizeReady(t) PROVE OwnInv'
    <2>1. Carries
      BY <1>35, ReturnCarries DEF FinalizeReady, IsLive, world, Carries
    <2> QED BY <2>1, CarriesOwned
  <1>36. ASSUME NEW t \in Slots, RejectDuplicate(t) PROVE OwnInv'
    <2>1. Carries
      BY <1>36, TearDownCarries, GotoCarries DEF RejectDuplicate, Carries
    <2> QED BY <2>1, CarriesOwned
  <1>37. ASSUME NEW e \in Engines, EngineError(e) PROVE OwnInv'
    <2>1. Carries
      BY <1>37, EvictCarries DEF EngineError, IsLive, Carries
    <2> QED BY <2>1, CarriesOwned
  <1>38. ASSUME NEW e \in Engines, RemoteLoggedOut(e) PROVE OwnInv'
    <2>1. Carries
      BY <1>38 DEF RemoteLoggedOut, memory, Carries
    <2> QED BY <2>1, CarriesOwned
  <1>39. ASSUME NEW e \in logouts, LogoutSettles(e) PROVE OwnInv'
    <2>1. Carries
      BY <1>39 DEF LogoutSettles, memory, Carries
    <2> QED BY <2>1, CarriesOwned
  <1>40. ASSUME NEW w \in late, LateWriteSettles(w) PROVE OwnInv'
    <2>1. Carries
      BY <1>40 DEF LateWriteSettles, memory, world, Carries
    <2> QED BY <2>1, CarriesOwned
  <1>41. ASSUME NEW s \in Sessions, Create(s) PROVE OwnInv'
    <2>1. Carries
      BY <1>41 DEF Create, memory, world, Carries
    <2> QED BY <2>1, CarriesOwned
  <1>42. ASSUME UNCHANGED vars PROVE OwnInv'
    BY <1>42 DEF vars, OwnInv, CapturedOwned, RegisteredOwned, Registered
  <1>43. ASSUME NEW t \in Slots, ControlRejected(t) PROVE OwnInv'
    <2>1. Carries
      BY <1>43, ReturnCarries DEF ControlRejected, Carries
    <2> QED BY <2>1, CarriesOwned
  <1> QED BY <1>1, <1>2, <1>3, <1>4, <1>5, <1>6, <1>7, <1>8, <1>9, <1>10, <1>11,
             <1>12, <1>13, <1>14, <1>15, <1>16, <1>17, <1>18, <1>19, <1>20,
             <1>21, <1>22, <1>23, <1>24, <1>25, <1>26, <1>27, <1>28, <1>29,
             <1>30, <1>31, <1>32, <1>33, <1>34, <1>35, <1>36, <1>37, <1>38,
             <1>39, <1>40, <1>41, <1>42, <1>43
          DEF Next, vars, Request, EngineEvent, Resume

-----------------------------------------------------------------------------
(* The reservation of start() *)

(* What a step does that neither begins nor ends a start.                  *)
KeepsStarts ==
  /\ initializing' = initializing
  /\ \A t \in Slots : /\ task'[t].op = "start" <=> task[t].op = "start"
                      /\ task[t].op = "start" => task'[t].sid = task[t].sid

LEMMA KeepsOneStart ==
  ASSUME OneStart, KeepsStarts PROVE OneStart'
  <1>1. {u \in Slots : task'[u].op = "start"} = {u \in Slots : task[u].op = "start"}
    BY DEF KeepsStarts
  <1>2. {task'[t].sid : t \in {u \in Slots : task'[u].op = "start"}}
          = {task[t].sid : t \in {u \in Slots : task[u].op = "start"}}
    BY <1>1 DEF KeepsStarts
  <1> QED BY <1>2 DEF OneStart, KeepsStarts

LEMMA CallKeepsStarts ==
  ASSUME TInv, NEW t \in Slots, NEW op, NEW s, NEW pc, NEW e, NEW w,
         Call(t, op, s, pc, e, w),
         \/ op # "start" /\ task[t].op # "start"
         \/ op = task[t].op /\ s = task[t].sid
  PROVE  \A u \in Slots : /\ task'[u].op = "start" <=> task[u].op = "start"
                          /\ task[u].op = "start" => task'[u].sid = task[u].sid
  BY DEF TInv, TypeOK, Call

LEMMA GotoKeepsStarts ==
  ASSUME TInv, NEW t \in Slots, NEW pc, Goto(t, pc)
  PROVE  \A u \in Slots : /\ task'[u].op = "start" <=> task[u].op = "start"
                          /\ task[u].op = "start" => task'[u].sid = task[u].sid
  BY DEF TInv, TypeOK, Goto, TaskType

LEMMA ReturnKeepsStarts ==
  ASSUME TInv, NEW t \in Slots, Return(t), task[t].op # "start"
  PROVE  \A u \in Slots : /\ task'[u].op = "start" <=> task[u].op = "start"
                          /\ task[u].op = "start" => task'[u].sid = task[u].sid
  BY IdleTyped DEF TInv, TypeOK, Return

LEMMA ReturnFromEnds ==
  ASSUME TInv, OneStart, NEW t \in Slots, ReturnFrom(t)
  PROVE  OneStart'
  <1>1. CASE task[t].op # "start"
    BY <1>1, ReturnKeepsStarts, KeepsOneStart DEF ReturnFrom, KeepsStarts
  <1>2. CASE task[t].op = "start"
    <2>1. initializing' = initializing \ {task[t].sid} BY <1>2 DEF ReturnFrom
    <2>2. /\ task'[t].op # "start"
          /\ \A u \in Slots \ {t} : task'[u] = task[u]
      BY IdleTyped DEF ReturnFrom, Return, TInv, TypeOK
    <2>3. \A u \in Slots \ {t} :
            task[u].op = "start" => task[u].sid # task[t].sid
      BY <1>2 DEF OneStart
    <2>4. {task'[u].sid : u \in {v \in Slots : task'[v].op = "start"}}
            = {task[u].sid : u \in {v \in Slots : task[v].op = "start"}} \ {task[t].sid}
      BY <2>2, <2>3
    <2> QED BY <2>1, <2>2, <2>4 DEF OneStart
  <1> QED BY <1>1, <1>2

LEMMA StartBegins ==
  ASSUME TInv, OneStart, NEW t \in Slots, NEW s \in Sessions, Start(t, s)
  PROVE  OneStart'
  <1>1. initializing' = initializing \cup {s} /\ s \notin initializing
    BY DEF Start, Reservable
  <1>2. /\ task'[t].op = "start" /\ task'[t].sid = s
        /\ \A u \in Slots \ {t} : task'[u] = task[u]
    BY DEF Start, Call, TInv, TypeOK
  <1>3. task[t].op # "start" BY Fields DEF Start, Idle, At, InPlace
  <1>4. \A u \in Slots : task[u].op = "start" => task[u].sid # s
    BY <1>1 DEF OneStart
  <1>5. {task'[u].sid : u \in {v \in Slots : task'[v].op = "start"}}
          = {task[u].sid : u \in {v \in Slots : task[v].op = "start"}} \cup {s}
    BY <1>2, <1>3
  <1> QED BY <1>1, <1>2, <1>3, <1>4, <1>5 DEF OneStart

LEMMA Starts == TInv /\ OneStart /\ [Next]_vars => OneStart'
  <1> SUFFICES ASSUME TInv, OneStart, [Next]_vars PROVE OneStart' OBVIOUS
  <1>1. ASSUME NEW t \in Slots, NEW s \in Sessions, Start(t, s) PROVE OneStart'
    BY <1>1, StartBegins
  <1>2. ASSUME NEW t \in Slots, NEW s \in Sessions, Stop(t, s) PROVE OneStart'
    <2>1. KeepsStarts
      BY <1>2, CallKeepsStarts, Fields
      DEF Stop, Idle, Retiring, At, InPlace, KeepsStarts
    <2> QED BY <2>1, KeepsOneStart
  <1>3. ASSUME NEW t \in Slots, NEW s \in Sessions, Logout(t, s) PROVE OneStart'
    <2>1. KeepsStarts
      BY <1>3, CallKeepsStarts, Fields
      DEF Logout, Idle, Retiring, At, InPlace, KeepsStarts
    <2> QED BY <2>1, KeepsOneStart
  <1>4. ASSUME NEW t \in Slots, NEW s \in Sessions, ForceKill(t, s)
        PROVE  OneStart'
    <2>1. KeepsStarts
      BY <1>4, CallKeepsStarts, Fields
      DEF ForceKill, Idle, Retiring, At, InPlace, KeepsStarts
    <2> QED BY <2>1, KeepsOneStart
  <1>5. ASSUME NEW t \in Slots, NEW s \in Sessions, Delete(t, s) PROVE OneStart'
    <2>1. KeepsStarts
      BY <1>5, CallKeepsStarts, Fields
      DEF Delete, Idle, memory, At, InPlace, KeepsStarts
    <2> QED BY <2>1, KeepsOneStart
  <1>6. ASSUME NEW t \in Slots, NEW s \in Sessions, ImportData(t, s)
        PROVE  OneStart'
    <2>1. KeepsStarts
      BY <1>6, CallKeepsStarts, Fields
      DEF ImportData, Idle, StopOrphanEngines, At, InPlace, KeepsStarts
    <2> QED BY <2>1, KeepsOneStart
  <1>7. ASSUME NEW t \in Slots, NEW s \in Sessions, ReconnectTimer(t, s)
        PROVE  OneStart'
    <2>1. KeepsStarts
      BY <1>7, CallKeepsStarts, Fields
      DEF ReconnectTimer, Idle, At, InPlace, KeepsStarts
    <2> QED BY <2>1, KeepsOneStart
  <1>8. ASSUME NEW t \in Slots, NEW e \in Engines, Disconnected(t, e)
        PROVE  OneStart'
    <2>1. KeepsStarts
      BY <1>8, CallKeepsStarts, Fields
      DEF Disconnected, Idle, memory, At, InPlace, KeepsStarts
    <2> QED BY <2>1, KeepsOneStart
  <1>9. ASSUME NEW t \in Slots, NEW e \in Engines, Ready(t, e) PROVE OneStart'
    <2>1. KeepsStarts
      BY <1>9, CallKeepsStarts, Fields
      DEF Ready, Idle, memory, At, InPlace, KeepsStarts
    <2> QED BY <2>1, KeepsOneStart
  <1>10. ASSUME NEW t \in Slots, InitialStatusWritten(t) PROVE OneStart'
    <2>1. KeepsStarts
      BY <1>10, GotoKeepsStarts, CallKeepsStarts, Fields
      DEF InitialStatusWritten, At, ForgetPending, EngineReturned, Retire,
          InPlace, KeepsStarts
    <2> QED BY <2>1, KeepsOneStart
  <1>11. ASSUME NEW t \in Slots, EngineInitialized(t) PROVE OneStart'
    <2>1. KeepsStarts
      BY <1>11, GotoKeepsStarts, CallKeepsStarts, Fields
      DEF EngineInitialized, At, EngineReturned, memory, Retire, InPlace,
          KeepsStarts
    <2> QED BY <2>1, KeepsOneStart
  <1>12. ASSUME NEW t \in Slots, EngineInitTimeout(t) PROVE OneStart'
    <2>1. KeepsStarts
      BY <1>12, GotoKeepsStarts DEF EngineInitTimeout, At, KeepsStarts
    <2> QED BY <2>1, KeepsOneStart
  <1>13. ASSUME NEW t \in Slots, CheckRow(t) PROVE OneStart'
    <2>1. CASE ReturnFrom(t) BY <2>1, ReturnFromEnds
    <2>2. CASE Retire(t, task[t].sid) /\ UNCHANGED initializing
      <3>1. KeepsStarts
        BY <1>13, <2>2, CallKeepsStarts, GotoKeepsStarts
        DEF CheckRow, At, Retire, KeepsStarts
      <3> QED BY <3>1, KeepsOneStart
    <2> QED BY <1>13, <2>1, <2>2 DEF CheckRow
  <1>14. ASSUME NEW t \in Slots, ResurrectedDown(t) PROVE OneStart'
    <2>1. KeepsStarts
      BY <1>14, GotoKeepsStarts DEF ResurrectedDown, At, KeepsStarts
    <2> QED BY <2>1, KeepsOneStart
  <1>15. ASSUME NEW t \in Slots, PurgeCheck(t) PROVE OneStart'
    <2>1. CASE ReturnFrom(t) BY <2>1, ReturnFromEnds
    <2>2. CASE Goto(t, "repurge") /\ UNCHANGED initializing
      <3>1. KeepsStarts
        BY <1>15, <2>2, GotoKeepsStarts DEF PurgeCheck, At, KeepsStarts
      <3> QED BY <3>1, KeepsOneStart
    <2> QED BY <1>15, <2>1, <2>2 DEF PurgeCheck
  <1>16. ASSUME NEW t \in Slots, Repurge(t) PROVE OneStart'
    BY <1>16, ReturnFromEnds DEF Repurge
  <1>17. ASSUME NEW t \in Slots, StartChecks(t) PROVE OneStart'
    <2>1. CASE ReturnFrom(t) BY <2>1, ReturnFromEnds
    <2>2. CASE Call(t, "start", task[t].sid, "fence", NoEngine, Fence(task[t].sid))
               /\ UNCHANGED initializing
      <3>1. KeepsStarts
        BY <1>17, <2>2, CallKeepsStarts DEF StartChecks, At, KeepsStarts
      <3> QED BY <3>1, KeepsOneStart
    <2> QED BY <1>17, <2>1, <2>2 DEF StartChecks
  <1>18. ASSUME NEW t \in Slots, StartAccepted(t) PROVE OneStart'
    <2>1. KeepsStarts
      BY <1>18, GotoKeepsStarts DEF StartAccepted, At, KeepsStarts
    <2> QED BY <2>1, KeepsOneStart
  <1>19. ASSUME NEW t \in Slots, StartHookDone(t) PROVE OneStart'
    <2>1. KeepsStarts
      BY <1>19, CallKeepsStarts, Fields
      DEF StartHookDone, At, InitializeEngine, Free, InPlace, KeepsStarts
    <2> QED BY <2>1, KeepsOneStart
  <1>20. ASSUME NEW t \in Slots, StartFailed(t) PROVE OneStart'
    <2>1. CASE ReturnFrom(t) BY <2>1, ReturnFromEnds
    <2>2. CASE Goto(t, "writeFailed") /\ UNCHANGED initializing
      <3>1. KeepsStarts
        BY <1>20, <2>2, GotoKeepsStarts
        DEF StartFailed, At, ForgetPending, KeepsStarts
      <3> QED BY <3>1, KeepsOneStart
    <2> QED BY <1>20, <2>1, <2>2 DEF StartFailed
  <1>21. ASSUME NEW t \in Slots, StartFailedWritten(t) PROVE OneStart'
    BY <1>21, ReturnFromEnds DEF StartFailedWritten
  <1>22. ASSUME NEW t \in Slots, BeginTeardown(t) PROVE OneStart'
    <2>1. KeepsStarts
      BY <1>22, CallKeepsStarts, Fields
      DEF BeginTeardown, At, memory, InPlace, KeepsStarts
    <2> QED BY <2>1, KeepsOneStart
  <1>23. ASSUME NEW t \in Slots, TeardownDone(t) PROVE OneStart'
    <2>1. KeepsStarts
      BY <1>23, GotoKeepsStarts, CallKeepsStarts, Fields
      DEF TeardownDone, At, InPlace, KeepsStarts
    <2> QED BY <2>1, KeepsOneStart
  <1>24. ASSUME NEW t \in Slots, FinalStatusWritten(t) PROVE OneStart'
    <2>1. KeepsStarts
      BY <1>24, ReturnKeepsStarts, Fields
      DEF FinalStatusWritten, At, InPlace, KeepsStarts
    <2> QED BY <2>1, KeepsOneStart
  <1>25. ASSUME NEW t \in Slots, DeleteAccepted(t) PROVE OneStart'
    <2>1. KeepsStarts
      BY <1>25, CallKeepsStarts, Fields
      DEF DeleteAccepted, At, Retiring, InPlace, KeepsStarts
    <2> QED BY <2>1, KeepsOneStart
  <1>26. ASSUME NEW t \in Slots, DeleteFenced(t) PROVE OneStart'
    <2>1. KeepsStarts
      BY <1>26, GotoKeepsStarts DEF DeleteFenced, At, memory, KeepsStarts
    <2> QED BY <2>1, KeepsOneStart
  <1>27. ASSUME NEW t \in Slots, DeleteCommits(t) PROVE OneStart'
    <2>1. KeepsStarts
      BY <1>27, GotoKeepsStarts DEF DeleteCommits, At, memory, KeepsStarts
    <2> QED BY <2>1, KeepsOneStart
  <1>28. ASSUME NEW t \in Slots, DeleteFails(t) PROVE OneStart'
    <2>1. KeepsStarts
      BY <1>28, ReturnKeepsStarts, Fields
      DEF DeleteFails, At, InPlace, KeepsStarts
    <2> QED BY <2>1, KeepsOneStart
  <1>29. ASSUME NEW t \in Slots, DeletePurges(t) PROVE OneStart'
    <2>1. KeepsStarts
      BY <1>29, ReturnKeepsStarts, Fields
      DEF DeletePurges, At, InPlace, KeepsStarts
    <2> QED BY <2>1, KeepsOneStart
  <1>30. ASSUME NEW t \in Slots, ImportEnds(t) PROVE OneStart'
    <2>1. KeepsStarts
      BY <1>30, ReturnKeepsStarts, Fields
      DEF ImportEnds, At, memory, InPlace, KeepsStarts
    <2> QED BY <2>1, KeepsOneStart
  <1>31. ASSUME NEW t \in Slots, FenceTimeout(t) PROVE OneStart'
    <2>1. CASE ReturnFrom(t) BY <2>1, ReturnFromEnds
    <2>2. CASE Goto(t, "final") /\ UNCHANGED initializing
      <3>1. KeepsStarts
        BY <1>31, <2>2, GotoKeepsStarts DEF FenceTimeout, At, KeepsStarts
      <3> QED BY <3>1, KeepsOneStart
    <2> QED BY <1>31, <2>1, <2>2 DEF FenceTimeout
  <1>32. ASSUME NEW t \in Slots, Reconnects(t) PROVE OneStart'
    <2>1. KeepsStarts
      BY <1>32, CallKeepsStarts, Fields
      DEF Reconnects, At, InitializeEngine, Free, InPlace, KeepsStarts
    <2> QED BY <2>1, KeepsOneStart
  <1>33. ASSUME NEW t \in Slots, ReconnectFailed(t) PROVE OneStart'
    <2>1. KeepsStarts
      BY <1>33, ReturnKeepsStarts, Fields
      DEF ReconnectFailed, At, ForgetPending, InPlace, KeepsStarts
    <2> QED BY <2>1, KeepsOneStart
  <1>34. ASSUME NEW t \in Slots, HandleDisconnected(t) PROVE OneStart'
    <2>1. KeepsStarts
      BY <1>34, ReturnKeepsStarts, Fields
      DEF HandleDisconnected, At, InPlace, KeepsStarts
    <2> QED BY <2>1, KeepsOneStart
  <1>35. ASSUME NEW t \in Slots, FinalizeReady(t) PROVE OneStart'
    <2>1. KeepsStarts
      BY <1>35, ReturnKeepsStarts, Fields
      DEF FinalizeReady, At, InPlace, KeepsStarts
    <2> QED BY <2>1, KeepsOneStart
  <1>36. ASSUME NEW t \in Slots, RejectDuplicate(t) PROVE OneStart'
    <2>1. KeepsStarts
      BY <1>36, GotoKeepsStarts DEF RejectDuplicate, At, KeepsStarts
    <2> QED BY <2>1, KeepsOneStart
  <1>37. ASSUME NEW e \in Engines, EngineError(e) PROVE OneStart'
    <2>1. KeepsStarts
      BY <1>37 DEF EngineError, KeepsStarts
    <2> QED BY <2>1, KeepsOneStart
  <1>38. ASSUME NEW e \in Engines, RemoteLoggedOut(e) PROVE OneStart'
    <2>1. KeepsStarts
      BY <1>38 DEF RemoteLoggedOut, memory, KeepsStarts
    <2> QED BY <2>1, KeepsOneStart
  <1>39. ASSUME NEW e \in logouts, LogoutSettles(e) PROVE OneStart'
    <2>1. KeepsStarts
      BY <1>39 DEF LogoutSettles, memory, KeepsStarts
    <2> QED BY <2>1, KeepsOneStart
  <1>40. ASSUME NEW w \in late, LateWriteSettles(w) PROVE OneStart'
    <2>1. KeepsStarts
      BY <1>40 DEF LateWriteSettles, memory, KeepsStarts
    <2> QED BY <2>1, KeepsOneStart
  <1>41. ASSUME NEW s \in Sessions, Create(s) PROVE OneStart'
    <2>1. KeepsStarts
      BY <1>41 DEF Create, memory, KeepsStarts
    <2> QED BY <2>1, KeepsOneStart
  <1>42. ASSUME UNCHANGED vars PROVE OneStart'
    BY <1>42 DEF vars, OneStart
  <1>43. ASSUME NEW t \in Slots, ControlRejected(t) PROVE OneStart'
    <2>1. KeepsStarts
      BY <1>43, ReturnKeepsStarts, Fields
      DEF ControlRejected, At, InPlace, KeepsStarts
    <2> QED BY <2>1, KeepsOneStart
  <1> QED BY <1>1, <1>2, <1>3, <1>4, <1>5, <1>6, <1>7, <1>8, <1>9, <1>10, <1>11,
             <1>12, <1>13, <1>14, <1>15, <1>16, <1>17, <1>18, <1>19, <1>20,
             <1>21, <1>22, <1>23, <1>24, <1>25, <1>26, <1>27, <1>28, <1>29,
             <1>30, <1>31, <1>32, <1>33, <1>34, <1>35, <1>36, <1>37, <1>38,
             <1>39, <1>40, <1>41, <1>42, <1>43
          DEF Next, vars, Request, EngineEvent, Resume

(* The reservation start() takes before its first await admits one start   *)
(* per session, and is given back exactly when that start returns.         *)
THEOREM OneStartAtATime == Spec => []OneStart
  <1>1. Init => TInv /\ OneStart
    <2>1. Init => TInv BY Initially
    <2>2. Init => OneStart BY IdleTyped DEF Init, OneStart
    <2> QED BY <2>1, <2>2
  <1> QED BY <1>1, Typing, Starts, PTL DEF Spec
=============================================================================
