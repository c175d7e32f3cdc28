------------------------ MODULE SessionSafetyProofs -------------------------
(***************************************************************************)
(* What the registry, the persisted status and the auth directories can be *)
(* left with, on top of the typing and the ownership of engines: the slot  *)
(* of a session and the write of INITIALIZING; then, where the controls    *)
(* are not crossed by drops or imports, the registration of every socket,  *)
(* the finality of a stop and the safety of the credentials.               *)
(***************************************************************************)
EXTENDS SessionLifecycleProofs

-----------------------------------------------------------------------------
(* The slot of a session in the registry *)

(* An engine that was registered and not initialized has its creator at    *)
(* the write of INITIALIZING, and that call only.                          *)
CreatedHasWriter ==
  \A s \in Sessions :
    Registered(s) /\ phase[engines[s]] = "created"
      => \E u \in Slots : At(u, "initialStatus") /\ task[u].eng = engines[s]

SlotInv == NoWedgedSlot /\ CreatedHasWriter

(* After the step e serves, or is being torn down by a call that will take *)
(* it out of the registry.                                                 *)
Settled(e) ==
  \/ phase'[e] \in {"running", "unlinked"}
  \/ /\ phase'[e] = "closing"
     /\ \E t \in Slots : /\ task'[t].pc \in {"teardown", "resurrected"}
                         /\ task'[t].eng = e

(* What every step but the creation of an engine does to a slot: it is     *)
(* emptied, or keeps its engine, and either that engine is settled or      *)
(* neither it nor a call that tears it down or creates it moves.           *)
KeepsSlots ==
  \A s \in Sessions : Registered(s)' =>
    /\ engines'[s] = engines[s]
    /\ \/ Settled(engines[s])
       \/ /\ phase'[engines[s]] = phase[engines[s]]
          /\ \A t \in Slots :
               /\ task[t].pc \in {"teardown", "resurrected", "initialStatus"}
               /\ task[t].eng = engines[s]
               => task'[t] = task[t]

LEMMA KeepsSlotInv ==
  ASSUME SlotInv, KeepsSlots PROVE SlotInv'
  <1> SUFFICES ASSUME NEW s \in Sessions, Registered(s)'
               PROVE  /\ phase'[engines'[s]] = "closing" =>
                           \E t \in Slots :
                              /\ task'[t].pc \in {"teardown", "resurrected"}
                              /\ task'[t].eng = engines'[s]
                      /\ phase'[engines'[s]] = "created" =>
                           \E t \in Slots : /\ task'[t].pc = "initialStatus"
                                            /\ task'[t].eng = engines'[s]
    BY DEF SlotInv, NoWedgedSlot, CreatedHasWriter, At
  <1>1. engines'[s] = engines[s] /\ Registered(s) BY DEF KeepsSlots, Registered
  <1>2. CASE Settled(engines[s]) BY <1>1, <1>2 DEF Settled
  <1>3. CASE ~Settled(engines[s])
    <2>1. phase'[engines[s]] = phase[engines[s]] BY <1>3 DEF KeepsSlots
    <2>2. \A t \in Slots :
            /\ task[t].pc \in {"teardown", "resurrected", "initialStatus"}
            /\ task[t].eng = engines[s]
            => task'[t] = task[t]
      BY <1>3 DEF KeepsSlots
    <2>3. ASSUME phase'[engines[s]] = "closing"
          PROVE  \E t \in Slots : /\ task'[t].pc \in {"teardown", "resurrected"}
                                  /\ task'[t].eng = engines[s]
      BY <1>1, <2>1, <2>2, <2>3 DEF SlotInv, NoWedgedSlot
    <2>4. ASSUME phase'[engines[s]] = "created"
          PROVE  \E t \in Slots : /\ task'[t].pc = "initialStatus"
                                  /\ task'[t].eng = engines[s]
      BY <1>1, <2>1, <2>2, <2>4 DEF SlotInv, CreatedHasWriter, At
    <2> QED BY <1>1, <2>3, <2>4
  <1> QED BY <1>2, <1>3

LEMMA CreationSlots ==
  ASSUME TInv, OwnInv, SlotInv, NEW t \in Slots, At(t, "hook") \/ At(t, "fence"),
         InitializeEngine(t, task[t].sid)
  PROVE  SlotInv'
  <1>1. PICK e \in Free :
          /\ engines' = [engines EXCEPT ![task[t].sid] = e]
          /\ phase' = [phase EXCEPT ![e] = "created"]
          /\ Call(t, task[t].op, task[t].sid, "initialStatus", e, {})
    BY DEF InitializeEngine
  <1>2. task[t].sid \in Sessions BY Fields
  <1>3. e \in Engines /\ phase[e] = "free" BY <1>1 DEF Free
  <1>4. /\ task'[t].pc = "initialStatus" /\ task'[t].eng = e
        /\ \A u \in Slots \ {t} : task'[u] = task[u]
    BY <1>1 DEF Call, TInv, TypeOK
  <1> SUFFICES ASSUME NEW s \in Sessions, Registered(s)'
               PROVE  /\ phase'[engines'[s]] = "closing" =>
                           \E u \in Slots :
                              /\ task'[u].pc \in {"teardown", "resurrected"}
                              /\ task'[u].eng = engines'[s]
                      /\ phase'[engines'[s]] = "created" =>
                           \E u \in Slots : /\ task'[u].pc = "initialStatus"
                                            /\ task'[u].eng = engines'[s]
    BY DEF SlotInv, NoWedgedSlot, CreatedHasWriter, At
  <1>5. CASE s = task[t].sid
    <2>1. engines'[s] = e /\ phase'[e] = "created"
      BY <1>1, <1>3, <1>5 DEF TInv, TypeOK
    <2> QED BY <1>4, <2>1
  <1>6. CASE s # task[t].sid
    <2>1. engines'[s] = engines[s] /\ Registered(s)
      BY <1>1, <1>2, <1>6 DEF TInv, TypeOK, Registered
    <2>2. phase'[engines[s]] = phase[engines[s]]
      BY <1>1, <1>3, <2>1, FenceTyped DEF OwnInv, RegisteredOwned, TInv, TypeOK
    <2>3. ASSUME phase'[engines'[s]] = "closing"
          PROVE  \E u \in Slots : /\ task'[u].pc \in {"teardown", "resurrected"}
                                  /\ task'[u].eng = engines'[s]
      <3>1. PICK u \in Slots : /\ task[u].pc \in {"teardown", "resurrected"}
                               /\ task[u].eng = engines[s]
        BY <2>1, <2>2, <2>3 DEF SlotInv, NoWedgedSlot
      <3>2. u # t BY <3>1 DEF At
      <3> QED BY <1>4, <2>1, <3>1, <3>2
    <2>4. ASSUME phase'[engines'[s]] = "created"
          PROVE  \E u \in Slots : /\ task'[u].pc = "initialStatus"
                                  /\ task'[u].eng = engines'[s]
      <3>1. PICK u \in Slots : /\ task[u].pc = "initialStatus"
                               /\ task[u].eng = engines[s]
        BY <2>1, <2>2, <2>4 DEF SlotInv, CreatedHasWriter, At
      <3>2. u # t BY <3>1 DEF At
      <3> QED BY <1>4, <2>1, <3>1, <3>2
    <2> QED BY <2>3, <2>4
  <1> QED BY <1>5, <1>6

LEMMA CallMoves ==
  ASSUME TInv, NEW t \in Slots, NEW op, NEW s, NEW pc, NEW e, NEW w,
         Call(t, op, s, pc, e, w)
  PROVE  /\ task'[t].op = op /\ task'[t].sid = s
         /\ task'[t].pc = pc /\ task'[t].eng = e /\ task'[t].wait = w
         /\ \A u \in Slots \ {t} : task'[u] = task[u]
  BY DEF TInv, TypeOK, Call

LEMMA GotoMoves ==
  ASSUME TInv, NEW t \in Slots, NEW pc, Goto(t, pc)
  PROVE  /\ task'[t].op = task[t].op /\ task'[t].sid = task[t].sid
         /\ task'[t].pc = pc /\ task'[t].eng = task[t].eng
         /\ task'[t].wait = task[t].wait
         /\ \A u \in Slots \ {t} : task'[u] = task[u]
  BY DEF TInv, TypeOK, Goto, TaskType

LEMMA ReturnMoves ==
  ASSUME TInv, NEW t \in Slots, Return(t)
  PROVE  /\ task'[t].pc = "idle" /\ task'[t].eng = NoEngine
         /\ \A u \in Slots \ {t} : task'[u] = task[u]
  BY IdleTyped DEF TInv, TypeOK, Return

LEMMA TearDownClosing ==
  ASSUME TInv, NEW e \in Engines, TearDown(e)
  PROVE  /\ phase'[e] = "closing"
         /\ \A f \in Engines : f # e => phase'[f] = phase[f]
  BY DEF TInv, TypeOK, TearDown

(* The registry is injective. *)
LEMMA OneSlot ==
  ASSUME TInv, OwnInv, NEW r \in Sessions, NEW s \in Sessions,
         Registered(r), engines[r] = engines[s]
  PROVE  r = s
  BY DEF OwnInv, RegisteredOwned, Registered

LEMMA CapturedSlot ==
  ASSUME TInv, OwnInv, NEW t \in Slots, NEW s \in Sessions,
         Registered(s), engines[s] = task[t].eng
  PROVE  s = task[t].sid
  BY DEF OwnInv, RegisteredOwned, CapturedOwned, Registered

LEMMA EvictSlots ==
  ASSUME TInv, OwnInv, NEW s \in Sessions, Evict(s)
  PROVE  /\ ~Registered(s)'
         /\ \A r \in Sessions : Registered(r)' =>
              engines'[r] = engines[r] /\ phase'[engines[r]] = phase[engines[r]]
  <1>1. CASE Registered(s)
    <2>1. engines[s] \in Engines BY <1>1, FenceTyped
    <2>2. /\ engines' = [engines EXCEPT ![s] = NoEngine]
          /\ \A f \in Engines : f # engines[s] => phase'[f] = phase[f]
      BY <1>1, <2>1, TearDownClosing DEF Evict
    <2>3. ASSUME NEW r \in Sessions, Registered(r)'
          PROVE  /\ r # s
                 /\ engines'[r] = engines[r] /\ phase'[engines[r]] = phase[engines[r]]
      <3>1. r # s /\ engines'[r] = engines[r]
        BY <2>2, <2>3 DEF TInv, TypeOK, Registered
      <3>2. Registered(r) BY <2>3, <3>1 DEF Registered
      <3>3. engines[r] # engines[s] BY <3>1, <3>2, OneSlot
      <3>4. engines[r] \in Engines BY <3>2, FenceTyped
      <3> QED BY <2>2, <3>1, <3>3, <3>4
    <2> QED BY <2>3
  <1>2. CASE ~Registered(s) BY <1>2 DEF Evict, Registered
  <1> QED BY <1>1, <1>2

LEMMA DeleteIfLiveSlots ==
  ASSUME TInv, OwnInv, NEW t \in Slots, task[t].eng # NoEngine,
         DeleteIfLive(task[t].sid, task[t].eng)
  PROVE  \A r \in Sessions : Registered(r)' =>
           engines'[r] = engines[r] /\ engines[r] # task[t].eng
  <1> SUFFICES ASSUME NEW r \in Sessions, Registered(r)'
               PROVE  engines'[r] = engines[r] /\ engines[r] # task[t].eng
    OBVIOUS
  <1>1. task[t].sid \in Sessions BY Fields
  <1>2. engines'[r] = engines[r] /\ Registered(r)
    BY <1>1 DEF DeleteIfLive, TInv, TypeOK, Registered
  <1>3. ASSUME engines[r] = task[t].eng PROVE FALSE
    <2>1. r = task[t].sid BY <1>2, <1>3, CapturedSlot
    <2>2. engines'[r] = NoEngine
      BY <1>1, <1>3, <2>1 DEF DeleteIfLive, IsLive, TInv, TypeOK
    <2> QED BY <2>2 DEF Registered
  <1> QED BY <1>2, <1>3

LEMMA ScheduleSlots ==
  ASSUME TInv, OwnInv, NEW s \in Sessions, NEW issued, NEW reap,
         ScheduleReconnect(s, issued, reap)
  PROVE  \A r \in Sessions : Registered(r)' =>
           engines'[r] = engines[r] /\ phase'[engines[r]] = phase[engines[r]]
  <1>1. Evict(s) \/ UNCHANGED <<phase, engines>> BY DEF ScheduleReconnect
  <1> QED BY <1>1, EvictSlots DEF Registered

LEMMA SlotsKept ==
  TInv /\ TInv' /\ OwnInv /\ SlotInv /\ [Next]_vars => SlotInv'
  <1> SUFFICES ASSUME TInv, TInv', OwnInv, SlotInv, [Next]_vars PROVE SlotInv'
    OBVIOUS
  <1>1. ASSUME NEW t \in Slots, NEW s \in Sessions, Start(t, s) PROVE SlotInv'
    <2>1. KeepsSlots
      BY <1>1, CallMoves, Fields
      DEF Start, Idle, world, At, InPlace, Registered, KeepsSlots, Settled
    <2> QED BY <2>1, KeepsSlotInv
  <1>2. ASSUME NEW t \in Slots, NEW s \in Sessions, Stop(t, s) PROVE SlotInv'
    <2>1. KeepsSlots
      BY <1>2, CallMoves, Fields
      DEF Stop, Idle, Retiring, world, At, Registered, InPlace, KeepsSlots,
          Settled
    <2> QED BY <2>1, KeepsSlotInv
  <1>3. ASSUME NEW t \in Slots, NEW s \in Sessions, Logout(t, s) PROVE SlotInv'
    <2>1. KeepsSlots
      BY <1>3, CallMoves, Fields
      DEF Logout, Idle, Registered, Retiring, world, At, InPlace, KeepsSlots,
          Settled
    <2> QED BY <2>1, KeepsSlotInv
  <1>4. ASSUME NEW t \in Slots, NEW s \in Sessions, ForceKill(t, s)
        PROVE  SlotInv'
    <2>1. KeepsSlots
      BY <1>4, CallMoves, Fields
      DEF ForceKill, Idle, Registered, Retiring, world, At, InPlace, KeepsSlots,
          Settled
    <2> QED BY <2>1, KeepsSlotInv
  <1>5. ASSUME NEW t \in Slots, NEW s \in Sessions, Delete(t, s) PROVE SlotInv'
    <2>1. KeepsSlots
      BY <1>5, CallMoves, Fields
      DEF Delete, Idle, memory, world, At, InPlace, Registered, KeepsSlots,
          Settled
    <2> QED BY <2>1, KeepsSlotInv
  <1>6. ASSUME NEW t \in Slots, NEW s \in Sessions, ImportData(t, s)
        PROVE  SlotInv'
    <2>1. KeepsSlots
      BY <1>6, CallMoves, TearDownClosing, Fields, FenceTyped, OneSlot
      DEF ImportData, Idle, StopOrphanEngines, At, Registered, InPlace,
          KeepsSlots, Settled, EngineOrNone
    <2> QED BY <2>1, KeepsSlotInv
  <1>7. ASSUME NEW t \in Slots, NEW s \in Sessions, ReconnectTimer(t, s)
        PROVE  SlotInv'
    <2>1. KeepsSlots
      BY <1>7, TearDownClosing, CallMoves, Fields, FenceTyped, OneSlot
      DEF ReconnectTimer, Idle, Registered, At, InPlace, KeepsSlots, Settled,
          EngineOrNone
    <2> QED BY <2>1, KeepsSlotInv
  <1>8. ASSUME NEW t \in Slots, NEW e \in Engines, Disconnected(t, e)
        PROVE  SlotInv'
    <2>1. KeepsSlots
      BY <1>8, CallMoves, Fields
      DEF Disconnected, Idle, IsLive, memory, world, At, InPlace, Registered,
          KeepsSlots, Settled
    <2> QED BY <2>1, KeepsSlotInv
  <1>9. ASSUME NEW t \in Slots, NEW e \in Engines, Ready(t, e) PROVE SlotInv'
    <2>1. KeepsSlots
      BY <1>9, CallMoves, Fields
      DEF Ready, Idle, IsLive, memory, world, At, InPlace, Registered,
          KeepsSlots, Settled
    <2> QED BY <2>1, KeepsSlotInv
  <1>10. ASSUME NEW t \in Slots, InitialStatusWritten(t) PROVE SlotInv'
    <2>0. task[t].eng \in Engines /\ task[t].sid \in Sessions
      BY <1>10, Fields DEF InitialStatusWritten, At, InPlace, EngineOrNone
    <2>1. CASE /\ phase' = [phase EXCEPT ![task[t].eng] = "running"]
               /\ Goto(t, "initialize")
      <3>1. KeepsSlots
        BY <1>10, <2>0, <2>1, GotoMoves
        DEF InitialStatusWritten, KeepsSlots, Settled, Registered, At, TInv, TypeOK
      <3> QED BY <3>1, KeepsSlotInv
    <2>2. CASE ~MayInitialize(task[t].sid, task[t].eng) /\ Registered(task[t].sid)
               /\ task[t].sid \in stopping
      <3>1. /\ TearDown(engines[task[t].sid])
            /\ task'[t].pc = "resurrected" /\ task'[t].eng = engines[task[t].sid]
            /\ \A u \in Slots \ {t} : task'[u] = task[u]
        BY <1>10, <2>2, CallMoves
        DEF InitialStatusWritten, EngineReturned, Retire
      <3>2. Settled(engines[task[t].sid])
        BY <2>0, <2>2, <3>1, FenceTyped, TearDownClosing DEF Settled
      <3>3. ASSUME NEW s \in Sessions, Registered(s)', s # task[t].sid
            PROVE  /\ phase'[engines[s]] = phase[engines[s]]
                   /\ engines[s] # task[t].eng
        <4>1. Registered(s) BY <1>10, <3>3 DEF InitialStatusWritten, Registered
        <4>2. engines[s] # task[t].eng BY <3>3, <4>1, CapturedSlot
        <4>3. engines[s] # engines[task[t].sid] BY <2>0, <3>3, <4>1, OneSlot
        <4> QED BY <2>0, <2>2, <3>1, <4>1, <4>2, <4>3, FenceTyped,
                   TearDownClosing
      <3>4. KeepsSlots
        BY <1>10, <3>1, <3>2, <3>3 DEF InitialStatusWritten, KeepsSlots
      <3> QED BY <3>4, KeepsSlotInv
    <2>3. CASE /\ ~MayInitialize(task[t].sid, task[t].eng) /\ UNCHANGED phase
               /\ ~(Registered(task[t].sid) /\ task[t].sid \in stopping)
               /\ \A u \in Slots \ {t} : task'[u] = task[u]
      <3>1. \A s \in Sessions : Registered(s) => engines[s] # task[t].eng
        BY <2>0, <2>3, CapturedSlot DEF MayInitialize, IsLive, Registered
      <3>2. KeepsSlots
        BY <1>10, <2>3, <3>1 DEF InitialStatusWritten, KeepsSlots, Registered
      <3> QED BY <3>2, KeepsSlotInv
    <2> QED BY <1>10, <2>1, <2>2, <2>3, GotoMoves
      DEF InitialStatusWritten, EngineReturned, Retire
  <1>11. ASSUME NEW t \in Slots, EngineInitialized(t) PROVE SlotInv'
    <2>1. KeepsSlots
      BY <1>11, GotoMoves, TearDownClosing, CallMoves, Fields, FenceTyped,
         OneSlot
      DEF EngineInitialized, At, EngineReturned, memory, Retire, Registered,
          InPlace, KeepsSlots, Settled, EngineOrNone
    <2> QED BY <2>1, KeepsSlotInv
  <1>12. ASSUME NEW t \in Slots, EngineInitTimeout(t) PROVE SlotInv'
    <2>1. task[t].eng \in Engines /\ task[t].sid \in Sessions
      BY <1>12, Fields DEF EngineInitTimeout, At, InPlace, EngineOrNone
    <2>2. ASSUME NEW s \in Sessions, Registered(s)'
          PROVE  /\ engines'[s] = engines[s] /\ engines[s] # task[t].eng
                 /\ engines[s] \in Engines
      <3>1. s # task[t].sid /\ engines'[s] = engines[s]
        BY <1>12, <2>1, <2>2 DEF EngineInitTimeout, Registered, TInv, TypeOK
      <3>2. Registered(s) BY <2>2, <3>1 DEF Registered
      <3> QED BY <3>1, <3>2, CapturedSlot, FenceTyped
    <2>3. KeepsSlots
      BY <1>12, <2>1, <2>2, TearDownClosing, GotoMoves
      DEF EngineInitTimeout, At, KeepsSlots
    <2> QED BY <2>3, KeepsSlotInv
  <1>13. ASSUME NEW t \in Slots, CheckRow(t) PROVE SlotInv'
    <2>1. KeepsSlots
      BY <1>13, ReturnMoves, TearDownClosing, CallMoves, GotoMoves, Fields,
         FenceTyped, OneSlot
      DEF CheckRow, At, ReturnFrom, Retire, Registered, InPlace, KeepsSlots,
          Settled, EngineOrNone
    <2> QED BY <2>1, KeepsSlotInv
  <1>14. ASSUME NEW t \in Slots, ResurrectedDown(t) PROVE SlotInv'
    <2>1. KeepsSlots
      BY <1>14, DeleteIfLiveSlots, GotoMoves, Fields
      DEF ResurrectedDown, At, world, InPlace, Registered, KeepsSlots, Settled
    <2> QED BY <2>1, KeepsSlotInv
  <1>15. ASSUME NEW t \in Slots, PurgeCheck(t) PROVE SlotInv'
    <2>1. KeepsSlots
      BY <1>15, GotoMoves, ReturnMoves, Fields
      DEF PurgeCheck, At, ReturnFrom, world, InPlace, Registered, KeepsSlots,
          Settled
    <2> QED BY <2>1, KeepsSlotInv
  <1>16. ASSUME NEW t \in Slots, Repurge(t) PROVE SlotInv'
    <2>1. KeepsSlots
      BY <1>16, ReturnMoves, Fields
      DEF Repurge, At, ReturnFrom, InPlace, Registered, KeepsSlots, Settled
    <2> QED BY <2>1, KeepsSlotInv
  <1>17. ASSUME NEW t \in Slots, StartChecks(t) PROVE SlotInv'
    <2>1. KeepsSlots
      BY <1>17, CallMoves, ReturnMoves, Fields
      DEF StartChecks, At, Registered, ReturnFrom, world, InPlace, KeepsSlots,
          Settled
    <2> QED BY <2>1, KeepsSlotInv
  <1>18. ASSUME NEW t \in Slots, StartAccepted(t) PROVE SlotInv'
    <2>1. KeepsSlots
      BY <1>18, GotoMoves, Fields
      DEF StartAccepted, At, world, InPlace, Registered, KeepsSlots, Settled
    <2> QED BY <2>1, KeepsSlotInv
  <1>19. ASSUME NEW t \in Slots, StartHookDone(t) PROVE SlotInv'
    BY <1>19, CreationSlots DEF StartHookDone
  <1>20. ASSUME NEW t \in Slots, StartFailed(t) PROVE SlotInv'
    <2>1. Evict(task[t].sid) BY <1>20 DEF StartFailed
    <2>2. ASSUME NEW s \in Sessions, Registered(s)'
          PROVE  /\ engines'[s] = engines[s] /\ phase'[engines[s]] = phase[engines[s]]
                 /\ engines[s] # task[t].eng
      <3>1. /\ engines'[s] = engines[s] /\ phase'[engines[s]] = phase[engines[s]]
            /\ s # task[t].sid
        BY <2>1, <2>2, Fields, EvictSlots
      <3>2. Registered(s) BY <2>2, <3>1 DEF Registered
      <3> QED BY <3>1, <3>2, CapturedSlot
    <2>3. \A u \in Slots \ {t} : task'[u] = task[u]
      BY <1>20, GotoMoves, ReturnMoves DEF StartFailed, ReturnFrom
    <2>4. KeepsSlots BY <2>2, <2>3 DEF KeepsSlots
    <2> QED BY <2>4, KeepsSlotInv
  <1>21. ASSUME NEW t \in Slots, StartFailedWritten(t) PROVE SlotInv'
    <2>1. KeepsSlots
      BY <1>21, ReturnMoves, Fields
      DEF StartFailedWritten, At, ReturnFrom, world, InPlace, Registered,
          KeepsSlots, Settled
    <2> QED BY <2>1, KeepsSlotInv
  <1>22. ASSUME NEW t \in Slots, BeginTeardown(t) PROVE SlotInv'
    <2>1. KeepsSlots
      BY <1>22, TearDownClosing, CallMoves, Fields, FenceTyped, OneSlot,
         CapturedSlot
      DEF BeginTeardown, At, memory, InPlace, Registered, KeepsSlots, Settled,
          EngineOrNone
    <2> QED BY <2>1, KeepsSlotInv
  <1>23. ASSUME NEW t \in Slots, TeardownDone(t) PROVE SlotInv'
    <2>1. KeepsSlots
      BY <1>23, DeleteIfLiveSlots, GotoMoves, CallMoves, Fields
      DEF TeardownDone, At, world, InPlace, Registered, KeepsSlots, Settled
    <2> QED BY <2>1, KeepsSlotInv
  <1>24. ASSUME NEW t \in Slots, FinalStatusWritten(t) PROVE SlotInv'
    <2>1. KeepsSlots
      BY <1>24, ReturnMoves, Fields
      DEF FinalStatusWritten, At, world, InPlace, Registered, KeepsSlots,
          Settled
    <2> QED BY <2>1, KeepsSlotInv
  <1>25. ASSUME NEW t \in Slots, DeleteAccepted(t) PROVE SlotInv'
    <2>1. KeepsSlots
      BY <1>25, CallMoves, Fields
      DEF DeleteAccepted, At, Retiring, world, Registered, InPlace, KeepsSlots,
          Settled
    <2> QED BY <2>1, KeepsSlotInv
  <1>26. ASSUME NEW t \in Slots, DeleteFenced(t) PROVE SlotInv'
    <2>1. KeepsSlots
      BY <1>26, GotoMoves, Fields
      DEF DeleteFenced, At, memory, world, InPlace, Registered, KeepsSlots,
          Settled
    <2> QED BY <2>1, KeepsSlotInv
  <1>27. ASSUME NEW t \in Slots, DeleteCommits(t) PROVE SlotInv'
    <2>1. KeepsSlots
      BY <1>27, GotoMoves, Fields
      DEF DeleteCommits, At, memory, world, InPlace, Registered, KeepsSlots,
          Settled
    <2> QED BY <2>1, KeepsSlotInv
  <1>28. ASSUME NEW t \in Slots, DeleteFails(t) PROVE SlotInv'
    <2>1. KeepsSlots
      BY <1>28, ReturnMoves, Fields
      DEF DeleteFails, At, world, InPlace, Registered, KeepsSlots, Settled
    <2> QED BY <2>1, KeepsSlotInv
  <1>29. ASSUME NEW t \in Slots, DeletePurges(t) PROVE SlotInv'
    <2>1. KeepsSlots
      BY <1>29, ReturnMoves, Fields
      DEF DeletePurges, At, InPlace, Registered, KeepsSlots, Settled
    <2> QED BY <2>1, KeepsSlotInv
  <1>30. ASSUME NEW t \in Slots, ImportEnds(t) PROVE SlotInv'
    <2>1. KeepsSlots
      BY <1>30, ReturnMoves, Fields
      DEF ImportEnds, At, memory, world, InPlace, Registered, KeepsSlots,
          Settled
    <2> QED BY <2>1, KeepsSlotInv
  <1>31. ASSUME NEW t \in Slots, FenceTimeout(t) PROVE SlotInv'
    <2>1. KeepsSlots
      BY <1>31, GotoMoves, ReturnMoves, Fields
      DEF FenceTimeout, At, ReturnFrom, world, InPlace, Registered, KeepsSlots,
          Settled
    <2> QED BY <2>1, KeepsSlotInv
  <1>32. ASSUME NEW t \in Slots, Reconnects(t) PROVE SlotInv'
    BY <1>32, CreationSlots DEF Reconnects
  <1>33. ASSUME NEW t \in Slots, ReconnectFailed(t) PROVE SlotInv'
    <2>1. Evict(task[t].sid)
      BY <1>33 DEF ReconnectFailed, ScheduleReconnect
    <2>2. ASSUME NEW s \in Sessions, Registered(s)'
          PROVE  /\ engines'[s] = engines[s] /\ phase'[engines[s]] = phase[engines[s]]
                 /\ task[t].pc \in {"teardown", "resurrected", "initialStatus"}
                      => engines[s] # task[t].eng
      <3>1. /\ engines'[s] = engines[s] /\ phase'[engines[s]] = phase[engines[s]]
            /\ s # task[t].sid
        BY <2>1, <2>2, Fields, EvictSlots
      <3>2. Registered(s) BY <2>2, <3>1 DEF Registered
      <3> QED BY <3>1, <3>2, CapturedSlot
    <2>3. \A u \in Slots \ {t} : task'[u] = task[u]
      BY <1>33, ReturnMoves DEF ReconnectFailed
    <2>4. KeepsSlots BY <2>1, <2>2, <2>3 DEF KeepsSlots
    <2> QED BY <2>4, KeepsSlotInv
  <1>34. ASSUME NEW t \in Slots, HandleDisconnected(t) PROVE SlotInv'
    <2>1. task[t].pc \notin {"teardown", "resurrected", "initialStatus"}
      BY <1>34 DEF HandleDisconnected, At
    <2>2. \A s \in Sessions : Registered(s)' =>
            engines'[s] = engines[s] /\ phase'[engines[s]] = phase[engines[s]]
      <3>1. CASE ScheduleReconnect(task[t].sid, {Write(task[t].sid, "DISCONNECTED")}, FALSE)
        BY <3>1, Fields, ScheduleSlots
      <3>2. CASE UNCHANGED <<engines, phase>> BY <3>2
      <3> QED BY <1>34, <3>1, <3>2 DEF HandleDisconnected
    <2>3. \A u \in Slots \ {t} : task'[u] = task[u]
      BY <1>34, ReturnMoves DEF HandleDisconnected
    <2>4. KeepsSlots BY <2>1, <2>2, <2>3 DEF KeepsSlots
    <2> QED BY <2>4, KeepsSlotInv
  <1>35. ASSUME NEW t \in Slots, FinalizeReady(t) PROVE SlotInv'
    <2>1. KeepsSlots
      BY <1>35, ReturnMoves, Fields
      DEF FinalizeReady, At, IsLive, world, InPlace, Registered, KeepsSlots,
          Settled
    <2> QED BY <2>1, KeepsSlotInv
  <1>36. ASSUME NEW t \in Slots, RejectDuplicate(t) PROVE SlotInv'
    <2>1. KeepsSlots
      BY <1>36, TearDownClosing, GotoMoves, Fields, FenceTyped, OneSlot,
         CapturedSlot
      DEF RejectDuplicate, At, InPlace, Registered, KeepsSlots, Settled,
          EngineOrNone
    <2> QED BY <2>1, KeepsSlotInv
  <1>37. ASSUME NEW e \in Engines, EngineError(e) PROVE SlotInv'
    <2>1. KeepsSlots
      BY <1>37, OwnerTyped, EvictSlots DEF EngineError, KeepsSlots
    <2> QED BY <2>1, KeepsSlotInv
  <1>38. ASSUME NEW e \in Engines, RemoteLoggedOut(e) PROVE SlotInv'
    <2>1. KeepsSlots
      BY <1>38, Fields
      DEF RemoteLoggedOut, memory, InPlace, Registered, At, KeepsSlots, Settled
    <2> QED BY <2>1, KeepsSlotInv
  <1>39. ASSUME NEW e \in logouts, LogoutSettles(e) PROVE SlotInv'
    <2>1. KeepsSlots
      BY <1>39, Fields
      DEF LogoutSettles, memory, InPlace, Registered, At, KeepsSlots, Settled
    <2> QED BY <2>1, KeepsSlotInv
  <1>40. ASSUME NEW w \in late, LateWriteSettles(w) PROVE SlotInv'
    <2>1. KeepsSlots
      BY <1>40, Fields
      DEF LateWriteSettles, memory, world, InPlace, Registered, At, KeepsSlots,
          Settled
    <2> QED BY <2>1, KeepsSlotInv
  <1>41. ASSUME NEW s \in Sessions, Create(s) PROVE SlotInv'
    <2>1. KeepsSlots
      BY <1>41, Fields
      DEF Create, memory, world, InPlace, Registered, At, KeepsSlots, Settled
    <2> QED BY <2>1, KeepsSlotInv
  <1>42. ASSUME UNCHANGED vars PROVE SlotInv'
    BY <1>42 DEF vars, SlotInv, NoWedgedSlot, CreatedHasWriter, Registered, At
  <1>43. ASSUME NEW t \in Slots, ControlRejected(t) PROVE SlotInv'
    <2>1. KeepsSlots
      BY <1>43, ReturnMoves, Fields
      DEF ControlRejected, At, InPlace, Registered, KeepsSlots, Settled
    <2> QED BY <2>1, KeepsSlotInv
  <1> QED BY <1>1, <1>2, <1>3, <1>4, <1>5, <1>6, <1>7, <1>8, <1>9, <1>10, <1>11,
             <1>12, <1>13, <1>14, <1>15, <1>16, <1>17, <1>18, <1>19, <1>20,
             <1>21, <1>22, <1>23, <1>24, <1>25, <1>26, <1>27, <1>28, <1>29,
             <1>30, <1>31, <1>32, <1>33, <1>34, <1>35, <1>36, <1>37, <1>38,
             <1>39, <1>40, <1>41, <1>42, <1>43
          DEF Next, vars, Request, EngineEvent, Resume

SafeInv == TInv /\ OwnInv /\ SlotInv

LEMMA SafeInitially == Init => SafeInv
  <1>1. Init => TInv BY Initially
  <1>2. Init => OwnInv /\ SlotInv
    BY IdleTyped
    DEF Init, OwnInv, CapturedOwned, RegisteredOwned, SlotInv, NoWedgedSlot,
        CreatedHasWriter, Registered
  <1> QED BY <1>1, <1>2 DEF SafeInv

LEMMA SafeStep == SafeInv /\ [Next]_vars => SafeInv'
  BY Typing, Ownership, SlotsKept DEF SafeInv

LEMMA SafeInvHolds == Spec => []SafeInv
  BY SafeInitially, SafeStep, PTL DEF Spec

(* No dead engine wedges a session: while the registry holds an engine     *)
(* under teardown, a suspended call is there to take it out.               *)
THEOREM NoSlotWedges == Spec => []NoWedgedSlot
  <1>1. SafeInv => NoWedgedSlot BY DEF SafeInv, SlotInv
  <1> QED BY <1>1, SafeInvHolds, PTL

(* A session with nothing in flight that still holds an engine holds one   *)
(* that was initialized and not torn down.                                 *)
THEOREM QuietSessionsServe == Spec => []QuietServes
  <1>1. SafeInv => QuietServes
    <2> SUFFICES ASSUME SafeInv, NEW s \in Sessions, Quiet(s), Registered(s)
                 PROVE  Serving(engines[s])
      BY DEF QuietServes
    <2>1. /\ engines[s] \in Engines /\ owner[engines[s]] = s
          /\ phase[engines[s]] \in Phases \ {"free"}
      BY FenceTyped DEF SafeInv, OwnInv, RegisteredOwned, TInv, TypeOK
    <2>2. ASSUME NEW t \in Slots, task[t].eng = engines[s] PROVE At(t, "idle")
      BY <2>1, <2>2, CapturedSlot DEF SafeInv, Quiet, Idle
    <2>3. phase[engines[s]] # "closing"
      BY <2>2 DEF SafeInv, SlotInv, NoWedgedSlot, At
    <2>4. phase[engines[s]] # "created"
      BY <2>2 DEF SafeInv, SlotInv, CreatedHasWriter, At
    <2> QED BY <2>1, <2>3, <2>4 DEF Serving, Phases
  <1> QED BY <1>1, SafeInvHolds, PTL

-----------------------------------------------------------------------------
(* The write of INITIALIZING *)

(* One call at the write of an engine. *)
OneWriter ==
  \A u, v \in Slots :
    At(u, "initialStatus") /\ At(v, "initialStatus")
      /\ task[u].eng = task[v].eng => u = v

(* The write of a registered engine is in pendingInitialStatuses, and a    *)
(* control that captured the engine waits for it.                          *)
WriteTracked ==
  \A u \in Slots :
    At(u, "initialStatus") /\ engines[task[u].sid] = task[u].eng
      => pendingInitial[task[u].sid] = task[u].eng

WriteAwaited ==
  \A t, u \in Slots :
    At(t, "awaitInitial") /\ At(u, "initialStatus")
      /\ task[u].eng = task[t].eng => task[u].eng \in task[t].wait

WriteInv == OneWriter /\ WriteTracked /\ WriteAwaited /\ RetiredWriteSettled

(* A control past its wait, that holds the engine it waited for.           *)
Retired(k) ==
  /\ k.op \in {"stop", "logout", "kill", "delete"}
  /\ k.pc \in {"teardown", "final", "fence2", "hook"}
  /\ k.eng # NoEngine

(* What every step but the creation of an engine does to the writes: no    *)
(* call gets to one or loses its promise, a control begins to wait for     *)
(* the promise of the registered engine, and goes on once it settled.      *)
KeepsWrites ==
  /\ \A s \in Sessions : engines'[s] \in {engines[s], NoEngine}
  /\ \A u \in Slots : task'[u].pc = "initialStatus" =>
       /\ task'[u] = task[u]
       /\ \/ pendingInitial'[task[u].sid] = pendingInitial[task[u].sid]
          \/ pendingInitial[task[u].sid] # task[u].eng
  /\ \A t \in Slots : task'[t].pc = "awaitInitial" =>
       \/ task'[t] = task[t]
       \/ /\ task'[t].sid \in Sessions /\ Registered(task'[t].sid)
          /\ task'[t].eng = engines[task'[t].sid]
          /\ task'[t].wait = PendingWrite(task'[t].sid)
  /\ \A t \in Slots : Retired(task'[t]) =>
       /\ task'[t].eng = task[t].eng
       /\ Retired(task[t]) \/ (At(t, "awaitInitial") /\ InitialStatusSettled(t))

LEMMA KeepsWriteInv ==
  ASSUME "slow" \notin Ops, TInv, OwnInv, WriteInv, KeepsWrites
  PROVE  WriteInv'
  <1>1. \A u \in Slots : task'[u].pc = "initialStatus" => task'[u] = task[u]
    BY DEF KeepsWrites
  <1>2. OneWriter' BY <1>1 DEF WriteInv, OneWriter, At
  <1>3. WriteTracked'
    <2> SUFFICES ASSUME NEW u \in Slots, task'[u].pc = "initialStatus",
                        engines'[task'[u].sid] = task'[u].eng
                 PROVE  pendingInitial'[task'[u].sid] = task'[u].eng
      BY DEF WriteTracked, At
    <2>1. task'[u] = task[u] BY <1>1
    <2>2. task[u].sid \in Sessions /\ task[u].eng # NoEngine
      BY <2>1, Fields DEF InPlace
    <2>3. engines[task[u].sid] = task[u].eng BY <2>1, <2>2 DEF KeepsWrites
    <2>4. pendingInitial[task[u].sid] = task[u].eng
      BY <2>1, <2>3 DEF WriteInv, WriteTracked, At
    <2> QED BY <2>1, <2>4 DEF KeepsWrites
  <1>4. WriteAwaited'
    <2> SUFFICES ASSUME NEW t \in Slots, NEW u \in Slots,
                        task'[t].pc = "awaitInitial",
                        task'[u].pc = "initialStatus", task'[u].eng = task'[t].eng
                 PROVE  task'[u].eng \in task'[t].wait
      BY DEF WriteAwaited, At
    <2>1. task'[u] = task[u] BY <1>1
    <2>2. CASE task'[t] = task[t]
      BY <2>1, <2>2 DEF WriteInv, WriteAwaited, At
    <2>3. CASE task'[t] # task[t]
      <3>1. /\ task'[t].sid \in Sessions /\ Registered(task'[t].sid)
            /\ task'[t].eng = engines[task'[t].sid]
            /\ task'[t].wait = PendingWrite(task'[t].sid)
        BY <2>3 DEF KeepsWrites
      <3>2. task'[t].sid = task[u].sid BY <2>1, <3>1, CapturedSlot
      <3>3. pendingInitial[task[u].sid] = task[u].eng
        BY <2>1, <3>1, <3>2 DEF WriteInv, WriteTracked, At
      <3> QED BY <2>1, <3>1, <3>2, <3>3 DEF PendingWrite
    <2> QED BY <2>2, <2>3
  <1>5. RetiredWriteSettled'
    <2> SUFFICES ASSUME NEW t \in Slots, NEW u \in Slots, Retired(task'[t]),
                        task'[u].pc = "initialStatus"
                 PROVE  task'[u].eng # task'[t].eng
      BY DEF RetiredWriteSettled, Retired, At
    <2>1. task'[u] = task[u] /\ task'[t].eng = task[t].eng
      BY <1>1 DEF KeepsWrites
    <2>2. CASE Retired(task[t])
      BY <2>1, <2>2 DEF WriteInv, RetiredWriteSettled, Retired, At
    <2>3. CASE At(t, "awaitInitial") /\ InitialStatusSettled(t)
      BY <2>1, <2>3 DEF WriteInv, WriteAwaited, InitialStatusSettled, At
    <2> QED BY <2>2, <2>3 DEF KeepsWrites
  <1> QED BY <1>2, <1>3, <1>4, <1>5 DEF WriteInv

LEMMA CreationWrites ==
  ASSUME TInv, OwnInv, WriteInv, NEW t \in Slots, InitializeEngine(t, task[t].sid)
  PROVE  WriteInv'
  <1>1. PICK e \in Free :
          /\ engines' = [engines EXCEPT ![task[t].sid] = e]
          /\ pendingInitial' = [pendingInitial EXCEPT ![task[t].sid] = e]
          /\ Call(t, task[t].op, task[t].sid, "initialStatus", e, {})
    BY DEF InitializeEngine
  <1>2. task[t].sid \in Sessions BY Fields
  <1>3. e \in Engines /\ phase[e] = "free" BY <1>1 DEF Free
  <1>4. /\ task'[t].pc = "initialStatus" /\ task'[t].eng = e
        /\ task'[t].sid = task[t].sid
        /\ \A u \in Slots \ {t} : task'[u] = task[u]
    BY <1>1, CallMoves
  <1>5. \A u \in Slots : task[u].eng # e
    BY <1>3, SessionAssumption DEF OwnInv, CapturedOwned
  <1>6. OneWriter' BY <1>4, <1>5 DEF WriteInv, OneWriter, At
  <1>7. WriteTracked'
    <2> SUFFICES ASSUME NEW u \in Slots, task'[u].pc = "initialStatus",
                        engines'[task'[u].sid] = task'[u].eng
                 PROVE  pendingInitial'[task'[u].sid] = task'[u].eng
      BY DEF WriteTracked, At
    <2>1. CASE u = t BY <1>1, <1>2, <1>4, <2>1 DEF TInv, TypeOK
    <2>2. CASE u # t
      <3>1. task'[u] = task[u] BY <1>4, <2>2
      <3>2. task[u].sid # task[t].sid
        BY <1>1, <1>2, <1>5, <3>1 DEF TInv, TypeOK
      <3>3. task[u].sid \in Sessions BY Fields
      <3>4. engines[task[u].sid] = task[u].eng
        BY <1>1, <1>2, <3>1, <3>2, <3>3 DEF TInv, TypeOK
      <3>5. pendingInitial[task[u].sid] = task[u].eng
        BY <3>1, <3>4 DEF WriteInv, WriteTracked, At
      <3> QED BY <1>1, <1>2, <3>1, <3>2, <3>3, <3>5 DEF TInv, TypeOK
    <2> QED BY <2>1, <2>2
  <1>8. WriteAwaited' BY <1>4, <1>5 DEF WriteInv, WriteAwaited, At
  <1>9. RetiredWriteSettled'
    BY <1>4, <1>5 DEF WriteInv, RetiredWriteSettled, At
  <1> QED BY <1>6, <1>7, <1>8, <1>9 DEF WriteInv

LEMMA WritesKept ==
  ASSUME "slow" \notin Ops
  PROVE  TInv /\ TInv' /\ OwnInv /\ WriteInv /\ [Next]_vars => WriteInv'
  <1> SUFFICES ASSUME TInv, TInv', OwnInv, WriteInv, [Next]_vars PROVE WriteInv'
    OBVIOUS
  <1>1. ASSUME NEW t \in Slots, NEW s \in Sessions, Start(t, s) PROVE WriteInv'
    <2>1. KeepsWrites
      BY <1>1, CallMoves, Fields
      DEF Start, Idle, world, At, InPlace, KeepsWrites, Retired
    <2> QED BY <2>1, KeepsWriteInv
  <1>2. ASSUME NEW t \in Slots, NEW s \in Sessions, Stop(t, s) PROVE WriteInv'
    <2>1. KeepsWrites
      BY <1>2, CallMoves, Fields
      DEF Stop, Idle, Retiring, world, At, InPlace, KeepsWrites, Retired
    <2> QED BY <2>1, KeepsWriteInv
  <1>3. ASSUME NEW t \in Slots, NEW s \in Sessions, Logout(t, s) PROVE WriteInv'
    <2>1. KeepsWrites
      BY <1>3, CallMoves, Fields
      DEF Logout, Idle, Retiring, world, At, InPlace, KeepsWrites, Retired
    <2> QED BY <2>1, KeepsWriteInv
  <1>4. ASSUME NEW t \in Slots, NEW s \in Sessions, ForceKill(t, s)
        PROVE  WriteInv'
    <2>1. KeepsWrites
      BY <1>4, CallMoves, Fields
      DEF ForceKill, Idle, Retiring, world, At, InPlace, KeepsWrites, Retired
    <2> QED BY <2>1, KeepsWriteInv
  <1>5. ASSUME NEW t \in Slots, NEW s \in Sessions, Delete(t, s) PROVE WriteInv'
    <2>1. KeepsWrites
      BY <1>5, CallMoves, Fields
      DEF Delete, Idle, memory, world, At, InPlace, KeepsWrites, Retired
    <2> QED BY <2>1, KeepsWriteInv
  <1>6. ASSUME NEW t \in Slots, NEW s \in Sessions, ImportData(t, s)
        PROVE  WriteInv'
    <2>1. KeepsWrites
      BY <1>6, CallMoves, Fields
      DEF ImportData, Idle, StopOrphanEngines, At, InPlace, KeepsWrites, Retired
    <2> QED BY <2>1, KeepsWriteInv
  <1>7. ASSUME NEW t \in Slots, NEW s \in Sessions, ReconnectTimer(t, s)
        PROVE  WriteInv'
    <2>1. KeepsWrites
      BY <1>7, CallMoves, Fields
      DEF ReconnectTimer, Idle, At, InPlace, KeepsWrites, Retired
    <2> QED BY <2>1, KeepsWriteInv
  <1>8. ASSUME NEW t \in Slots, NEW e \in Engines, Disconnected(t, e)
        PROVE  WriteInv'
    <2>1. KeepsWrites
      BY <1>8, CallMoves, Fields
      DEF Disconnected, Idle, IsLive, memory, world, At, InPlace, KeepsWrites,
          Retired
    <2> QED BY <2>1, KeepsWriteInv
  <1>9. ASSUME NEW t \in Slots, NEW e \in Engines, Ready(t, e) PROVE WriteInv'
    <2>1. KeepsWrites
      BY <1>9, CallMoves, Fields
      DEF Ready, Idle, IsLive, memory, world, At, InPlace, KeepsWrites, Retired
    <2> QED BY <2>1, KeepsWriteInv
  <1>10. ASSUME NEW t \in Slots, InitialStatusWritten(t) PROVE WriteInv'
    <2>1. /\ task'[t].pc \notin {"initialStatus", "awaitInitial"}
          /\ ~Retired(task'[t])
          /\ \A u \in Slots \ {t} : task'[u] = task[u]
      BY <1>10, GotoMoves, CallMoves, Fields
      DEF InitialStatusWritten, At, EngineReturned, Retire, InPlace, Retired
    <2>2. ASSUME NEW u \in Slots, task'[u].pc = "initialStatus"
          PROVE  /\ task'[u] = task[u]
                 /\ \/ pendingInitial'[task[u].sid] = pendingInitial[task[u].sid]
                    \/ pendingInitial[task[u].sid] # task[u].eng
      <3>1. u # t /\ task'[u] = task[u] BY <2>1, <2>2
      <3>2. task[u].eng # task[t].eng
        BY <1>10, <2>2, <3>1 DEF WriteInv, OneWriter, InitialStatusWritten, At
      <3>3. task[u].sid \in Sessions /\ task[t].sid \in Sessions BY Fields
      <3> QED BY <1>10, <3>1, <3>2, <3>3
        DEF InitialStatusWritten, ForgetPending, TInv, TypeOK
    <2>3. engines' = engines BY <1>10 DEF InitialStatusWritten
    <2>4. KeepsWrites BY <2>1, <2>2, <2>3 DEF KeepsWrites
    <2> QED BY <2>4, KeepsWriteInv
  <1>11. ASSUME NEW t \in Slots, EngineInitialized(t) PROVE WriteInv'
    <2>1. KeepsWrites
      BY <1>11, GotoMoves, CallMoves, Fields
      DEF EngineInitialized, At, EngineReturned, memory, Retire, InPlace,
          KeepsWrites, Retired
    <2> QED BY <2>1, KeepsWriteInv
  <1>12. ASSUME NEW t \in Slots, EngineInitTimeout(t) PROVE WriteInv'
    <2>1. KeepsWrites
      BY <1>12, GotoMoves, Fields
      DEF EngineInitTimeout, At, InPlace, KeepsWrites, Retired
    <2> QED BY <2>1, KeepsWriteInv
  <1>13. ASSUME NEW t \in Slots, CheckRow(t) PROVE WriteInv'
    <2>1. KeepsWrites
      BY <1>13, ReturnMoves, CallMoves, GotoMoves, Fields
      DEF CheckRow, At, ReturnFrom, Retire, InPlace, KeepsWrites, Retired
    <2> QED BY <2>1, KeepsWriteInv
  <1>14. ASSUME NEW t \in Slots, ResurrectedDown(t) PROVE WriteInv'
    <2>1. KeepsWrites
      BY <1>14, DeleteIfLiveCarries, GotoMoves, Fields
      DEF ResurrectedDown, At, world, InPlace, KeepsWrites, Retired
    <2> QED BY <2>1, KeepsWriteInv
  <1>15. ASSUME NEW t \in Slots, PurgeCheck(t) PROVE WriteInv'
    <2>1. KeepsWrites
      BY <1>15, GotoMoves, ReturnMoves, Fields
      DEF PurgeCheck, At, ReturnFrom, world, InPlace, KeepsWrites, Retired
    <2> QED BY <2>1, KeepsWriteInv
  <1>16. ASSUME NEW t \in Slots, Repurge(t) PROVE WriteInv'
    <2>1. KeepsWrites
      BY <1>16, ReturnMoves, Fields
      DEF Repurge, At, ReturnFrom, InPlace, KeepsWrites, Retired
    <2> QED BY <2>1, KeepsWriteInv
  <1>17. ASSUME NEW t \in Slots, StartChecks(t) PROVE WriteInv'
    <2>1. KeepsWrites
      BY <1>17, CallMoves, ReturnMoves, Fields
      DEF StartChecks, At, ReturnFrom, world, InPlace, KeepsWrites, Retired
    <2> QED BY <2>1, KeepsWriteInv
  <1>18. ASSUME NEW t \in Slots, StartAccepted(t) PROVE WriteInv'
    <2>1. KeepsWrites
      BY <1>18, GotoMoves, Fields
      DEF StartAccepted, At, world, InPlace, KeepsWrites, Retired
    <2> QED BY <2>1, KeepsWriteInv
  <1>19. ASSUME NEW t \in Slots, StartHookDone(t) PROVE WriteInv'
    BY <1>19, CreationWrites DEF StartHookDone
  <1>20. ASSUME NEW t \in Slots, StartFailed(t) PROVE WriteInv'
    <2>1. \A s \in Sessions : engines'[s] \in {engines[s], NoEngine}
      BY <1>20, Fields, EvictCarries DEF StartFailed
    <2>2. /\ task'[t].pc \in {"idle", "writeFailed"} /\ ~Retired(task'[t])
          /\ \A u \in Slots \ {t} : task'[u] = task[u]
      BY <1>20, ReturnMoves, GotoMoves DEF StartFailed, ReturnFrom, Retired
    <2>3. ASSUME NEW u \in Slots, task'[u].pc = "initialStatus"
          PROVE  /\ task'[u] = task[u]
                 /\ \/ pendingInitial'[task[u].sid] = pendingInitial[task[u].sid]
                    \/ pendingInitial[task[u].sid] # task[u].eng
      <3>1. u # t /\ task'[u] = task[u] BY <2>2, <2>3
      <3>2. CASE pendingInitial' = pendingInitial BY <3>1, <3>2
      <3>3. CASE At(t, "initialStatus") /\ ForgetPending(t)
        <4>1. task[u].eng # task[t].eng
          BY <2>3, <3>1, <3>3 DEF WriteInv, OneWriter, At
        <4>2. task[u].sid \in Sessions /\ task[t].sid \in Sessions BY Fields
        <4> QED BY <3>1, <3>3, <4>1, <4>2 DEF ForgetPending, TInv, TypeOK
      <3> QED BY <1>20, <3>2, <3>3 DEF StartFailed, InitFailed
    <2>4. KeepsWrites BY <2>1, <2>2, <2>3 DEF KeepsWrites
    <2> QED BY <2>4, KeepsWriteInv
  <1>21. ASSUME NEW t \in Slots, StartFailedWritten(t) PROVE WriteInv'
    <2>1. KeepsWrites
      BY <1>21, ReturnMoves, Fields
      DEF StartFailedWritten, At, ReturnFrom, world, InPlace, KeepsWrites,
          Retired
    <2> QED BY <2>1, KeepsWriteInv
  <1>22. ASSUME NEW t \in Slots, BeginTeardown(t) PROVE WriteInv'
    <2>1. KeepsWrites
      BY <1>22, CallMoves, Fields
      DEF BeginTeardown, At, memory, InPlace, KeepsWrites, Retired
    <2> QED BY <2>1, KeepsWriteInv
  <1>23. ASSUME NEW t \in Slots, TeardownDone(t) PROVE WriteInv'
    <2>1. KeepsWrites
      BY <1>23, DeleteIfLiveCarries, GotoMoves, CallMoves, Fields
      DEF TeardownDone, At, world, InPlace, KeepsWrites, Retired
    <2> QED BY <2>1, KeepsWriteInv
  <1>24. ASSUME NEW t \in Slots, FinalStatusWritten(t) PROVE WriteInv'
    <2>1. KeepsWrites
      BY <1>24, ReturnMoves, Fields
      DEF FinalStatusWritten, At, world, InPlace, KeepsWrites, Retired
    <2> QED BY <2>1, KeepsWriteInv
  <1>25. ASSUME NEW t \in Slots, DeleteAccepted(t) PROVE WriteInv'
    <2>1. KeepsWrites
      BY <1>25, CallMoves, Fields
      DEF DeleteAccepted, At, Retiring, world, InPlace, KeepsWrites, Retired
    <2> QED BY <2>1, KeepsWriteInv
  <1>26. ASSUME NEW t \in Slots, DeleteFenced(t) PROVE WriteInv'
    <2>1. KeepsWrites
      BY <1>26, GotoMoves, Fields
      DEF DeleteFenced, At, memory, world, InPlace, KeepsWrites, Retired
    <2> QED BY <2>1, KeepsWriteInv
  <1>27. ASSUME NEW t \in Slots, DeleteCommits(t) PROVE WriteInv'
    <2>1. KeepsWrites
      BY <1>27, GotoMoves, Fields
      DEF DeleteCommits, At, memory, world, InPlace, KeepsWrites, Retired
    <2> QED BY <2>1, KeepsWriteInv
  <1>28. ASSUME NEW t \in Slots, DeleteFails(t) PROVE WriteInv'
    <2>1. KeepsWrites
      BY <1>28, ReturnMoves, Fields
      DEF DeleteFails, At, world, InPlace, KeepsWrites, Retired
    <2> QED BY <2>1, KeepsWriteInv
  <1>29. ASSUME NEW t \in Slots, DeletePurges(t) PROVE WriteInv'
    <2>1. KeepsWrites
      BY <1>29, ReturnMoves, Fields
      DEF DeletePurges, At, InPlace, KeepsWrites, Retired
    <2> QED BY <2>1, KeepsWriteInv
  <1>30. ASSUME NEW t \in Slots, ImportEnds(t) PROVE WriteInv'
    <2>1. KeepsWrites
      BY <1>30, ReturnMoves, Fields
      DEF ImportEnds, At, memory, world, InPlace, KeepsWrites, Retired
    <2> QED BY <2>1, KeepsWriteInv
  <1>31. ASSUME NEW t \in Slots, FenceTimeout(t) PROVE WriteInv'
    <2>1. KeepsWrites
      BY <1>31, GotoMoves, ReturnMoves, Fields
      DEF FenceTimeout, At, ReturnFrom, world, InPlace, KeepsWrites, Retired
    <2> QED BY <2>1, KeepsWriteInv
  <1>32. ASSUME NEW t \in Slots, Reconnects(t) PROVE WriteInv'
    BY <1>32, CreationWrites DEF Reconnects
  <1>33. ASSUME NEW t \in Slots, ReconnectFailed(t) PROVE WriteInv'
    <2>1. \A s \in Sessions : engines'[s] \in {engines[s], NoEngine}
      BY <1>33, Fields, ScheduleCarries DEF ReconnectFailed
    <2>2. /\ task'[t].pc \in {"idle", "writeFailed"} /\ ~Retired(task'[t])
          /\ \A u \in Slots \ {t} : task'[u] = task[u]
      BY <1>33, ReturnMoves, GotoMoves DEF ReconnectFailed, Retired
    <2>3. ASSUME NEW u \in Slots, task'[u].pc = "initialStatus"
          PROVE  /\ task'[u] = task[u]
                 /\ \/ pendingInitial'[task[u].sid] = pendingInitial[task[u].sid]
                    \/ pendingInitial[task[u].sid] # task[u].eng
      <3>1. u # t /\ task'[u] = task[u] BY <2>2, <2>3
      <3>2. CASE pendingInitial' = pendingInitial BY <3>1, <3>2
      <3>3. CASE At(t, "initialStatus") /\ ForgetPending(t)
        <4>1. task[u].eng # task[t].eng
          BY <2>3, <3>1, <3>3 DEF WriteInv, OneWriter, At
        <4>2. task[u].sid \in Sessions /\ task[t].sid \in Sessions BY Fields
        <4> QED BY <3>1, <3>3, <4>1, <4>2 DEF ForgetPending, TInv, TypeOK
      <3> QED BY <1>33, <3>2, <3>3 DEF ReconnectFailed, InitFailed
    <2>4. KeepsWrites BY <2>1, <2>2, <2>3 DEF KeepsWrites
    <2> QED BY <2>4, KeepsWriteInv
  <1>34. ASSUME NEW t \in Slots, HandleDisconnected(t) PROVE WriteInv'
    <2>1. \A s \in Sessions : engines'[s] \in {engines[s], NoEngine}
      BY <1>34, Fields, ScheduleCarries DEF HandleDisconnected
    <2>2. /\ task'[t].pc = "idle" /\ task'[t].eng = NoEngine
          /\ \A u \in Slots \ {t} : task'[u] = task[u]
      BY <1>34, ReturnMoves DEF HandleDisconnected
    <2>3. pendingInitial' = pendingInitial BY <1>34 DEF HandleDisconnected
    <2>4. KeepsWrites BY <2>1, <2>2, <2>3 DEF KeepsWrites, Retired
    <2> QED BY <2>4, KeepsWriteInv
  <1>35. ASSUME NEW t \in Slots, FinalizeReady(t) PROVE WriteInv'
    <2>1. KeepsWrites
      BY <1>35, ReturnMoves, Fields
      DEF FinalizeReady, At, IsLive, world, InPlace, KeepsWrites, Retired
    <2> QED BY <2>1, KeepsWriteInv
  <1>36. ASSUME NEW t \in Slots, RejectDuplicate(t) PROVE WriteInv'
    <2>1. KeepsWrites
      BY <1>36, GotoMoves, Fields
      DEF RejectDuplicate, At, InPlace, KeepsWrites, Retired
    <2> QED BY <2>1, KeepsWriteInv
  <1>37. ASSUME NEW e \in Engines, EngineError(e) PROVE WriteInv'
    <2>1. KeepsWrites
      BY <1>37, EvictCarries, Fields
      DEF EngineError, IsLive, InPlace, At, KeepsWrites, Retired
    <2> QED BY <2>1, KeepsWriteInv
  <1>38. ASSUME NEW e \in Engines, RemoteLoggedOut(e) PROVE WriteInv'
    <2>1. KeepsWrites
      BY <1>38, Fields
      DEF RemoteLoggedOut, memory, InPlace, At, KeepsWrites, Retired
    <2> QED BY <2>1, KeepsWriteInv
  <1>39. ASSUME NEW e \in logouts, LogoutSettles(e) PROVE WriteInv'
    <2>1. KeepsWrites
      BY <1>39, Fields
      DEF LogoutSettles, memory, InPlace, At, KeepsWrites, Retired
    <2> QED BY <2>1, KeepsWriteInv
  <1>40. ASSUME NEW w \in late, LateWriteSettles(w) PROVE WriteInv'
    <2>1. KeepsWrites
      BY <1>40, Fields
      DEF LateWriteSettles, memory, world, InPlace, At, KeepsWrites, Retired
    <2> QED BY <2>1, KeepsWriteInv
  <1>41. ASSUME NEW s \in Sessions, Create(s) PROVE WriteInv'
    <2>1. KeepsWrites
      BY <1>41, Fields
      DEF Create, memory, world, InPlace, At, KeepsWrites, Retired
    <2> QED BY <2>1, KeepsWriteInv
  <1>42. ASSUME UNCHANGED vars PROVE WriteInv'
    BY <1>42
    DEF vars, WriteInv, OneWriter, WriteTracked, WriteAwaited,
        RetiredWriteSettled, At
  <1>43. ASSUME NEW t \in Slots, ControlRejected(t) PROVE WriteInv'
    <2>1. KeepsWrites
      BY <1>43, ReturnMoves, Fields
      DEF ControlRejected, At, InPlace, KeepsWrites, Retired
    <2> QED BY <2>1, KeepsWriteInv
  <1> QED BY <1>1, <1>2, <1>3, <1>4, <1>5, <1>6, <1>7, <1>8, <1>9, <1>10, <1>11,
             <1>12, <1>13, <1>14, <1>15, <1>16, <1>17, <1>18, <1>19, <1>20,
             <1>21, <1>22, <1>23, <1>24, <1>25, <1>26, <1>27, <1>28, <1>29,
             <1>30, <1>31, <1>32, <1>33, <1>34, <1>35, <1>36, <1>37, <1>38,
             <1>39, <1>40, <1>41, <1>42, <1>43
          DEF Next, vars, Request, EngineEvent, Resume

(* If the write of INITIALIZING settles within the ten seconds a control   *)
(* waits for it, no stop, logout, kill or delete tears the engine down or  *)
(* writes its own status while that write is still on its way.             *)
THEOREM RetiredWritesSettle ==
  ASSUME "slow" \notin Ops
  PROVE  Spec => []RetiredWriteSettled
  <1>1. Init => SafeInv /\ WriteInv
    <2>1. Init => SafeInv BY SafeInitially
    <2>2. Init => WriteInv
      BY IdleTyped
      DEF Init, WriteInv, OneWriter, WriteTracked, WriteAwaited,
          RetiredWriteSettled, At
    <2> QED BY <2>1, <2>2
  <1>2. SafeInv /\ WriteInv /\ [Next]_vars => (SafeInv /\ WriteInv)'
    BY SafeStep, WritesKept, Typing DEF SafeInv
  <1>3. WriteInv => RetiredWriteSettled BY DEF WriteInv
  <1> QED BY <1>1, <1>2, <1>3, PTL DEF Spec

-----------------------------------------------------------------------------
(* Every socket is registered *)

(* Without a drop no timer is armed, so only start() creates engines.      *)
OnlyStarts ==
  /\ \A s \in Sessions : ~reconnect[s].timer
  /\ \A t \in Slots : task[t].op \notin {"reconnect", "drop", "import"}

(* A start past its checks is the only one to fill the slot of its session. *)
StartOwnsSlot ==
  \A t \in Slots : task[t].op = "start" =>
    /\ task[t].pc \in {"fence", "hook"} => ~Registered(task[t].sid)
    /\ task[t].pc \notin {"row", "fence", "hook"}
         => engines[task[t].sid] \in {NoEngine, task[t].eng}

(* How far the life of a captured engine has come. *)
CapturedPhase ==
  \A t \in Slots :
    /\ At(t, "initialStatus") => phase[task[t].eng] = "created"
    /\ task[t].pc \in {"teardown", "resurrected"} => phase[task[t].eng] = "closing"
    /\ At(t, "lookup") => phase[task[t].eng] \notin {"free", "created"}

RegistryInv ==
  OnlyStarts /\ StartOwnsSlot /\ CapturedPhase /\ ServingIsRegistered

(* What every step but the creation and the initialization of an engine    *)
(* does: a call that moves keeps to its slot, an engine leaves the         *)
(* registry closed, and none is closed while its write is on its way.      *)
Advances(t) ==
  /\ task'[t].pc # "initialStatus"
  /\ task'[t].op \notin {"reconnect", "drop", "import"}
  /\ task'[t].op = "start" /\ task'[t].pc # "row" =>
       /\ task[t].op = "start" /\ task'[t].sid = task[t].sid
       /\ task'[t].pc \in {"fence", "hook"} => ~Registered(task[t].sid)
       /\ task'[t].pc \notin {"fence", "hook"}
            => engines[task[t].sid] \in {NoEngine, task'[t].eng}
  /\ task'[t].pc \in {"teardown", "resurrected"} => phase'[task'[t].eng] = "closing"
  /\ task'[t].pc = "lookup" => phase[task'[t].eng] \notin {"free", "created"}

Ages(e) ==
  \/ phase'[e] \in {phase[e], "closing"}
  \/ phase[e] = "running" /\ phase'[e] = "unlinked"

KeepsRegistry ==
  /\ \A t \in Slots : task'[t] = task[t] \/ Advances(t)
  /\ \A t \in Slots : At(t, "initialStatus") /\ task'[t] = task[t]
       => phase'[task[t].eng] = "created"
  /\ \A s \in Sessions :
       \/ engines'[s] = engines[s]
       \/ engines'[s] = NoEngine /\ (Registered(s) => phase'[engines[s]] = "closing")
  /\ \A e \in Engines : Ages(e)
  /\ owner' = owner
  /\ \A s \in Sessions : reconnect'[s].timer => reconnect[s].timer

LEMMA KeepsRegistryInv ==
  ASSUME TInv, TInv', OwnInv, RegistryInv, KeepsRegistry
  PROVE  RegistryInv'
  <1>1. OnlyStarts'
    BY DEF RegistryInv, OnlyStarts, KeepsRegistry, Advances
  <1>2. StartOwnsSlot'
    <2> SUFFICES ASSUME NEW t \in Slots, task'[t].op = "start"
                 PROVE  /\ task'[t].pc \in {"fence", "hook"}
                             => engines'[task'[t].sid] = NoEngine
                        /\ task'[t].pc \notin {"row", "fence", "hook"}
                             => engines'[task'[t].sid] \in {NoEngine, task'[t].eng}
      BY DEF StartOwnsSlot, Registered
    <2>1. task'[t] = task[t] \/ Advances(t) BY DEF KeepsRegistry
    <2>2. task[t].sid \in Sessions BY Fields
    <2>3. engines'[task[t].sid] \in {engines[task[t].sid], NoEngine}
      BY <2>2 DEF KeepsRegistry
    <2> QED BY <2>1, <2>3 DEF Advances, RegistryInv, StartOwnsSlot, Registered
  <1>3. CapturedPhase'
    <2> SUFFICES ASSUME NEW t \in Slots
                 PROVE  /\ task'[t].pc = "initialStatus"
                             => phase'[task'[t].eng] = "created"
                        /\ task'[t].pc \in {"teardown", "resurrected"}
                             => phase'[task'[t].eng] = "closing"
                        /\ task'[t].pc = "lookup"
                             => phase'[task'[t].eng] \notin {"free", "created"}
      BY DEF CapturedPhase, At
    <2>1. task'[t] = task[t] \/ Advances(t) BY DEF KeepsRegistry
    <2>2. \A e \in Engines : Ages(e) BY DEF KeepsRegistry
    <2>3. CASE task'[t] = task[t]
      <3>1. task[t].pc \in {"teardown", "resurrected", "lookup"}
              => task[t].eng \in Engines
        BY Fields DEF InPlace, EngineOrNone
      <3> QED BY <2>2, <2>3, <3>1
          DEF KeepsRegistry, RegistryInv, CapturedPhase, At, Ages
    <2>4. CASE Advances(t) /\ task'[t] # task[t]
      <3>1. task'[t].pc = "lookup" => task'[t].eng \in Engines
        BY DEF TInv, TypeOK, CallsInPlace, TaskType, InPlace, EngineOrNone
      <3>2. task'[t].pc = "lookup" => phase'[task'[t].eng] \notin {"free", "created"}
        BY <2>2, <2>4, <3>1 DEF Advances, Ages
      <3> QED BY <2>4, <3>2 DEF Advances
    <2> QED BY <2>1, <2>3, <2>4
  <1>4. ServingIsRegistered'
    <2> SUFFICES ASSUME NEW e \in Engines, phase'[e] \in {"running", "unlinked"}
                 PROVE  engines'[owner[e]] = e
      BY DEF ServingIsRegistered, Serving, KeepsRegistry
    <2>1. Serving(e) BY DEF KeepsRegistry, Ages, Serving
    <2>2. engines[owner[e]] = e BY <2>1 DEF RegistryInv, ServingIsRegistered
    <2>3. owner[e] \in Sessions BY OwnerTyped
    <2>4. Registered(owner[e]) BY <2>2, SessionAssumption DEF Registered
    <2> QED BY <2>2, <2>3, <2>4 DEF KeepsRegistry
  <1> QED BY <1>1, <1>2, <1>3, <1>4 DEF RegistryInv

LEMMA ReturnAdvances ==
  ASSUME TInv, NEW t \in Slots, Return(t)
  PROVE  Advances(t) /\ \A u \in Slots \ {t} : task'[u] = task[u]
  BY IdleTyped, ReturnMoves DEF TInv, TypeOK, Return, Advances

LEMMA GotoAdvances ==
  ASSUME TInv, RegistryInv, NEW t \in Slots, NEW pc, Goto(t, pc),
         pc \notin {"initialStatus", "row", "teardown", "resurrected", "lookup"},
         task[t].op = "start" =>
           /\ task[t].pc # "row"
           /\ pc \in {"fence", "hook"} <=> task[t].pc \in {"fence", "hook"}
  PROVE  Advances(t) /\ \A u \in Slots \ {t} : task'[u] = task[u]
  BY GotoMoves DEF RegistryInv, OnlyStarts, StartOwnsSlot, Advances

LEMMA CallAdvances ==
  ASSUME TInv, NEW t \in Slots, NEW op, NEW s, NEW pc, NEW e, NEW w,
         Call(t, op, s, pc, e, w), op \notin {"start", "reconnect", "drop", "import"},
         pc \notin {"initialStatus", "teardown", "resurrected", "lookup"}
  PROVE  Advances(t) /\ \A u \in Slots \ {t} : task'[u] = task[u]
  BY CallMoves DEF Advances

(* A step that leaves the registry and the engines alone. *)
LEMMA QuietRegistry ==
  ASSUME TInv, RegistryInv, UNCHANGED <<engines, phase, owner>>,
         \A s \in Sessions : reconnect'[s].timer => reconnect[s].timer,
         NEW t \in Slots, Advances(t), \A u \in Slots \ {t} : task'[u] = task[u]
  PROVE  KeepsRegistry
  BY DEF KeepsRegistry, Ages, RegistryInv, CapturedPhase, At

LEMMA CancelTimers ==
  ASSUME TInv, NEW s, CancelReconnect(s)
  PROVE  \A r \in Sessions : reconnect'[r].timer => reconnect[r].timer
  BY DEF TInv, TypeOK, CancelReconnect, NoReconnect

(* The one call that creates an engine for a session is also the one that  *)
(* holds its write of INITIALIZING.                                        *)
LEMMA SoleCreator ==
  ASSUME TInv, OwnInv, RegistryInv, OneStart, NEW t \in Slots, task[t].op = "start",
         NEW u \in Slots, At(u, "initialStatus"), task[u].sid = task[t].sid
  PROVE  u = t
  BY Fields DEF RegistryInv, OnlyStarts, InPlace, At, OneStart

(* What closes an engine whose write has settled keeps the registry. *)
LEMMA ClosingRegistry ==
  ASSUME TInv, RegistryInv, UNCHANGED owner, NEW x \in Engines, TearDown(x),
         \A s \in Sessions :
           \/ engines'[s] = engines[s]
           \/ engines'[s] = NoEngine /\ engines[s] \in {x, NoEngine},
         \A s \in Sessions : reconnect'[s].timer => reconnect[s].timer,
         \A u \in Slots : At(u, "initialStatus") /\ task'[u] = task[u] => task[u].eng # x,
         \A u \in Slots : task'[u] = task[u] \/ Advances(u)
  PROVE  KeepsRegistry
  <1>1. phase'[x] = "closing" /\ \A f \in Engines : f # x => phase'[f] = phase[f]
    BY TearDownClosing
  <1>2. \A e \in Engines : Ages(e) BY <1>1 DEF Ages
  <1>3. \A u \in Slots : At(u, "initialStatus") /\ task'[u] = task[u]
          => phase'[task[u].eng] = "created"
    <2> SUFFICES ASSUME NEW u \in Slots, At(u, "initialStatus"), task'[u] = task[u]
                 PROVE  phase'[task[u].eng] = "created"
      OBVIOUS
    <2>1. task[u].eng \in Engines BY Fields DEF InPlace, EngineOrNone, At
    <2> QED BY <1>1, <2>1 DEF RegistryInv, CapturedPhase
  <1> QED BY <1>1, <1>2, <1>3 DEF KeepsRegistry, Registered

(* evictAndForceDestroy, at a session whose engine has no write ahead. *)
LEMMA EvictRegistry ==
  ASSUME TInv, RegistryInv, UNCHANGED owner, NEW s \in Sessions, Evict(s),
         \A r \in Sessions : reconnect'[r].timer => reconnect[r].timer,
         \A u \in Slots : At(u, "initialStatus") /\ task'[u] = task[u]
                            => task[u].eng # engines[s],
         \A u \in Slots : task'[u] = task[u] \/ Advances(u)
  PROVE  KeepsRegistry
  <1>1. CASE Registered(s)
    <2>1. engines[s] \in Engines BY <1>1, FenceTyped
    <2>2. TearDown(engines[s]) /\ engines' = [engines EXCEPT ![s] = NoEngine]
      BY <1>1 DEF Evict
    <2>3. \A r \in Sessions :
            \/ engines'[r] = engines[r]
            \/ engines'[r] = NoEngine /\ engines[r] \in {engines[s], NoEngine}
      BY <2>2 DEF TInv, TypeOK
    <2> QED BY <2>1, <2>2, <2>3, ClosingRegistry
  <1>2. CASE ~Registered(s)
    <2>1. UNCHANGED <<phase, engines>> BY <1>2 DEF Evict
    <2> QED BY <2>1 DEF KeepsRegistry, Ages, RegistryInv, CapturedPhase
  <1> QED BY <1>1, <1>2

LEMMA SoleWriter ==
  ASSUME TInv, OwnInv, RegistryInv, OneStart, NEW t \in Slots, task[t].op = "start",
         NEW u \in Slots, At(u, "initialStatus"), task[u].eng = task[t].eng
  PROVE  u = t
  <1>1. task[u].eng # NoEngine BY Fields DEF At, InPlace
  <1>2. task[u].sid = task[t].sid BY <1>1 DEF OwnInv, CapturedOwned
  <1> QED BY <1>2, SoleCreator

LEMMA FinalTimers ==
  ASSUME TInv, NEW s \in Sessions, reconnect' = [reconnect EXCEPT ![s].attempts = 0]
  PROVE  \A r \in Sessions : reconnect'[r].timer => reconnect[r].timer
  BY DEF TInv, TypeOK, ReconnectType

(* The teardown of a closed engine ends. *)
LEMMA DownRegistry ==
  ASSUME TInv, RegistryInv, NEW t \in Slots, task[t].pc \in {"teardown", "resurrected"},
         DeleteIfLive(task[t].sid, task[t].eng), UNCHANGED <<phase, owner, reconnect>>,
         Advances(t), \A u \in Slots \ {t} : task'[u] = task[u]
  PROVE  KeepsRegistry
  <1>1. phase[task[t].eng] = "closing" BY DEF RegistryInv, CapturedPhase
  <1>2. \A s \in Sessions :
          \/ engines'[s] = engines[s]
          \/ engines'[s] = NoEngine /\ engines[s] = task[t].eng
    BY DEF DeleteIfLive, IsLive, TInv, TypeOK
  <1> QED BY <1>1, <1>2 DEF KeepsRegistry, Ages, RegistryInv, CapturedPhase, At

(* A start gives up the engine it registered, or has none to give up. *)
LEMMA RetireRegistry ==
  ASSUME TInv, OwnInv, RegistryInv, OneStart, NEW t \in Slots,
         task[t].pc \in {"initialStatus", "initialize", "rowCheck"},
         Retire(t, task[t].sid), UNCHANGED <<engines, owner, reconnect>>
  PROVE  KeepsRegistry
  <1>1. /\ task[t].op = "start" /\ task[t].sid \in Sessions
        /\ engines[task[t].sid] \in {NoEngine, task[t].eng}
    BY Fields DEF InPlace, RegistryInv, OnlyStarts, StartOwnsSlot
  <1>2. CASE Registered(task[t].sid)
    <2>1. /\ engines[task[t].sid] = task[t].eng /\ task[t].eng \in Engines
          /\ TearDown(task[t].eng)
          /\ Call(t, task[t].op, task[t].sid, "resurrected", task[t].eng, {})
      BY <1>1, <1>2, FenceTyped DEF Retire, Registered
    <2>2. Advances(t) /\ \A u \in Slots \ {t} : task'[u] = task[u]
      BY <1>1, <2>1, CallMoves, TearDownClosing DEF Advances
    <2>3. \A u \in Slots : At(u, "initialStatus") /\ task'[u] = task[u]
            => task[u].eng # task[t].eng
      BY <1>1, <2>2, SoleWriter DEF Advances, At
    <2> QED BY <2>1, <2>2, <2>3, ClosingRegistry
  <1>3. CASE ~Registered(task[t].sid)
    <2>1. Goto(t, "purgeCheck") /\ UNCHANGED phase BY <1>3 DEF Retire
    <2>2. Advances(t) /\ \A u \in Slots \ {t} : task'[u] = task[u]
      BY <1>1, <2>1, GotoAdvances
    <2> QED BY <2>1, <2>2, QuietRegistry
  <1> QED BY <1>2, <1>3

(* The new instance goes to a slot nothing holds. *)
LEMMA CreationRegistry ==
  ASSUME TInv, TInv', OwnInv, RegistryInv, OneStart, NEW t \in Slots,
         task[t].op = "start", task[t].pc = "hook",
         reconnect' = [reconnect EXCEPT ![task[t].sid] = NewReconnect],
         InitializeEngine(t, task[t].sid)
  PROVE  RegistryInv'
  <1>1. PICK e \in Free :
          /\ engines' = [engines EXCEPT ![task[t].sid] = e]
          /\ phase' = [phase EXCEPT ![e] = "created"]
          /\ owner' = [owner EXCEPT ![e] = task[t].sid]
          /\ Call(t, task[t].op, task[t].sid, "initialStatus", e, {})
    BY DEF InitializeEngine
  <1>2. task[t].sid \in Sessions /\ ~Registered(task[t].sid)
    BY Fields DEF RegistryInv, StartOwnsSlot
  <1>3. e \in Engines /\ phase[e] = "free" BY <1>1 DEF Free
  <1>4. /\ task'[t].op = "start" /\ task'[t].pc = "initialStatus" /\ task'[t].eng = e
        /\ task'[t].sid = task[t].sid
        /\ \A u \in Slots \ {t} : task'[u] = task[u]
    BY <1>1, CallMoves
  <1>5. \A u \in Slots : task[u].eng # e
    BY <1>3, SessionAssumption DEF OwnInv, CapturedOwned
  <1>6. OnlyStarts'
    BY <1>4 DEF RegistryInv, OnlyStarts, NewReconnect, TInv, TypeOK
  <1>7. StartOwnsSlot'
    <2> SUFFICES ASSUME NEW u \in Slots, task'[u].op = "start"
                 PROVE  /\ task'[u].pc \in {"fence", "hook"}
                             => engines'[task'[u].sid] = NoEngine
                        /\ task'[u].pc \notin {"row", "fence", "hook"}
                             => engines'[task'[u].sid] \in {NoEngine, task'[u].eng}
      BY DEF StartOwnsSlot, Registered
    <2>1. CASE u = t BY <1>1, <1>2, <1>4, <2>1 DEF TInv, TypeOK
    <2>2. CASE u # t
      <3>1. task'[u] = task[u] /\ task[u].sid # task[t].sid
        BY <1>4, <2>2 DEF OneStart
      <3>2. engines'[task[u].sid] = engines[task[u].sid]
        BY <1>1, <3>1, Fields DEF TInv, TypeOK
      <3> QED BY <3>1, <3>2 DEF RegistryInv, StartOwnsSlot, Registered
    <2> QED BY <2>1, <2>2
  <1>8. CapturedPhase'
    <2>1. \A f \in Engines : f # e => phase'[f] = phase[f] BY <1>1 DEF TInv, TypeOK
    <2>2. phase'[e] = "created" BY <1>1, <1>3 DEF TInv, TypeOK
    <2> SUFFICES ASSUME NEW u \in Slots
                 PROVE  /\ task'[u].pc = "initialStatus"
                             => phase'[task'[u].eng] = "created"
                        /\ task'[u].pc \in {"teardown", "resurrected"}
                             => phase'[task'[u].eng] = "closing"
                        /\ task'[u].pc = "lookup"
                             => phase'[task'[u].eng] \notin {"free", "created"}
      BY DEF CapturedPhase, At
    <2>3. CASE u = t BY <1>4, <2>2, <2>3
    <2>4. CASE u # t
      <3>1. task[u].pc \in {"initialStatus", "teardown", "resurrected", "lookup"}
              => task[u].eng \in Engines
        BY Fields DEF InPlace, EngineOrNone
      <3> QED BY <1>4, <1>5, <2>1, <2>4, <3>1 DEF RegistryInv, CapturedPhase, At
    <2> QED BY <2>3, <2>4
  <1>9. ServingIsRegistered'
    <2> SUFFICES ASSUME NEW f \in Engines, phase'[f] \in {"running", "unlinked"}
                 PROVE  engines'[owner'[f]] = f
      BY DEF ServingIsRegistered, Serving
    <2>1. f # e /\ phase'[f] = phase[f] /\ owner'[f] = owner[f]
      BY <1>1, <1>3 DEF TInv, TypeOK
    <2>2. engines[owner[f]] = f
      BY <2>1 DEF RegistryInv, ServingIsRegistered, Serving
    <2>3. owner[f] # task[t].sid
      BY <1>2, <2>2, SessionAssumption DEF Registered
    <2> QED BY <1>1, <2>1, <2>2, <2>3, OwnerTyped DEF TInv, TypeOK
  <1> QED BY <1>6, <1>7, <1>8, <1>9 DEF RegistryInv

(* The write of INITIALIZING has settled: the engine goes on if it is the  *)
(* registered one, and is given up otherwise.                              *)
LEMMA FirstWriteRegistry ==
  ASSUME TInv, TInv', OwnInv, OneStart, RegistryInv, NEW t \in Slots,
         InitialStatusWritten(t)
  PROVE  RegistryInv'
  <1>0. /\ task[t].op = "start" /\ task[t].pc = "initialStatus"
        /\ task[t].sid \in Sessions /\ task[t].eng \in Engines
        /\ UNCHANGED <<engines, owner, reconnect>>
    BY Fields
    DEF InitialStatusWritten, At, InPlace, EngineOrNone, RegistryInv, OnlyStarts
  <1>1. CASE /\ engines[task[t].sid] = task[t].eng
             /\ phase' = [phase EXCEPT ![task[t].eng] = "running"]
             /\ Goto(t, "initialize")
    <2>1. /\ task'[t].op = "start" /\ task'[t].pc = "initialize"
          /\ task'[t].sid = task[t].sid /\ task'[t].eng = task[t].eng
          /\ \A u \in Slots \ {t} : task'[u] = task[u]
      BY <1>0, <1>1, GotoMoves
    <2>2. \A f \in Engines : f # task[t].eng => phase'[f] = phase[f]
      BY <1>1 DEF TInv, TypeOK
    <2>3. phase[task[t].eng] = "created" /\ phase'[task[t].eng] = "running"
      BY <1>0, <1>1 DEF RegistryInv, CapturedPhase, At, TInv, TypeOK
    <2>4. OnlyStarts' BY <1>0, <2>1 DEF RegistryInv, OnlyStarts
    <2>5. StartOwnsSlot'
      BY <1>0, <2>1 DEF RegistryInv, StartOwnsSlot, Registered
    <2>6. CapturedPhase'
      <3> SUFFICES ASSUME NEW u \in Slots, u # t
                   PROVE  /\ task[u].pc = "initialStatus"
                               => phase'[task[u].eng] = "created"
                          /\ task[u].pc \in {"teardown", "resurrected"}
                               => phase'[task[u].eng] = "closing"
                          /\ task[u].pc = "lookup"
                               => phase'[task[u].eng] \notin {"free", "created"}
        BY <2>1 DEF CapturedPhase, At
      <3>1. task[u].pc \in {"initialStatus", "teardown", "resurrected", "lookup"}
              => task[u].eng \in Engines
        BY Fields DEF InPlace, EngineOrNone
      <3>2. task[u].pc = "initialStatus" => task[u].eng # task[t].eng
        BY <1>0, SoleWriter DEF At
      <3> QED BY <2>2, <2>3, <3>1, <3>2 DEF RegistryInv, CapturedPhase, At
    <2>7. ServingIsRegistered'
      <3>1. owner[task[t].eng] = task[t].sid
        BY <1>0, SessionAssumption DEF OwnInv, CapturedOwned
      <3> QED BY <1>0, <1>1, <2>2, <3>1
          DEF RegistryInv, ServingIsRegistered, Serving
    <2> QED BY <2>4, <2>5, <2>6, <2>7 DEF RegistryInv
  <1>2. CASE Goto(t, "rowCheck") /\ UNCHANGED phase
    <2>1. Advances(t) /\ \A u \in Slots \ {t} : task'[u] = task[u]
      BY <1>0, <1>2, GotoAdvances
    <2>2. KeepsRegistry BY <1>0, <1>2, <2>1, QuietRegistry
    <2> QED BY <2>2, KeepsRegistryInv
  <1>3. CASE Retire(t, task[t].sid)
    <2>1. KeepsRegistry BY <1>0, <1>3, RetireRegistry
    <2> QED BY <2>1, KeepsRegistryInv
  <1> QED BY <1>1, <1>2, <1>3
      DEF InitialStatusWritten, MayInitialize, IsLive, EngineReturned

LEMMA RegistryKept ==
  ASSUME Ops \cap {"drop", "import", "slow"} = {}
  PROVE  TInv /\ TInv' /\ OwnInv /\ OneStart /\ WriteInv /\ RegistryInv /\ [Next]_vars
           => RegistryInv'
  <1> SUFFICES ASSUME TInv, TInv', OwnInv, OneStart, WriteInv, RegistryInv, [Next]_vars
               PROVE  RegistryInv'
    OBVIOUS
  <1>1. ASSUME NEW t \in Slots, NEW s \in Sessions, Start(t, s) PROVE RegistryInv'
    <2>1. Advances(t) /\ \A u \in Slots \ {t} : task'[u] = task[u]
      BY <1>1, CallMoves DEF Start, world, Advances
    <2>2. KeepsRegistry
      BY <1>1, <2>1, QuietRegistry DEF Start, world, Advances
    <2> QED BY <2>2, KeepsRegistryInv
  <1>2. ASSUME NEW t \in Slots, NEW s \in Sessions, Stop(t, s) PROVE RegistryInv'
    <2>1. Advances(t) /\ \A u \in Slots \ {t} : task'[u] = task[u]
      BY <1>2, CallAdvances DEF Stop, Retiring, world
    <2>2. KeepsRegistry
      BY <1>2, <2>1, QuietRegistry, CancelTimers DEF Stop, Retiring, world
    <2> QED BY <2>2, KeepsRegistryInv
  <1>3. ASSUME NEW t \in Slots, NEW s \in Sessions, Logout(t, s) PROVE RegistryInv'
    <2>1. Advances(t) /\ \A u \in Slots \ {t} : task'[u] = task[u]
      BY <1>3, CallAdvances DEF Logout, Retiring, world
    <2>2. KeepsRegistry
      BY <1>3, <2>1, QuietRegistry, CancelTimers DEF Logout, Retiring, world
    <2> QED BY <2>2, KeepsRegistryInv
  <1>4. ASSUME NEW t \in Slots, NEW s \in Sessions, ForceKill(t, s)
        PROVE  RegistryInv'
    <2>1. Advances(t) /\ \A u \in Slots \ {t} : task'[u] = task[u]
      BY <1>4, CallAdvances DEF ForceKill, Retiring, world
    <2>2. KeepsRegistry
      BY <1>4, <2>1, QuietRegistry, CancelTimers DEF ForceKill, Retiring, world
    <2> QED BY <2>2, KeepsRegistryInv
  <1>5. ASSUME NEW t \in Slots, NEW s \in Sessions, Delete(t, s) PROVE RegistryInv'
    <2>1. Advances(t) /\ \A u \in Slots \ {t} : task'[u] = task[u]
      BY <1>5, CallAdvances DEF Delete, memory, world
    <2>2. KeepsRegistry
      BY <1>5, <2>1, QuietRegistry DEF Delete, memory, world
    <2> QED BY <2>2, KeepsRegistryInv
  <1>6. ASSUME NEW t \in Slots, NEW e \in Engines, Ready(t, e) PROVE RegistryInv'
    <2>1. Advances(t) /\ \A u \in Slots \ {t} : task'[u] = task[u]
      BY <1>6, CallMoves DEF Ready, memory, world, Advances
    <2>2. KeepsRegistry
      BY <1>6, <2>1, QuietRegistry DEF Ready, memory, world, Advances
    <2> QED BY <2>2, KeepsRegistryInv
  <1>7. ASSUME NEW t \in Slots, InitialStatusWritten(t) PROVE RegistryInv'
    BY <1>7, FirstWriteRegistry
  <1>8. ASSUME NEW t \in Slots, EngineInitialized(t) PROVE RegistryInv'
    <2>1. CASE Goto(t, "rowCheck") /\ UNCHANGED phase
      <3>1. Advances(t) /\ \A u \in Slots \ {t} : task'[u] = task[u]
        BY <1>8, <2>1, Fields, GotoAdvances DEF EngineInitialized, At
      <3>2. KeepsRegistry
        BY <1>8, <2>1, <3>1, QuietRegistry DEF EngineInitialized, memory
      <3> QED BY <3>2, KeepsRegistryInv
    <2>2. CASE Retire(t, task[t].sid)
      <3>1. KeepsRegistry
        BY <1>8, <2>2, RetireRegistry DEF EngineInitialized, memory, At
      <3> QED BY <3>1, KeepsRegistryInv
    <2> QED BY <1>8, <2>1, <2>2 DEF EngineInitialized, EngineReturned
  <1>9. ASSUME NEW t \in Slots, EngineInitTimeout(t) PROVE RegistryInv'
    <2>1. /\ task[t].op = "start" /\ task[t].eng \in Engines /\ task[t].sid \in Sessions
          /\ engines[task[t].sid] \in {NoEngine, task[t].eng}
      BY <1>9, Fields
      DEF EngineInitTimeout, At, InPlace, EngineOrNone, RegistryInv, OnlyStarts,
          StartOwnsSlot
    <2>2. Advances(t) /\ \A u \in Slots \ {t} : task'[u] = task[u]
      <3>1. Goto(t, "reaped") BY <1>9 DEF EngineInitTimeout
      <3> QED BY <3>1, <1>9, GotoAdvances DEF EngineInitTimeout, At
    <2>3. \A u \in Slots : At(u, "initialStatus") /\ task'[u] = task[u]
            => task[u].eng # task[t].eng
      BY <1>9, <2>1, SoleWriter DEF EngineInitTimeout, At
    <2>4. KeepsRegistry
      BY <1>9, <2>1, <2>2, <2>3, ClosingRegistry DEF EngineInitTimeout, TInv, TypeOK
    <2> QED BY <2>4, KeepsRegistryInv
  <1>10. ASSUME NEW t \in Slots, CheckRow(t) PROVE RegistryInv'
    <2>1. CASE ReturnFrom(t) /\ UNCHANGED phase
      <3>1. KeepsRegistry
        BY <1>10, <2>1, ReturnAdvances, QuietRegistry DEF CheckRow, ReturnFrom
      <3> QED BY <3>1, KeepsRegistryInv
    <2>2. CASE Retire(t, task[t].sid)
      <3>1. KeepsRegistry BY <1>10, <2>2, RetireRegistry DEF CheckRow, At
      <3> QED BY <3>1, KeepsRegistryInv
    <2> QED BY <1>10, <2>1, <2>2 DEF CheckRow
  <1>11. ASSUME NEW t \in Slots, ResurrectedDown(t) PROVE RegistryInv'
    <2>1. Advances(t) /\ \A u \in Slots \ {t} : task'[u] = task[u]
      BY <1>11, Fields, GotoAdvances DEF ResurrectedDown, At
    <2>2. KeepsRegistry BY <1>11, <2>1, DownRegistry DEF ResurrectedDown, At, world
    <2> QED BY <2>2, KeepsRegistryInv
  <1>12. ASSUME NEW t \in Slots, PurgeCheck(t) PROVE RegistryInv'
    <2>1. Advances(t) /\ \A u \in Slots \ {t} : task'[u] = task[u]
      BY <1>12, Fields, GotoAdvances, ReturnAdvances
      DEF PurgeCheck, memory, ReturnFrom, world, At
    <2>2. KeepsRegistry
      BY <1>12, <2>1, QuietRegistry DEF PurgeCheck, memory, ReturnFrom, world, At
    <2> QED BY <2>2, KeepsRegistryInv
  <1>13. ASSUME NEW t \in Slots, Repurge(t) PROVE RegistryInv'
    <2>1. Advances(t) /\ \A u \in Slots \ {t} : task'[u] = task[u]
      BY <1>13, Fields, GotoAdvances, ReturnAdvances
      DEF Repurge, memory, ReturnFrom, world, At
    <2>2. KeepsRegistry
      BY <1>13, <2>1, QuietRegistry DEF Repurge, memory, ReturnFrom, world, At
    <2> QED BY <2>2, KeepsRegistryInv
  <1>14. ASSUME NEW t \in Slots, StartChecks(t) PROVE RegistryInv'
    <2>1. Advances(t) /\ \A u \in Slots \ {t} : task'[u] = task[u]
      BY <1>14, CallMoves, ReturnAdvances
      DEF StartChecks, ReturnFrom, world, Advances
    <2>2. KeepsRegistry
      BY <1>14, <2>1, QuietRegistry DEF StartChecks, ReturnFrom, world, Advances
    <2> QED BY <2>2, KeepsRegistryInv
  <1>15. ASSUME NEW t \in Slots, StartAccepted(t) PROVE RegistryInv'
    <2>1. Advances(t) /\ \A u \in Slots \ {t} : task'[u] = task[u]
      BY <1>15, Fields, GotoAdvances DEF StartAccepted, world, At
    <2>2. KeepsRegistry
      BY <1>15, <2>1, QuietRegistry, CancelTimers, Fields
      DEF StartAccepted, world, At
    <2> QED BY <2>2, KeepsRegistryInv
  <1>16. ASSUME NEW t \in Slots, StartHookDone(t) PROVE RegistryInv'
    BY <1>16, CreationRegistry DEF StartHookDone, At
  <1>17. ASSUME NEW t \in Slots, StartFailed(t) PROVE RegistryInv'
    <2>1. /\ task[t].sid \in Sessions /\ Evict(task[t].sid)
          /\ task[t].pc \in {"initialStatus", "initialize", "reaped"}
      BY <1>17, Fields DEF StartFailed, InitFailed, At
    <2>2. Advances(t) /\ \A u \in Slots \ {t} : task'[u] = task[u]
      BY <1>17, <2>1, GotoAdvances, ReturnAdvances DEF StartFailed, ReturnFrom
    <2>3. \A u \in Slots : At(u, "initialStatus") /\ task'[u] = task[u]
            => task[u].eng # engines[task[t].sid]
      <3> SUFFICES ASSUME NEW u \in Slots, At(u, "initialStatus"),
                          task[u].eng = engines[task[t].sid]
                   PROVE  task'[u] # task[u]
        OBVIOUS
      <3>1. Registered(task[t].sid) BY Fields DEF At, InPlace, Registered
      <3>2. task[u].sid = task[t].sid BY <2>1, <3>1, CapturedSlot
      <3>3. u = t BY <1>17, <3>2, SoleCreator DEF StartFailed
      <3> QED BY <2>2, <3>3 DEF At, Advances
    <2>4. KeepsRegistry
      BY <1>17, <2>1, <2>2, <2>3, EvictRegistry DEF StartFailed
    <2> QED BY <2>4, KeepsRegistryInv
  <1>18. ASSUME NEW t \in Slots, StartFailedWritten(t) PROVE RegistryInv'
    <2>1. Advances(t) /\ \A u \in Slots \ {t} : task'[u] = task[u]
      BY <1>18, ReturnAdvances DEF StartFailedWritten, ReturnFrom, world
    <2>2. KeepsRegistry
      BY <1>18, <2>1, QuietRegistry DEF StartFailedWritten, ReturnFrom, world
    <2> QED BY <2>2, KeepsRegistryInv
  <1>19. ASSUME NEW t \in Slots, BeginTeardown(t) PROVE RegistryInv'
    <2>1. task[t].eng \in Engines /\ task[t].op # "start"
      BY <1>19, Fields DEF BeginTeardown, At, InPlace, EngineOrNone
    <2>2. TearDown(task[t].eng) BY <1>19 DEF BeginTeardown
    <2>3. Advances(t) /\ \A u \in Slots \ {t} : task'[u] = task[u]
      BY <1>19, <2>1, <2>2, CallMoves, TearDownClosing
      DEF BeginTeardown, Advances, RegistryInv, OnlyStarts
    <2>4. \A u \in Slots : At(u, "initialStatus") => task[u].eng # task[t].eng
      BY <1>19 DEF BeginTeardown, InitialStatusSettled, WriteInv, WriteAwaited
    <2>5. KeepsRegistry
      BY <1>19, <2>1, <2>2, <2>3, <2>4, ClosingRegistry DEF BeginTeardown, memory
    <2> QED BY <2>5, KeepsRegistryInv
  <1>20. ASSUME NEW t \in Slots, TeardownDone(t) PROVE RegistryInv'
    <2>1. Advances(t) /\ \A u \in Slots \ {t} : task'[u] = task[u]
      BY <1>20, Fields, GotoAdvances, CallAdvances
      DEF TeardownDone, At, RegistryInv, OnlyStarts
    <2>2. KeepsRegistry BY <1>20, <2>1, DownRegistry DEF TeardownDone, At, world
    <2> QED BY <2>2, KeepsRegistryInv
  <1>21. ASSUME NEW t \in Slots, FinalStatusWritten(t) PROVE RegistryInv'
    <2>1. Advances(t) /\ \A u \in Slots \ {t} : task'[u] = task[u]
      BY <1>21, ReturnAdvances DEF FinalStatusWritten, world
    <2>2. KeepsRegistry
      BY <1>21, <2>1, QuietRegistry DEF FinalStatusWritten, world
    <2> QED BY <2>2, KeepsRegistryInv
  <1>22. ASSUME NEW t \in Slots, DeleteFenced(t) PROVE RegistryInv'
    <2>1. Advances(t) /\ \A u \in Slots \ {t} : task'[u] = task[u]
      BY <1>22, Fields, GotoAdvances DEF DeleteFenced, memory, world, At, InPlace
    <2>2. KeepsRegistry
      BY <1>22, <2>1, QuietRegistry DEF DeleteFenced, memory, world, At, InPlace
    <2> QED BY <2>2, KeepsRegistryInv
  <1>23. ASSUME NEW t \in Slots, DeleteCommits(t) PROVE RegistryInv'
    <2>1. Advances(t) /\ \A u \in Slots \ {t} : task'[u] = task[u]
      BY <1>23, GotoAdvances DEF DeleteCommits, memory, world
    <2>2. KeepsRegistry
      BY <1>23, <2>1, QuietRegistry DEF DeleteCommits, memory, world
    <2> QED BY <2>2, KeepsRegistryInv
  <1>24. ASSUME NEW t \in Slots, DeleteFails(t) PROVE RegistryInv'
    <2>1. Advances(t) /\ \A u \in Slots \ {t} : task'[u] = task[u]
      BY <1>24, ReturnAdvances DEF DeleteFails, world
    <2>2. KeepsRegistry
      BY <1>24, <2>1, QuietRegistry DEF DeleteFails, world
    <2> QED BY <2>2, KeepsRegistryInv
  <1>25. ASSUME NEW t \in Slots, DeletePurges(t) PROVE RegistryInv'
    <2>1. Advances(t) /\ \A u \in Slots \ {t} : task'[u] = task[u]
      BY <1>25, ReturnAdvances DEF DeletePurges, world
    <2>2. KeepsRegistry
      BY <1>25, <2>1, QuietRegistry DEF DeletePurges, world
    <2> QED BY <2>2, KeepsRegistryInv
  <1>26. ASSUME NEW t \in Slots, ImportEnds(t) PROVE RegistryInv'
    <2>1. Advances(t) /\ \A u \in Slots \ {t} : task'[u] = task[u]
      BY <1>26, ReturnAdvances DEF ImportEnds, memory, world
    <2>2. KeepsRegistry
      BY <1>26, <2>1, QuietRegistry DEF ImportEnds, memory, world
    <2> QED BY <2>2, KeepsRegistryInv
  <1>27. ASSUME NEW t \in Slots, FinalizeReady(t) PROVE RegistryInv'
    <2>1. Advances(t) /\ \A u \in Slots \ {t} : task'[u] = task[u]
      BY <1>27, ReturnAdvances DEF FinalizeReady, IsLive, world
    <2>2. KeepsRegistry
      BY <1>27, <2>1, QuietRegistry, Fields, FinalTimers
      DEF FinalizeReady, IsLive, world
    <2> QED BY <2>2, KeepsRegistryInv
  <1>28. ASSUME NEW t \in Slots, DeleteAccepted(t) PROVE RegistryInv'
    <2>1. Advances(t) /\ \A u \in Slots \ {t} : task'[u] = task[u]
      BY <1>28, CallAdvances DEF DeleteAccepted, Retiring, world
    <2>2. KeepsRegistry
      BY <1>28, <2>1, QuietRegistry, CancelTimers, Fields
      DEF DeleteAccepted, Retiring, world
    <2> QED BY <2>2, KeepsRegistryInv
  <1>29. ASSUME NEW t \in Slots, FenceTimeout(t) PROVE RegistryInv'
    <2>1. Advances(t) /\ \A u \in Slots \ {t} : task'[u] = task[u]
      BY <1>29, Fields, GotoAdvances, ReturnAdvances
      DEF FenceTimeout, ReturnFrom, world, At, InPlace
    <2>2. KeepsRegistry
      BY <1>29, <2>1, QuietRegistry DEF FenceTimeout, ReturnFrom, world, At, InPlace
    <2> QED BY <2>2, KeepsRegistryInv
  <1>30. ASSUME NEW t \in Slots, RejectDuplicate(t) PROVE RegistryInv'
    <2>1. task[t].eng \in Engines /\ phase[task[t].eng] # "created"
      BY <1>30, Fields
      DEF RejectDuplicate, At, InPlace, EngineOrNone, RegistryInv, CapturedPhase
    <2>2. TearDown(task[t].eng) BY <1>30 DEF RejectDuplicate
    <2>3. Advances(t) /\ \A u \in Slots \ {t} : task'[u] = task[u]
      BY <1>30, <2>1, <2>2, Fields, GotoMoves, TearDownClosing
      DEF RejectDuplicate, Advances, InPlace, At
    <2>4. \A u \in Slots : At(u, "initialStatus") => task[u].eng # task[t].eng
      BY <2>1 DEF RegistryInv, CapturedPhase
    <2>5. KeepsRegistry
      BY <1>30, <2>1, <2>2, <2>3, <2>4, ClosingRegistry DEF RejectDuplicate
    <2> QED BY <2>5, KeepsRegistryInv
  <1>31. ASSUME NEW e \in Engines, EngineError(e) PROVE RegistryInv'
    <2>1. /\ owner[e] \in Sessions /\ engines[owner[e]] = e /\ phase[e] = "running"
          /\ Evict(owner[e])
      BY <1>31, OwnerTyped DEF EngineError, IsLive
    <2>2. \A u \in Slots : At(u, "initialStatus") => task[u].eng # e
      BY <2>1 DEF RegistryInv, CapturedPhase
    <2>3. KeepsRegistry
      BY <1>31, <2>1, <2>2, CancelTimers, EvictRegistry DEF EngineError
    <2> QED BY <2>3, KeepsRegistryInv
  <1>32. ASSUME NEW e \in Engines, RemoteLoggedOut(e) PROVE RegistryInv'
    <2>1. KeepsRegistry
      BY <1>32
      DEF RemoteLoggedOut, memory, KeepsRegistry, Ages, RegistryInv,
          CapturedPhase, At, TInv, TypeOK
    <2> QED BY <2>1, KeepsRegistryInv
  <1>33. ASSUME NEW e \in logouts, LogoutSettles(e) PROVE RegistryInv'
    <2>1. KeepsRegistry
      BY <1>33
      DEF LogoutSettles, memory, KeepsRegistry, Ages, RegistryInv, CapturedPhase
    <2> QED BY <2>1, KeepsRegistryInv
  <1>34. ASSUME NEW w \in late, LateWriteSettles(w) PROVE RegistryInv'
    <2>1. KeepsRegistry
      BY <1>34
      DEF LateWriteSettles, memory, world, KeepsRegistry, Ages, RegistryInv,
          CapturedPhase
    <2> QED BY <2>1, KeepsRegistryInv
  <1>35. ASSUME NEW s \in Sessions, Create(s) PROVE RegistryInv'
    <2>1. KeepsRegistry
      BY <1>35
      DEF Create, memory, world, KeepsRegistry, Ages, RegistryInv, CapturedPhase
    <2> QED BY <2>1, KeepsRegistryInv
  <1>36. ASSUME UNCHANGED vars PROVE RegistryInv'
    BY <1>36
    DEF vars, RegistryInv, OnlyStarts, StartOwnsSlot, CapturedPhase,
        ServingIsRegistered, Registered, At, Serving
  <1>37. ASSUME NEW t \in Slots,
                \/ \E s \in Sessions : ReconnectTimer(t, s)
                \/ Reconnects(t) \/ ReconnectFailed(t) \/ HandleDisconnected(t)
        PROVE  FALSE
    BY <1>37, Fields
    DEF ReconnectTimer, Reconnects, ReconnectFailed, HandleDisconnected,
        RegistryInv, OnlyStarts
  <1>38. ASSUME NEW t \in Slots, ControlRejected(t) PROVE RegistryInv'
    <2>1. Advances(t) /\ \A u \in Slots \ {t} : task'[u] = task[u]
      BY <1>38, ReturnAdvances DEF ControlRejected
    <2>2. KeepsRegistry BY <1>38, <2>1, QuietRegistry DEF ControlRejected
    <2> QED BY <2>2, KeepsRegistryInv
  <1> QED BY <1>1, <1>2, <1>3, <1>4, <1>5, <1>6, <1>7, <1>8, <1>9, <1>10,
             <1>11, <1>12, <1>13, <1>14, <1>15, <1>16, <1>17, <1>18, <1>19,
             <1>20, <1>21, <1>22, <1>23, <1>24, <1>25, <1>26, <1>27, <1>28,
             <1>29, <1>30, <1>31, <1>32, <1>33, <1>34, <1>35, <1>36, <1>37, <1>38
          DEF Next, Request, EngineEvent, Resume

ServeInv == SafeInv /\ OneStart /\ WriteInv /\ RegistryInv

LEMMA ServeInitially == Init => ServeInv
  <1>1. Init => SafeInv BY SafeInitially
  <1>2. Init => OneStart /\ WriteInv /\ RegistryInv
    BY IdleTyped
    DEF Init, OneStart, WriteInv, OneWriter, WriteTracked, WriteAwaited,
        RetiredWriteSettled, RegistryInv, OnlyStarts, StartOwnsSlot, CapturedPhase,
        ServingIsRegistered, Serving, NoReconnect, At
  <1> QED BY <1>1, <1>2 DEF ServeInv

LEMMA ServeStep ==
  ASSUME Ops \cap {"drop", "import", "slow"} = {}
  PROVE  ServeInv /\ [Next]_vars => ServeInv'
  BY SafeStep, Starts, WritesKept, RegistryKept DEF ServeInv, SafeInv

(* While no connection drops, no import runs and the write of INITIALIZING *)
(* settles in time, an engine that serves is the registered one, whatever  *)
(* else of starts, controls, errors and logouts interleaves.               *)
THEOREM SocketsAreRegistered ==
  ASSUME Ops \cap {"drop", "import", "slow"} = {}
  PROVE  Spec => []ServingIsRegistered
  <1>1. ServeInv => ServingIsRegistered BY DEF ServeInv, RegistryInv
  <1> QED BY <1>1, ServeInitially, ServeStep, PTL DEF Spec

-----------------------------------------------------------------------------
(* Stop is final *)

(* The call that will take the engine of s out of the registry, or find    *)
(* the stop mark of s once its engine has initialized.                     *)
Ending(t, s) ==
  /\ task[t].sid = s
  /\ \/ /\ task[t].pc \in {"awaitInitial", "teardown", "resurrected"}
        /\ task[t].eng = engines[s]
     \/ task[t].pc \in {"initialStatus", "initialize"}

NoRejects == \A t \in Slots : task[t].op # "ready"

StopEnds ==
  \A s \in stopping : Registered(s) => \E t \in Slots : Ending(t, s)

StopInv == NoRejects /\ StopEnds

KeepsStops ==
  /\ \A t \in Slots : task'[t] = task[t] \/ task'[t].op # "ready"
  /\ \A s \in stopping' : Registered(s)' =>
       \/ \E t \in Slots : Ending(t, s)'
       \/ /\ s \in stopping /\ engines'[s] = engines[s]
          /\ \A t \in Slots : Ending(t, s) => task'[t] = task[t]

LEMMA KeepsStopInv ==
  ASSUME StopInv, KeepsStops PROVE StopInv'
  <1>1. NoRejects' BY DEF StopInv, NoRejects, KeepsStops
  <1>2. ASSUME NEW s \in stopping', Registered(s)'
        PROVE  \E t \in Slots : Ending(t, s)'
    <2>1. CASE /\ s \in stopping /\ engines'[s] = engines[s]
               /\ \A t \in Slots : Ending(t, s) => task'[t] = task[t]
      <3>1. Registered(s) BY <1>2, <2>1 DEF Registered
      <3>2. PICK t \in Slots : Ending(t, s) BY <2>1, <3>1 DEF StopInv, StopEnds
      <3> QED BY <2>1, <3>2 DEF Ending
    <2> QED BY <1>2, <2>1 DEF KeepsStops
  <1> QED BY <1>1, <1>2 DEF StopInv, StopEnds

(* A step that sets no mark, registers nothing and moves no call that ends *)
(* an engine which stays registered.                                       *)
LEMMA QuietStops ==
  ASSUME TInv, stopping' \subseteq stopping,
         \A s \in Sessions : engines'[s] \in {engines[s], NoEngine},
         NEW t \in Slots, task'[t].op # "ready" \/ task'[t] = task[t],
         \A s \in Sessions : Registered(s)' => ~Ending(t, s),
         \A u \in Slots \ {t} : task'[u] = task[u]
  PROVE  KeepsStops
  <1>1. stopping \subseteq Sessions BY DEF TInv, TypeOK
  <1> QED BY <1>1 DEF KeepsStops, Registered

(* A control sets the mark of s and captures the engine of s. *)
LEMMA MarkStops ==
  ASSUME TInv, NEW t \in Slots, NEW s \in Sessions, NEW op,
         op # "ready", NEW without, Retiring(t, op, s, without),
         ~Registered(s) => task'[t].op # "ready" /\ \A u \in Slots \ {t} : task'[u] = task[u],
         task[t].pc \in {"idle", "fence"}
  PROVE  KeepsStops
  <1>1. stopping' = stopping \cup {s} /\ engines' = engines BY DEF Retiring
  <1>2. \A r : ~Ending(t, r) BY DEF Ending
  <1>3. CASE Registered(s)
    <2>1. Call(t, op, s, "awaitInitial", engines[s], PendingWrite(s))
      BY <1>3 DEF Retiring
    <2>2. /\ task'[t].op = op /\ task'[t].sid = s /\ task'[t].pc = "awaitInitial"
          /\ task'[t].eng = engines[s] /\ \A u \in Slots \ {t} : task'[u] = task[u]
      BY <2>1, CallMoves
    <2>3. Ending(t, s)' BY <1>1, <2>2 DEF Ending
    <2> QED BY <1>1, <1>2, <2>2, <2>3 DEF KeepsStops
  <1>4. CASE ~Registered(s)
    BY <1>1, <1>2, <1>4 DEF KeepsStops, Registered
  <1> QED BY <1>3, <1>4

(* A start whose engine has initialized finds the mark, or no mark is set. *)
LEMMA ReturnedStops ==
  ASSUME TInv, StopInv, NEW t \in Slots, task[t].sid \in Sessions,
         task[t].pc \in {"initialStatus", "initialize"},
         EngineReturned(t, task[t].sid), UNCHANGED <<engines, stopping>>
  PROVE  KeepsStops
  <1>1. task[t].op # "ready" BY DEF StopInv, NoRejects
  <1>2. \A r : Ending(t, r) => r = task[t].sid BY DEF Ending
  <1>3. CASE task[t].sid \in stopping
    <2>1. CASE Registered(task[t].sid)
      <3>1. Call(t, task[t].op, task[t].sid, "resurrected", engines[task[t].sid], {})
        BY <1>3, <2>1 DEF EngineReturned, Retire
      <3>2. /\ \A s : s = task[t].sid => Ending(t, s)'
            /\ task'[t].op # "ready"
            /\ \A u \in Slots \ {t} : task'[u] = task[u]
        BY <1>1, <3>1, CallMoves DEF Ending
      <3> QED BY <1>2, <3>2 DEF KeepsStops
    <2>2. CASE ~Registered(task[t].sid)
      <3>1. task'[t].op # "ready" /\ \A u \in Slots \ {t} : task'[u] = task[u]
        BY <1>1, <1>3, <2>2, GotoMoves DEF EngineReturned, Retire
      <3> QED BY <1>2, <2>2, <3>1 DEF KeepsStops, Registered
    <2> QED BY <2>1, <2>2
  <1>4. CASE task[t].sid \notin stopping
    <2>1. task'[t].op # "ready" /\ \A u \in Slots \ {t} : task'[u] = task[u]
      BY <1>1, <1>4, GotoMoves DEF EngineReturned
    <2> QED BY <1>2, <1>4, <2>1 DEF KeepsStops
  <1> QED BY <1>3, <1>4

LEMMA ReturnEnds ==
  ASSUME TInv, NEW t \in Slots, Return(t)
  PROVE  task'[t] = IdleTask /\ task'[t].op = "idle" /\ task'[t].pc = "idle"
         /\ \A u \in Slots \ {t} : task'[u] = task[u]
  BY IdleTyped DEF TInv, TypeOK, Return

(* A control whose awaited write was rejected is still at its wait, and the *)
(* catch of the start has taken its engine out of the registry.            *)
RejectedGone ==
  \A t \in rejected :
    At(t, "awaitInitial") /\ engines[task[t].sid] # task[t].eng

(* What every step but the failure of an engine does to them. *)
KeepsRejected ==
  /\ \A t \in rejected' : t \in rejected /\ task'[t] = task[t]
  /\ \A s \in Sessions : engines'[s] \in {engines[s], NoEngine} \cup Free

LEMMA KeepsRejectedGone ==
  ASSUME TInv, OwnInv, RejectedGone, KeepsRejected
  PROVE  RejectedGone'
  <1> SUFFICES ASSUME NEW t \in rejected'
               PROVE  /\ task'[t].pc = "awaitInitial"
                      /\ engines'[task'[t].sid] # task'[t].eng
    BY DEF RejectedGone, At
  <1>1. t \in rejected /\ t \in Slots /\ task'[t] = task[t]
    BY DEF KeepsRejected, TInv, TypeOK
  <1>2. /\ task[t].pc = "awaitInitial" /\ task[t].sid \in Sessions
        /\ engines[task[t].sid] # task[t].eng /\ task[t].eng # NoEngine
    BY <1>1, Fields DEF RejectedGone, At, InPlace
  <1>3. task[t].eng \notin Free
    BY <1>1, <1>2 DEF OwnInv, CapturedOwned, Free
  <1> QED BY <1>1, <1>2, <1>3 DEF KeepsRejected

(* The failed engine leaves the registry, and it is the one the rejected   *)
(* controls hold.                                                          *)
LEMMA FailureRejects ==
  ASSUME TInv, OwnInv, RejectedGone, NEW t \in Slots, InitFailed(t),
         Evict(task[t].sid), \A u \in Slots \ {t} : task'[u] = task[u]
  PROVE  RejectedGone'
  <1>1. /\ task[t].sid \in Sessions /\ task[t].pc # "awaitInitial"
        /\ task[t].eng # NoEngine
    BY Fields DEF InitFailed, At, InPlace
  <1>2. \A s \in Sessions : engines'[s] \in {engines[s], NoEngine}
    BY <1>1, EvictCarries
  <1>3. engines'[task[t].sid] = NoEngine BY <1>1, EvictSlots DEF Registered
  <1> SUFFICES ASSUME NEW u \in rejected'
               PROVE  /\ task'[u].pc = "awaitInitial"
                      /\ engines'[task'[u].sid] # task'[u].eng
    BY DEF RejectedGone, At
  <1>4. u \in rejected \/ u \in AwaitingWrite(t) BY DEF InitFailed
  <1>5. u \in Slots /\ task[u].pc = "awaitInitial"
    BY <1>4 DEF AwaitingWrite, RejectedGone, At, TInv, TypeOK
  <1>6. task'[u] = task[u] BY <1>1, <1>5
  <1>7. task[u].sid \in Sessions /\ task[u].eng # NoEngine
    BY <1>5, Fields DEF InPlace
  <1>8. CASE u \in rejected
    BY <1>2, <1>5, <1>6, <1>7, <1>8 DEF RejectedGone
  <1>9. CASE u \in AwaitingWrite(t)
    <2>1. task[u].sid = task[t].sid
      BY <1>1, <1>5, <1>9 DEF AwaitingWrite, OwnInv, CapturedOwned
    <2> QED BY <1>3, <1>5, <1>6, <1>7, <2>1
  <1> QED BY <1>4, <1>8, <1>9

LEMMA RejectionsKept ==
  TInv /\ OwnInv /\ RejectedGone /\ [Next]_vars => RejectedGone'
  <1> SUFFICES ASSUME TInv, OwnInv, RejectedGone, [Next]_vars PROVE RejectedGone'
    OBVIOUS
  <1>0. rejected \subseteq Slots BY DEF TInv, TypeOK
  <1>1. ASSUME NEW t \in Slots, NEW s \in Sessions,
               Start(t, s) \/ Stop(t, s) \/ Logout(t, s) \/ ForceKill(t, s)
                 \/ Delete(t, s)
        PROVE  KeepsRejected
    BY <1>0, <1>1, CallMoves
    DEF Start, Stop, Logout, ForceKill, Delete, Retiring, Idle, At, memory, world,
        promises, KeepsRejected, RejectedGone
  <1>2. ASSUME NEW t \in Slots, NEW s \in Sessions,
               ImportData(t, s) \/ ReconnectTimer(t, s)
        PROVE  KeepsRejected
    BY <1>0, <1>2, CallMoves
    DEF ImportData, StopOrphanEngines, ReconnectTimer, Idle, At, promises,
        KeepsRejected, RejectedGone
  <1>3. ASSUME NEW t \in Slots, NEW e \in Engines,
               Disconnected(t, e) \/ Ready(t, e)
        PROVE  KeepsRejected
    BY <1>0, <1>3, CallMoves
    DEF Disconnected, Ready, Idle, At, memory, world, promises, KeepsRejected,
        RejectedGone
  <1>4. ASSUME NEW t \in Slots,
               InitialStatusWritten(t) \/ EngineInitialized(t) \/ CheckRow(t)
        PROVE  KeepsRejected
    BY <1>0, <1>4, CallMoves, GotoMoves, ReturnMoves
    DEF InitialStatusWritten, EngineInitialized, CheckRow, EngineReturned, Retire,
        ReturnFrom, At, memory, promises, KeepsRejected, RejectedGone
  <1>5. ASSUME NEW t \in Slots,
               EngineInitTimeout(t) \/ ResurrectedDown(t) \/ PurgeCheck(t)
                 \/ Repurge(t)
        PROVE  KeepsRejected
    BY <1>5, GotoMoves, ReturnMoves, DeleteIfLiveCarries
    DEF EngineInitTimeout, ResurrectedDown, PurgeCheck, Repurge, ReturnFrom, At,
        world, promises, KeepsRejected, RejectedGone, TInv, TypeOK
  <1>6. ASSUME NEW t \in Slots,
               StartChecks(t) \/ StartAccepted(t) \/ StartFailedWritten(t)
                 \/ FenceTimeout(t)
        PROVE  KeepsRejected
    BY <1>0, <1>6, CallMoves, GotoMoves, ReturnMoves
    DEF StartChecks, StartAccepted, StartFailedWritten, FenceTimeout, ReturnFrom,
        At, world, promises, KeepsRejected, RejectedGone
  <1>7. ASSUME NEW t \in Slots, StartHookDone(t) \/ Reconnects(t)
        PROVE  KeepsRejected
    BY <1>7, CallMoves
    DEF StartHookDone, Reconnects, InitializeEngine, At, promises, KeepsRejected,
        RejectedGone, TInv, TypeOK
  <1>8. ASSUME NEW t \in Slots, BeginTeardown(t)
        PROVE  KeepsRejected
    BY <1>0, <1>8, CallMoves
    DEF BeginTeardown, BeginLogout, memory, promises, KeepsRejected
  <1>9. ASSUME NEW t \in Slots, ControlRejected(t)
        PROVE  KeepsRejected
    BY <1>9, ReturnMoves DEF ControlRejected, KeepsRejected, TInv, TypeOK
  <1>10. ASSUME NEW t \in Slots,
               TeardownDone(t) \/ FinalStatusWritten(t) \/ DeleteAccepted(t)
        PROVE  KeepsRejected
    BY <1>0, <1>10, CallMoves, GotoMoves, ReturnMoves, DeleteIfLiveCarries
    DEF TeardownDone, FinalStatusWritten, DeleteAccepted, Retiring, At, world,
        promises, KeepsRejected, RejectedGone
  <1>11. ASSUME NEW t \in Slots,
               DeleteFenced(t) \/ DeleteCommits(t) \/ DeleteFails(t)
                 \/ DeletePurges(t) \/ ImportEnds(t)
        PROVE  KeepsRejected
    BY <1>0, <1>11, GotoMoves, ReturnMoves
    DEF DeleteFenced, DeleteCommits, DeleteFails, DeletePurges, ImportEnds, At,
        memory, world, promises, KeepsRejected, RejectedGone
  <1>12. ASSUME NEW t \in Slots, FinalizeReady(t) \/ RejectDuplicate(t)
        PROVE  KeepsRejected
    BY <1>0, <1>12, GotoMoves, ReturnMoves
    DEF FinalizeReady, RejectDuplicate, BeginLogout, At, world, promises,
        KeepsRejected, RejectedGone
  <1>13. ASSUME NEW t \in Slots, HandleDisconnected(t) PROVE KeepsRejected
    <2>1. \A s \in Sessions : engines'[s] \in {engines[s], NoEngine}
      BY <1>13, Fields, ScheduleCarries DEF HandleDisconnected
    <2> QED BY <1>0, <1>13, <2>1, ReturnMoves
        DEF HandleDisconnected, At, promises, KeepsRejected, RejectedGone
  <1>14. ASSUME NEW t \in Slots, StartFailed(t) PROVE RejectedGone'
    BY <1>14, GotoMoves, ReturnMoves, FailureRejects DEF StartFailed, ReturnFrom
  <1>15. ASSUME NEW t \in Slots, ReconnectFailed(t) PROVE RejectedGone'
    <2>1. Evict(task[t].sid) /\ \A u \in Slots \ {t} : task'[u] = task[u]
      BY <1>15, ReturnMoves DEF ReconnectFailed, ScheduleReconnect
    <2>2. CASE InitFailed(t) BY <2>1, <2>2, FailureRejects
    <2>3. CASE At(t, "fence") /\ UNCHANGED rejected
      <3>1. KeepsRejected
        BY <2>1, <2>3, Fields, EvictCarries
        DEF At, KeepsRejected, RejectedGone, TInv, TypeOK
      <3> QED BY <3>1, KeepsRejectedGone
    <2> QED BY <1>15, <2>2, <2>3 DEF ReconnectFailed
  <1>16. ASSUME NEW e \in Engines, EngineError(e) \/ RemoteLoggedOut(e)
        PROVE  KeepsRejected
    <2>1. \A s \in Sessions : engines'[s] \in {engines[s], NoEngine}
      BY <1>16, EvictCarries DEF EngineError, RemoteLoggedOut, memory
    <2> QED BY <1>16, <2>1
        DEF EngineError, RemoteLoggedOut, BeginLogout, promises, KeepsRejected
  <1>17. ASSUME \/ \E w \in late : LateWriteSettles(w)
                \/ \E e \in logouts : LogoutSettles(e)
                \/ \E s \in Sessions : Create(s)
                \/ UNCHANGED vars
        PROVE  KeepsRejected
    BY <1>17
    DEF LateWriteSettles, LogoutSettles, Create, memory, world, promises, vars,
        KeepsRejected
  <1> QED BY <1>1, <1>2, <1>3, <1>4, <1>5, <1>6, <1>7, <1>8, <1>9, <1>10,
             <1>11, <1>12, <1>13, <1>14, <1>15, <1>16, <1>17, KeepsRejectedGone
          DEF Next, Request, EngineEvent, Resume

LEMMA StopsKept ==
  ASSUME Ops \cap {"drop", "import", "slow", "ready"} = {}
  PROVE  TInv /\ OwnInv /\ RegistryInv /\ RejectedGone /\ StopInv /\ [Next]_vars
           => StopInv'
  <1> SUFFICES ASSUME TInv, OwnInv, RegistryInv, RejectedGone, StopInv, [Next]_vars
               PROVE  StopInv'
    OBVIOUS
  <1>1. ASSUME NEW t \in Slots, NEW s \in Sessions, Start(t, s) PROVE StopInv'
    <2>1. /\ task'[t].op # "ready" /\ \A r \in Sessions : ~Ending(t, r)
          /\ \A u \in Slots \ {t} : task'[u] = task[u]
      BY <1>1, CallMoves DEF Start, At, Idle, Ending, StopInv, NoRejects
    <2>2. KeepsStops BY <1>1, <2>1, QuietStops DEF Start
    <2> QED BY <2>2, KeepsStopInv
  <1>2. ASSUME NEW t \in Slots, NEW s \in Sessions, Stop(t, s) PROVE StopInv'
    <2>1. /\ task[t].pc = "idle"
          /\ Retiring(t, "stop", s, Call(t, "stop", s, "final", NoEngine, {}))
      BY <1>2 DEF Stop, Idle, At
    <2>2. ~Registered(s)
            => task'[t].op # "ready" /\ \A u \in Slots \ {t} : task'[u] = task[u]
      BY <2>1, CallMoves DEF Retiring
    <2>3. KeepsStops BY <2>1, <2>2, MarkStops
    <2> QED BY <2>3, KeepsStopInv
  <1>3. ASSUME NEW t \in Slots, NEW s \in Sessions, Logout(t, s) PROVE StopInv'
    <2>1. KeepsStops
      BY <1>3, MarkStops, CallMoves, Fields DEF Logout, Retiring, Idle, At
    <2> QED BY <2>1, KeepsStopInv
  <1>4. ASSUME NEW t \in Slots, NEW s \in Sessions, ForceKill(t, s)
        PROVE  StopInv'
    <2>1. KeepsStops
      BY <1>4, MarkStops, CallMoves, Fields DEF ForceKill, Retiring, Idle, At
    <2> QED BY <2>1, KeepsStopInv
  <1>5. ASSUME NEW t \in Slots, NEW s \in Sessions, Delete(t, s) PROVE StopInv'
    <2>1. /\ task'[t].op # "ready" /\ \A r \in Sessions : ~Ending(t, r)
          /\ \A u \in Slots \ {t} : task'[u] = task[u]
      BY <1>5, CallMoves DEF Delete, memory, At, Idle, Ending, StopInv, NoRejects
    <2>2. KeepsStops BY <1>5, <2>1, QuietStops DEF Delete, memory
    <2> QED BY <2>2, KeepsStopInv
  <1>6. ASSUME NEW t \in Slots, InitialStatusWritten(t) PROVE StopInv'
    <2>1. task[t].sid \in Sessions /\ UNCHANGED <<engines, stopping>>
          /\ task[t].pc = "initialStatus"
      BY <1>6, Fields DEF InitialStatusWritten, At
    <2>2. CASE Goto(t, "initialize")
      <3>1. /\ \A s : s = task[t].sid => Ending(t, s)'
            /\ task'[t].op # "ready"
            /\ \A u \in Slots \ {t} : task'[u] = task[u]
        BY <2>2, GotoMoves DEF Ending, StopInv, NoRejects
      <3>2. KeepsStops BY <2>1, <3>1 DEF KeepsStops, Ending
      <3> QED BY <3>2, KeepsStopInv
    <2>3. CASE EngineReturned(t, task[t].sid)
      <3>1. KeepsStops BY <2>1, <2>3, ReturnedStops
      <3> QED BY <3>1, KeepsStopInv
    <2> QED BY <1>6, <2>2, <2>3 DEF InitialStatusWritten
  <1>7. ASSUME NEW t \in Slots, EngineInitialized(t) PROVE StopInv'
    <2>1. KeepsStops
      BY <1>7, Fields, ReturnedStops DEF EngineInitialized, At, memory
    <2> QED BY <2>1, KeepsStopInv
  <1>8. ASSUME NEW t \in Slots, EngineInitTimeout(t) PROVE StopInv'
    <2>1. /\ task'[t].op # "ready" /\ task[t].sid \in Sessions
          /\ engines' = [engines EXCEPT ![task[t].sid] = NoEngine]
          /\ \A u \in Slots \ {t} : task'[u] = task[u]
      BY <1>8, Fields, GotoMoves DEF EngineInitTimeout, StopInv, NoRejects
    <2>2. \A s \in Sessions : Registered(s)' => ~Ending(t, s)
      BY <2>1 DEF Registered, Ending, TInv, TypeOK
    <2>3. KeepsStops
      BY <1>8, <2>1, <2>2, QuietStops DEF EngineInitTimeout, TInv, TypeOK
    <2> QED BY <2>3, KeepsStopInv
  <1>9. ASSUME NEW t \in Slots, CheckRow(t) PROVE StopInv'
    <2>1. /\ task'[t].op # "ready" /\ \A s \in Sessions : ~Ending(t, s)
          /\ \A u \in Slots \ {t} : task'[u] = task[u]
      BY <1>9, ReturnEnds, GotoMoves, CallMoves
      DEF CheckRow, ReturnFrom, Retire, At, Idle, Ending, StopInv, NoRejects
    <2>2. KeepsStops BY <1>9, <2>1, QuietStops DEF CheckRow, ReturnFrom, Retire
    <2> QED BY <2>2, KeepsStopInv
  <1>10. ASSUME NEW t \in Slots, ResurrectedDown(t) PROVE StopInv'
    <2>1. task[t].eng # NoEngine /\ task[t].pc \in {"teardown", "resurrected"}
      BY <1>10, Fields DEF ResurrectedDown, At, InPlace
    <2>2. \A r \in Sessions : Registered(r)' =>
            engines'[r] = engines[r] /\ engines[r] # task[t].eng
      BY <1>10, <2>1, DeleteIfLiveSlots DEF ResurrectedDown
    <2>3. \A s \in Sessions : engines'[s] \in {engines[s], NoEngine}
      BY <2>2, SessionAssumption DEF Registered
    <2>4. task'[t].op # "ready" /\ \A u \in Slots \ {t} : task'[u] = task[u]
      BY <1>10, GotoMoves, CallMoves DEF ResurrectedDown, StopInv, NoRejects
    <2>5. KeepsStops
      BY <1>10, <2>1, <2>2, <2>3, <2>4, QuietStops DEF ResurrectedDown, Ending
    <2> QED BY <2>5, KeepsStopInv
  <1>11. ASSUME NEW t \in Slots, PurgeCheck(t) PROVE StopInv'
    <2>1. /\ task'[t].op # "ready" /\ \A s \in Sessions : ~Ending(t, s)
          /\ \A u \in Slots \ {t} : task'[u] = task[u]
      BY <1>11, ReturnEnds, GotoMoves
      DEF PurgeCheck, ReturnFrom, At, Idle, Ending, StopInv, NoRejects
    <2>2. KeepsStops BY <1>11, <2>1, QuietStops DEF PurgeCheck, ReturnFrom
    <2> QED BY <2>2, KeepsStopInv
  <1>12. ASSUME NEW t \in Slots, Repurge(t) PROVE StopInv'
    <2>1. /\ task'[t].op # "ready" /\ \A s \in Sessions : ~Ending(t, s)
          /\ \A u \in Slots \ {t} : task'[u] = task[u]
      BY <1>12, ReturnEnds
      DEF Repurge, ReturnFrom, At, Idle, Ending, StopInv, NoRejects
    <2>2. KeepsStops BY <1>12, <2>1, QuietStops DEF Repurge, ReturnFrom
    <2> QED BY <2>2, KeepsStopInv
  <1>13. ASSUME NEW t \in Slots, StartChecks(t) PROVE StopInv'
    <2>1. /\ task'[t].op # "ready" /\ \A s \in Sessions : ~Ending(t, s)
          /\ \A u \in Slots \ {t} : task'[u] = task[u]
      BY <1>13, ReturnEnds, CallMoves
      DEF StartChecks, ReturnFrom, At, Idle, Ending, StopInv, NoRejects
    <2>2. KeepsStops BY <1>13, <2>1, QuietStops DEF StartChecks, ReturnFrom
    <2> QED BY <2>2, KeepsStopInv
  <1>14. ASSUME NEW t \in Slots, StartAccepted(t) PROVE StopInv'
    <2>1. /\ task'[t].op # "ready" /\ \A s \in Sessions : ~Ending(t, s)
          /\ \A u \in Slots \ {t} : task'[u] = task[u]
      BY <1>14, GotoMoves DEF StartAccepted, At, Idle, Ending, StopInv, NoRejects
    <2>2. KeepsStops BY <1>14, <2>1, QuietStops DEF StartAccepted
    <2> QED BY <2>2, KeepsStopInv
  <1>15. ASSUME NEW t \in Slots, StartHookDone(t) PROVE StopInv'
    <2>1. PICK e \in Free : /\ engines' = [engines EXCEPT ![task[t].sid] = e]
                           /\ Call(t, task[t].op, task[t].sid, "initialStatus", e, {})
      BY <1>15 DEF StartHookDone, InitializeEngine
    <2>2. /\ \A s : s = task[t].sid => Ending(t, s)'
          /\ task'[t].op # "ready"
          /\ \A u \in Slots \ {t} : task'[u] = task[u]
          /\ \A s : ~Ending(t, s)
      BY <1>15, <2>1, CallMoves DEF StartHookDone, At, Ending
    <2>3. \A s \in Sessions : s # task[t].sid => engines'[s] = engines[s]
      BY <2>1 DEF TInv, TypeOK
    <2>4. KeepsStops
      BY <1>15, <2>2, <2>3 DEF StartHookDone, KeepsStops, TInv, TypeOK
    <2> QED BY <2>4, KeepsStopInv
  <1>16. ASSUME NEW t \in Slots, StartFailed(t) PROVE StopInv'
    <2>1. Evict(task[t].sid) /\ task[t].sid \in Sessions
      BY <1>16, Fields DEF StartFailed
    <2>2. task'[t].op # "ready" /\ \A u \in Slots \ {t} : task'[u] = task[u]
      BY <1>16, GotoMoves, ReturnEnds DEF StartFailed, ReturnFrom
    <2>3. \A s \in Sessions : Registered(s)' => ~Ending(t, s)
      BY <2>1, EvictSlots DEF Ending
    <2>4. KeepsStops
      BY <1>16, <2>1, <2>2, <2>3, EvictCarries, QuietStops DEF StartFailed
    <2> QED BY <2>4, KeepsStopInv
  <1>17. ASSUME NEW t \in Slots, StartFailedWritten(t) PROVE StopInv'
    <2>1. /\ task'[t].op # "ready" /\ \A s \in Sessions : ~Ending(t, s)
          /\ \A u \in Slots \ {t} : task'[u] = task[u]
      BY <1>17, ReturnEnds
      DEF StartFailedWritten, ReturnFrom, At, Idle, Ending, StopInv, NoRejects
    <2>2. KeepsStops BY <1>17, <2>1, QuietStops DEF StartFailedWritten, ReturnFrom
    <2> QED BY <2>2, KeepsStopInv
  <1>18. ASSUME NEW t \in Slots, BeginTeardown(t) PROVE StopInv'
    <2>1. /\ task'[t].op # "ready" /\ task'[t].sid = task[t].sid
          /\ task'[t].pc = "teardown" /\ task'[t].eng = task[t].eng
          /\ \A u \in Slots \ {t} : task'[u] = task[u]
      BY <1>18, CallMoves DEF BeginTeardown, StopInv, NoRejects
    <2>2. \A s : Ending(t, s) => Ending(t, s)'
      BY <1>18, <2>1 DEF BeginTeardown, memory, Ending, At
    <2>3. KeepsStops BY <1>18, <2>1, <2>2 DEF BeginTeardown, memory, KeepsStops
    <2> QED BY <2>3, KeepsStopInv
  <1>19. ASSUME NEW t \in Slots, TeardownDone(t) PROVE StopInv'
    <2>1. task[t].eng # NoEngine /\ task[t].pc \in {"teardown", "resurrected"}
      BY <1>19, Fields DEF TeardownDone, At, InPlace
    <2>2. \A r \in Sessions : Registered(r)' =>
            engines'[r] = engines[r] /\ engines[r] # task[t].eng
      BY <1>19, <2>1, DeleteIfLiveSlots DEF TeardownDone
    <2>3. \A s \in Sessions : engines'[s] \in {engines[s], NoEngine}
      BY <2>2, SessionAssumption DEF Registered
    <2>4. task'[t].op # "ready" /\ \A u \in Slots \ {t} : task'[u] = task[u]
      BY <1>19, GotoMoves, CallMoves DEF TeardownDone, StopInv, NoRejects
    <2>5. KeepsStops
      BY <1>19, <2>1, <2>2, <2>3, <2>4, QuietStops DEF TeardownDone, Ending
    <2> QED BY <2>5, KeepsStopInv
  <1>20. ASSUME NEW t \in Slots, FinalStatusWritten(t) PROVE StopInv'
    <2>1. /\ task'[t].op # "ready" /\ \A s \in Sessions : ~Ending(t, s)
          /\ \A u \in Slots \ {t} : task'[u] = task[u]
      BY <1>20, ReturnEnds
      DEF FinalStatusWritten, At, Idle, Ending, StopInv, NoRejects
    <2>2. KeepsStops BY <1>20, <2>1, QuietStops DEF FinalStatusWritten
    <2> QED BY <2>2, KeepsStopInv
  <1>21. ASSUME NEW t \in Slots, DeleteAccepted(t) PROVE StopInv'
    <2>1. /\ task[t].sid \in Sessions /\ task[t].pc = "fence"
          /\ Retiring(t, "delete", task[t].sid,
                      Call(t, "delete", task[t].sid, "fence2", NoEngine, Fence(task[t].sid)))
      BY <1>21, Fields DEF DeleteAccepted, At
    <2>2. ~Registered(task[t].sid)
            => task'[t].op # "ready" /\ \A u \in Slots \ {t} : task'[u] = task[u]
      BY <2>1, CallMoves DEF Retiring
    <2>3. KeepsStops BY <2>1, <2>2, MarkStops
    <2> QED BY <2>3, KeepsStopInv
  <1>22. ASSUME NEW t \in Slots, DeleteFenced(t) PROVE StopInv'
    <2>1. /\ task'[t].op # "ready" /\ \A s \in Sessions : ~Ending(t, s)
          /\ \A u \in Slots \ {t} : task'[u] = task[u]
      BY <1>22, GotoMoves
      DEF DeleteFenced, memory, At, Idle, Ending, StopInv, NoRejects
    <2>2. KeepsStops BY <1>22, <2>1, QuietStops DEF DeleteFenced, memory
    <2> QED BY <2>2, KeepsStopInv
  <1>23. ASSUME NEW t \in Slots, DeleteCommits(t) PROVE StopInv'
    <2>1. /\ task'[t].op # "ready" /\ \A s \in Sessions : ~Ending(t, s)
          /\ \A u \in Slots \ {t} : task'[u] = task[u]
      BY <1>23, GotoMoves
      DEF DeleteCommits, memory, At, Idle, Ending, StopInv, NoRejects
    <2>2. KeepsStops BY <1>23, <2>1, QuietStops DEF DeleteCommits, memory
    <2> QED BY <2>2, KeepsStopInv
  <1>24. ASSUME NEW t \in Slots, DeleteFails(t) PROVE StopInv'
    <2>1. /\ task'[t].op # "ready" /\ \A s \in Sessions : ~Ending(t, s)
          /\ \A u \in Slots \ {t} : task'[u] = task[u]
      BY <1>24, ReturnEnds DEF DeleteFails, At, Idle, Ending, StopInv, NoRejects
    <2>2. KeepsStops BY <1>24, <2>1, QuietStops DEF DeleteFails
    <2> QED BY <2>2, KeepsStopInv
  <1>25. ASSUME NEW t \in Slots, DeletePurges(t) PROVE StopInv'
    <2>1. /\ task'[t].op # "ready" /\ \A s \in Sessions : ~Ending(t, s)
          /\ \A u \in Slots \ {t} : task'[u] = task[u]
      BY <1>25, ReturnEnds DEF DeletePurges, At, Idle, Ending, StopInv, NoRejects
    <2>2. KeepsStops BY <1>25, <2>1, QuietStops DEF DeletePurges
    <2> QED BY <2>2, KeepsStopInv
  <1>26. ASSUME NEW t \in Slots, ImportEnds(t) PROVE StopInv'
    <2>1. /\ task'[t].op # "ready" /\ \A s \in Sessions : ~Ending(t, s)
          /\ \A u \in Slots \ {t} : task'[u] = task[u]
      BY <1>26, ReturnEnds
      DEF ImportEnds, memory, At, Idle, Ending, StopInv, NoRejects
    <2>2. KeepsStops BY <1>26, <2>1, QuietStops DEF ImportEnds, memory
    <2> QED BY <2>2, KeepsStopInv
  <1>27. ASSUME NEW t \in Slots, FenceTimeout(t) PROVE StopInv'
    <2>1. /\ task'[t].op # "ready" /\ \A s \in Sessions : ~Ending(t, s)
          /\ \A u \in Slots \ {t} : task'[u] = task[u]
      BY <1>27, GotoMoves, ReturnEnds
      DEF FenceTimeout, ReturnFrom, At, Idle, Ending, StopInv, NoRejects
    <2>2. KeepsStops BY <1>27, <2>1, QuietStops DEF FenceTimeout, ReturnFrom
    <2> QED BY <2>2, KeepsStopInv
  <1>28. ASSUME NEW t \in Slots, FinalizeReady(t) PROVE StopInv'
    <2>1. /\ task'[t].op # "ready" /\ \A s \in Sessions : ~Ending(t, s)
          /\ \A u \in Slots \ {t} : task'[u] = task[u]
      BY <1>28, ReturnEnds DEF FinalizeReady, At, Idle, Ending, StopInv, NoRejects
    <2>2. KeepsStops BY <1>28, <2>1, QuietStops DEF FinalizeReady
    <2> QED BY <2>2, KeepsStopInv
  <1>29. ASSUME NEW e \in Engines, EngineError(e) PROVE StopInv'
    <2>1. owner[e] \in Sessions /\ Evict(owner[e])
      BY <1>29, OwnerTyped DEF EngineError
    <2>2. \A s \in Sessions : Registered(s)' => engines'[s] = engines[s]
      BY <2>1, EvictSlots
    <2>3. KeepsStops BY <1>29, <2>2 DEF EngineError, KeepsStops, TInv, TypeOK
    <2> QED BY <2>3, KeepsStopInv
  <1>30. ASSUME NEW e \in Engines, RemoteLoggedOut(e) PROVE StopInv'
    <2>1. KeepsStops BY <1>30 DEF RemoteLoggedOut, memory, KeepsStops
    <2> QED BY <2>1, KeepsStopInv
  <1>31. ASSUME NEW e \in logouts, LogoutSettles(e) PROVE StopInv'
    <2>1. KeepsStops BY <1>31 DEF LogoutSettles, memory, KeepsStops
    <2> QED BY <2>1, KeepsStopInv
  <1>32. ASSUME NEW w \in late, LateWriteSettles(w) PROVE StopInv'
    <2>1. KeepsStops BY <1>32 DEF LateWriteSettles, memory, KeepsStops
    <2> QED BY <2>1, KeepsStopInv
  <1>33. ASSUME NEW s \in Sessions, Create(s) PROVE StopInv'
    <2>1. KeepsStops BY <1>33 DEF Create, memory, KeepsStops
    <2> QED BY <2>1, KeepsStopInv
  <1>34. ASSUME UNCHANGED vars PROVE StopInv'
    <2>1. KeepsStops BY <1>34 DEF vars, KeepsStops
    <2> QED BY <2>1, KeepsStopInv
  <1>35. ASSUME NEW t \in Slots,
                \/ \E s \in Sessions : ReconnectTimer(t, s)
                \/ Reconnects(t) \/ ReconnectFailed(t) \/ HandleDisconnected(t)
                \/ RejectDuplicate(t)
        PROVE  FALSE
    BY <1>35, Fields
    DEF ReconnectTimer, Reconnects, ReconnectFailed, HandleDisconnected,
        RejectDuplicate,
        RegistryInv, OnlyStarts, StopInv, NoRejects, At, InPlace
  <1>36. ASSUME NEW t \in Slots, ControlRejected(t) PROVE StopInv'
    <2>1. /\ task'[t].op # "ready" /\ \A s \in Sessions : ~Ending(t, s)
          /\ \A u \in Slots \ {t} : task'[u] = task[u]
      BY <1>36, ReturnEnds DEF ControlRejected, At, Ending, RejectedGone
    <2>2. KeepsStops BY <1>36, <2>1, QuietStops DEF ControlRejected
    <2> QED BY <2>2, KeepsStopInv
  <1> QED BY <1>1, <1>2, <1>3, <1>4, <1>5, <1>6, <1>7, <1>8, <1>9, <1>10,
             <1>11, <1>12, <1>13, <1>14, <1>15, <1>16, <1>17, <1>18, <1>19,
             <1>20, <1>21, <1>22, <1>23, <1>24, <1>25, <1>26, <1>27, <1>28,
             <1>29, <1>30, <1>31, <1>32, <1>33, <1>34, <1>35, <1>36
          DEF Next, Request, EngineEvent, Resume

LifeInv == ServeInv /\ RejectedGone /\ StopInv

LEMMA LifeInitially == Init => LifeInv
  <1>1. Init => RejectedGone /\ StopInv
    BY IdleTyped DEF Init, RejectedGone, StopInv, NoRejects, StopEnds
  <1> QED BY <1>1, ServeInitially DEF LifeInv

LEMMA LifeStep ==
  ASSUME Ops \cap {"drop", "import", "slow", "ready"} = {}
  PROVE  LifeInv /\ [Next]_vars => LifeInv'
  BY ServeStep, RejectionsKept, StopsKept DEF LifeInv, ServeInv, SafeInv

(* If moreover no duplicate number is rejected, a stopped session keeps no *)
(* engine: once its calls have returned none is registered or serving.     *)
THEOREM StopsAreFinal ==
  ASSUME Ops \cap {"drop", "import", "slow", "ready"} = {}
  PROVE  Spec => []StopIsFinal
  <1>1. LifeInv => StopIsFinal
    <2> SUFFICES ASSUME LifeInv, NEW s \in stopping, Quiet(s)
                 PROVE  /\ ~Registered(s)
                        /\ \A e \in Engines : owner[e] = s => ~Serving(e)
      BY DEF StopIsFinal
    <2>0. TInv BY DEF LifeInv, ServeInv, SafeInv
    <2>1. ~Registered(s)
      BY <2>0, Fields DEF LifeInv, StopInv, StopEnds, Ending, Quiet, Idle, At
    <2>2. \A e \in Engines : owner[e] = s => ~Serving(e)
      BY <2>1, SessionAssumption
      DEF LifeInv, ServeInv, RegistryInv, ServingIsRegistered, Registered
    <2> QED BY <2>1, <2>2
  <1> QED BY <1>1, LifeInitially, LifeStep, PTL DEF Spec

-----------------------------------------------------------------------------
(* The credentials of a session *)

(* A start that read its row read a row; what is purged is purged after    *)
(* the row was deleted, and no row comes back.                             *)
PurgesDeleted ==
  \A t \in Slots :
    /\ task[t].op = "start" /\ task[t].pc # "row" => row[task[t].sid] # "absent"
    /\ task[t].pc \in {"repurge", "purge"} => row[task[t].sid] = "deleted"

(* The fence of a start knows of every logout of the session, and none is  *)
(* left when its engine may write the auth directory.                      *)
LogoutsFenced ==
  /\ logouts \subseteq pendingTeardowns
  /\ \A e \in logouts : phase[e] \in {"unlinked", "closing"}
  /\ \A t \in Slots, e \in logouts :
       task[t].op = "start" /\ owner[e] = task[t].sid =>
         /\ task[t].pc \notin {"hook", "initialStatus"}
         /\ task[t].pc = "fence" => e \in task[t].wait

(* The directory holds nothing but the credentials of an engine that       *)
(* serves, or whose logout is still on its way.                            *)
OwnDirectory ==
  \A e \in Engines :
    Serving(e) \/ e \in logouts => authDir[owner[e]] \in {e, NoEngine}

CredInv == PurgesDeleted /\ LogoutsFenced /\ OwnDirectory

(* What a step does to the credentials: CredentialsSafe, at one step. *)
ClearsSafely ==
  \A s \in Sessions :
    authDir[s] # NoEngine /\ authDir'[s] = NoEngine
      => row[s] # "present" \/ authDir[s] \in logouts \ logouts'

(* How a call may move, for all but the creation of an engine. *)
Follows(t) ==
  /\ task'[t].pc # "initialStatus"
  /\ task'[t].op = "start" /\ task'[t].pc # "row" =>
       /\ task[t].op = "start" /\ task'[t].sid = task[t].sid
       /\ task[t].pc = "row" => row[task[t].sid] = "present"
       /\ task'[t].pc = "hook" => task[t].pc = "fence" /\ FenceSettled(t)
       /\ task'[t].pc = "fence" => /\ ~Registered(task[t].sid)
                                   /\ task'[t].wait = Fence(task[t].sid)
  /\ task'[t].pc \in {"repurge", "purge"} =>
       task'[t].sid \in Sessions /\ row'[task'[t].sid] = "deleted"

KeepsCredentials ==
  /\ \A s \in Sessions : /\ row[s] # "absent" => row'[s] # "absent"
                         /\ row[s] = "deleted" => row'[s] = "deleted"
  /\ \A t \in Slots : task'[t] = task[t] \/ Follows(t)
  /\ owner' = owner
  /\ logouts' \subseteq pendingTeardowns'
  /\ \A e \in logouts' : phase'[e] \in {"unlinked", "closing"}
  /\ \A e \in logouts' \ logouts : phase[e] = "running"
  /\ \A e \in Engines : phase'[e] \in {"running", "unlinked"} => Serving(e)
  /\ \A s \in Sessions : authDir'[s] \in {authDir[s], NoEngine}
  /\ ClearsSafely

LEMMA KeepsCredInv ==
  ASSUME TInv, TInv', OwnInv, RegistryInv, CredInv, KeepsCredentials
  PROVE  CredInv' /\ ClearsSafely
  <1>0. logouts' \subseteq Engines BY DEF TInv, TypeOK
  <1>1. PurgesDeleted'
    <2> SUFFICES ASSUME NEW t \in Slots
                 PROVE  /\ task'[t].op = "start" /\ task'[t].pc # "row"
                             => row'[task'[t].sid] # "absent"
                        /\ task'[t].pc \in {"repurge", "purge"}
                             => row'[task'[t].sid] = "deleted"
      BY DEF PurgesDeleted
    <2>1. task[t].sid \in Sessions BY Fields
    <2> QED BY <2>1 DEF KeepsCredentials, Follows, CredInv, PurgesDeleted
  <1>2. ASSUME NEW e \in logouts' \ logouts
        PROVE  engines[owner[e]] = e /\ e \in Engines /\ phase[e] = "running"
    BY <1>0, <1>2
    DEF KeepsCredentials, RegistryInv, ServingIsRegistered, Serving
  <1>3. ASSUME NEW t \in Slots, NEW e \in logouts',
               task'[t].op = "start", owner[e] = task'[t].sid
        PROVE  /\ task'[t].pc \notin {"hook", "initialStatus"}
               /\ task'[t].pc = "fence" => e \in task'[t].wait
    <2>1. CASE task'[t] = task[t] /\ e \in logouts
      BY <1>3, <2>1 DEF CredInv, LogoutsFenced
    <2>2. CASE task'[t] = task[t] /\ e \notin logouts
      <3>1. engines[task[t].sid] = e /\ e \in Engines /\ phase[e] = "running"
        BY <1>2, <1>3, <2>2
      <3>2. task[t].pc \notin {"hook", "fence"}
        BY <1>3, <2>2, <3>1, SessionAssumption
        DEF RegistryInv, StartOwnsSlot, Registered
      <3>3. task[t].pc # "initialStatus"
        BY <1>3, <2>2, <3>1, SessionAssumption
        DEF RegistryInv, StartOwnsSlot, CapturedPhase, At
      <3> QED BY <2>2, <3>2, <3>3
    <2>3. CASE Follows(t) /\ task'[t].pc = "hook"
      <3>1. task[t].op = "start" /\ task[t].pc = "fence" /\ FenceSettled(t)
            /\ owner[e] = task[t].sid
        BY <1>3, <2>3 DEF Follows
      <3>2. e \in logouts
        BY <1>2, <3>1, SessionAssumption DEF RegistryInv, StartOwnsSlot, Registered
      <3>3. e \in task[t].wait /\ e \in Fence(task[t].sid)
        BY <3>1, <3>2 DEF CredInv, LogoutsFenced, Fence
      <3> QED BY <3>1, <3>3 DEF FenceSettled
    <2>4. CASE Follows(t) /\ task'[t].pc = "fence"
      <3>1. /\ task[t].op = "start" /\ task'[t].wait = Fence(task[t].sid)
            /\ owner[e] = task[t].sid /\ ~Registered(task[t].sid)
        BY <1>3, <2>4 DEF Follows
      <3>2. e \in logouts BY <1>2, <3>1, SessionAssumption DEF Registered
      <3>3. e \in Fence(task[t].sid)
        BY <3>1, <3>2 DEF CredInv, LogoutsFenced, Fence
      <3> QED BY <2>4, <3>1, <3>3
    <2> QED BY <2>1, <2>2, <2>3, <2>4 DEF KeepsCredentials, Follows
  <1>4. LogoutsFenced'
    BY <1>3 DEF KeepsCredentials, LogoutsFenced
  <1>5. OwnDirectory'
    <2> SUFFICES ASSUME NEW e \in Engines,
                        phase'[e] \in {"running", "unlinked"} \/ e \in logouts'
                 PROVE  authDir'[owner[e]] \in {e, NoEngine}
      BY DEF OwnDirectory, Serving, KeepsCredentials
    <2>1. Serving(e) \/ e \in logouts BY DEF KeepsCredentials, Serving
    <2>2. authDir[owner[e]] \in {e, NoEngine} BY <2>1 DEF CredInv, OwnDirectory
    <2> QED BY <2>2, OwnerTyped DEF KeepsCredentials
  <1>6. ClearsSafely BY DEF KeepsCredentials
  <1> QED BY <1>1, <1>4, <1>5, <1>6 DEF CredInv

(* A step that keeps the rows, the directories and the logouts. *)
LEMMA QuietCredentials ==
  ASSUME TInv, CredInv, UNCHANGED <<row, authDir, logouts, pendingTeardowns, owner>>,
         \A e \in Engines : phase'[e] \in {phase[e], "closing"},
         NEW t \in Slots, Follows(t), \A u \in Slots \ {t} : task'[u] = task[u]
  PROVE  KeepsCredentials
  BY
  DEF KeepsCredentials, ClearsSafely, CredInv, LogoutsFenced, Serving, TInv,
      TypeOK

LEMMA ReturnFollows ==
  ASSUME TInv, NEW t \in Slots, Return(t)
  PROVE  Follows(t) /\ \A u \in Slots \ {t} : task'[u] = task[u]
  BY ReturnEnds DEF Follows

LEMMA GotoFollows ==
  ASSUME TInv, NEW t \in Slots, NEW pc, Goto(t, pc),
         pc \notin {"initialStatus", "fence", "repurge", "purge"},
         task[t].op = "start" =>
           /\ task[t].pc # "row"
           /\ pc = "hook" => task[t].pc = "fence" /\ FenceSettled(t)
  PROVE  Follows(t) /\ \A u \in Slots \ {t} : task'[u] = task[u]
  BY GotoMoves DEF Follows

LEMMA CallFollows ==
  ASSUME TInv, NEW t \in Slots, NEW op, NEW s, NEW pc, NEW e, NEW w,
         Call(t, op, s, pc, e, w),
         pc \notin {"initialStatus", "repurge", "purge"},
         op = "start" => \/ pc = "row"
                         \/ /\ pc \notin {"fence", "hook"} /\ task[t].pc # "row"
                            /\ task[t].op = "start" /\ task[t].sid = s
  PROVE  Follows(t) /\ \A u \in Slots \ {t} : task'[u] = task[u]
  BY CallMoves DEF Follows

LEMMA EvictPhases ==
  ASSUME TInv, NEW s \in Sessions, Evict(s)
  PROVE  \A e \in Engines : phase'[e] \in {phase[e], "closing"}
  <1>1. CASE Registered(s)
    BY <1>1, FenceTyped, TearDownClosing DEF Evict
  <1>2. CASE ~Registered(s) BY <1>2 DEF Evict
  <1> QED BY <1>1, <1>2

LEMMA RetirePhases ==
  ASSUME TInv, NEW t \in Slots, Retire(t, task[t].sid), task[t].pc # "row"
  PROVE  /\ Follows(t) /\ \A u \in Slots \ {t} : task'[u] = task[u]
         /\ \A e \in Engines : phase'[e] \in {phase[e], "closing"}
  <1>1. CASE Registered(task[t].sid)
    BY <1>1, Fields, FenceTyped, TearDownClosing, CallFollows DEF Retire
  <1>2. CASE ~Registered(task[t].sid)
    BY <1>2, GotoFollows DEF Retire
  <1> QED BY <1>1, <1>2

(* A new instance: nothing of the session is being logged out. *)
LEMMA CreationCredentials ==
  ASSUME TInv, TInv', OwnInv, CredInv, NEW t \in Slots,
         task[t].op = "start", task[t].pc = "hook",
         UNCHANGED <<row, authDir, logouts, pendingTeardowns>>,
         InitializeEngine(t, task[t].sid)
  PROVE  CredInv' /\ ClearsSafely
  <1>1. PICK e \in Free :
          /\ phase' = [phase EXCEPT ![e] = "created"]
          /\ owner' = [owner EXCEPT ![e] = task[t].sid]
          /\ Call(t, task[t].op, task[t].sid, "initialStatus", e, {})
    BY DEF InitializeEngine
  <1>2. e \in Engines /\ phase[e] = "free" /\ e \notin logouts
    BY <1>1 DEF Free, CredInv, LogoutsFenced
  <1>3. /\ task'[t].op = "start" /\ task'[t].pc = "initialStatus"
        /\ task'[t].sid = task[t].sid
        /\ \A u \in Slots \ {t} : task'[u] = task[u]
    BY <1>1, CallMoves
  <1>4. \A f \in Engines : f # e => phase'[f] = phase[f] /\ owner'[f] = owner[f]
    BY <1>1 DEF TInv, TypeOK
  <1>5. logouts \subseteq Engines BY DEF TInv, TypeOK
  <1>6. PurgesDeleted' BY <1>3 DEF CredInv, PurgesDeleted
  <1>7. LogoutsFenced'
    <2>1. \A f \in logouts : owner'[f] = owner[f] /\ phase'[f] = phase[f]
      BY <1>2, <1>4, <1>5
    <2> QED BY <1>3, <2>1 DEF CredInv, LogoutsFenced
  <1>8. OwnDirectory'
    <2>1. phase'[e] = "created" BY <1>1, <1>2 DEF TInv, TypeOK
    <2> QED BY <1>2, <1>4, <2>1 DEF CredInv, OwnDirectory, Serving
  <1> QED BY <1>6, <1>7, <1>8 DEF CredInv, ClearsSafely

(* The engine may initialize: the directory is its own from here on. *)
LEMMA FirstWriteCredentials ==
  ASSUME TInv, TInv', OwnInv, RegistryInv, CredInv, NEW t \in Slots,
         InitialStatusWritten(t)
  PROVE  CredInv' /\ ClearsSafely
  <1>0. /\ task[t].op = "start" /\ task[t].pc = "initialStatus"
        /\ task[t].sid \in Sessions /\ task[t].eng \in Engines
        /\ task[t].eng # NoEngine
        /\ UNCHANGED <<row, logouts, pendingTeardowns, owner>>
    BY Fields
    DEF InitialStatusWritten, At, InPlace, EngineOrNone, RegistryInv, OnlyStarts,
        promises
  <1>1. CASE /\ engines[task[t].sid] = task[t].eng
             /\ phase' = [phase EXCEPT ![task[t].eng] = "running"]
             /\ authDir' = [authDir EXCEPT ![task[t].sid] = task[t].eng]
             /\ Goto(t, "initialize")
    <2>1. /\ task'[t].op = "start" /\ task'[t].pc = "initialize"
          /\ task'[t].sid = task[t].sid
          /\ \A u \in Slots \ {t} : task'[u] = task[u]
      BY <1>0, <1>1, GotoMoves
    <2>2. \A f \in Engines : f # task[t].eng => phase'[f] = phase[f]
      BY <1>1 DEF TInv, TypeOK
    <2>3. \A f \in logouts : owner[f] # task[t].sid
      BY <1>0 DEF CredInv, LogoutsFenced
    <2>4. owner[task[t].eng] = task[t].sid
      BY <1>0 DEF OwnInv, CapturedOwned
    <2>5. logouts \subseteq Engines BY DEF TInv, TypeOK
    <2>6. PurgesDeleted' BY <1>0, <2>1 DEF CredInv, PurgesDeleted
    <2>7. LogoutsFenced'
      <3>1. \A f \in logouts : phase'[f] = phase[f] BY <2>2, <2>3, <2>4, <2>5
      <3> QED BY <1>0, <2>1, <3>1 DEF CredInv, LogoutsFenced
    <2>8. OwnDirectory'
      <3> SUFFICES ASSUME NEW f \in Engines,
                          phase'[f] \in {"running", "unlinked"} \/ f \in logouts
                   PROVE  authDir'[owner[f]] \in {f, NoEngine}
        BY <1>0 DEF OwnDirectory, Serving
      <3>1. CASE f = task[t].eng
        BY <1>0, <1>1, <2>4, <3>1 DEF TInv, TypeOK
      <3>2. CASE f # task[t].eng
        <4>1. Serving(f) \/ f \in logouts BY <2>2, <3>2 DEF Serving
        <4>2. authDir[owner[f]] \in {f, NoEngine} BY <4>1 DEF CredInv, OwnDirectory
        <4>3. owner[f] # task[t].sid
          BY <1>1, <2>3, <3>2, <4>1 DEF RegistryInv, ServingIsRegistered
        <4> QED BY <1>1, <4>2, <4>3, OwnerTyped DEF TInv, TypeOK
      <3> QED BY <3>1, <3>2
    <2>9. ClearsSafely BY <1>0, <1>1 DEF ClearsSafely, TInv, TypeOK
    <2> QED BY <2>6, <2>7, <2>8, <2>9 DEF CredInv
  <1>2. CASE Goto(t, "rowCheck") /\ UNCHANGED <<phase, authDir>>
    <2>1. Follows(t) /\ \A u \in Slots \ {t} : task'[u] = task[u]
      BY <1>0, <1>2, GotoFollows
    <2>2. KeepsCredentials BY <1>0, <1>2, <2>1, QuietCredentials
    <2> QED BY <2>2, KeepsCredInv
  <1>3. CASE Retire(t, task[t].sid) /\ UNCHANGED authDir
    <2>1. KeepsCredentials BY <1>0, <1>3, RetirePhases, QuietCredentials
    <2> QED BY <2>1, KeepsCredInv
  <1> QED BY <1>1, <1>2, <1>3
      DEF InitialStatusWritten, MayInitialize, IsLive, EngineReturned

LEMMA CredentialsKept ==
  ASSUME Ops \cap {"drop", "import", "slow", "ready"} = {}
  PROVE  LifeInv /\ LifeInv' /\ CredInv /\ [Next]_vars => CredInv' /\ ClearsSafely
  <1> SUFFICES ASSUME LifeInv, LifeInv', CredInv, [Next]_vars
               PROVE  CredInv' /\ ClearsSafely
    OBVIOUS
  <1>0. TInv /\ TInv' /\ OwnInv /\ RegistryInv /\ StopInv
    BY DEF LifeInv, ServeInv, SafeInv
  <1> USE <1>0
  <1>1. ASSUME NEW t \in Slots, NEW s \in Sessions, Start(t, s)
        PROVE  CredInv' /\ ClearsSafely
    <2>1. Follows(t) /\ \A u \in Slots \ {t} : task'[u] = task[u]
      BY <1>1, CallFollows DEF Start, db, world, promises
    <2>2. KeepsCredentials BY <1>1, <2>1, QuietCredentials DEF Start, db, world, promises
    <2> QED BY <2>2, KeepsCredInv
  <1>2. ASSUME NEW t \in Slots, NEW s \in Sessions, Stop(t, s)
        PROVE  CredInv' /\ ClearsSafely
    <2>1. Follows(t) /\ \A u \in Slots \ {t} : task'[u] = task[u]
      BY <1>2, CallFollows DEF Stop, Retiring, db, world, promises
    <2>2. KeepsCredentials
      BY <1>2, <2>1, QuietCredentials DEF Stop, Retiring, db, world, promises
    <2> QED BY <2>2, KeepsCredInv
  <1>3. ASSUME NEW t \in Slots, NEW s \in Sessions, Logout(t, s)
        PROVE  CredInv' /\ ClearsSafely
    <2>1. Follows(t) /\ \A u \in Slots \ {t} : task'[u] = task[u]
      BY <1>3, CallFollows DEF Logout, Retiring, db, world, promises
    <2>2. KeepsCredentials
      BY <1>3, <2>1, QuietCredentials DEF Logout, Retiring, db, world, promises
    <2> QED BY <2>2, KeepsCredInv
  <1>4. ASSUME NEW t \in Slots, NEW s \in Sessions, ForceKill(t, s)
        PROVE  CredInv' /\ ClearsSafely
    <2>1. Follows(t) /\ \A u \in Slots \ {t} : task'[u] = task[u]
      BY <1>4, CallFollows DEF ForceKill, Retiring, db, world, promises
    <2>2. KeepsCredentials
      BY <1>4, <2>1, QuietCredentials DEF ForceKill, Retiring, db, world, promises
    <2> QED BY <2>2, KeepsCredInv
  <1>5. ASSUME NEW t \in Slots, NEW s \in Sessions, Delete(t, s)
        PROVE  CredInv' /\ ClearsSafely
    <2>1. Follows(t) /\ \A u \in Slots \ {t} : task'[u] = task[u]
      BY <1>5, CallFollows DEF Delete, db, world, promises
    <2>2. KeepsCredentials
      BY <1>5, <2>1, QuietCredentials DEF Delete, db, world, promises
    <2> QED BY <2>2, KeepsCredInv
  <1>6. ASSUME NEW t \in Slots, InitialStatusWritten(t)
        PROVE  CredInv' /\ ClearsSafely
    BY <1>6, FirstWriteCredentials
  <1>7. ASSUME NEW t \in Slots, EngineInitialized(t)
        PROVE  CredInv' /\ ClearsSafely
    <2>1. CASE Goto(t, "rowCheck") /\ UNCHANGED phase
      <3>1. Follows(t) /\ \A u \in Slots \ {t} : task'[u] = task[u]
        BY <1>7, <2>1, GotoFollows DEF EngineInitialized, At
      <3>2. KeepsCredentials
        BY <1>7, <2>1, <3>1, QuietCredentials DEF EngineInitialized, db, promises
      <3> QED BY <3>2, KeepsCredInv
    <2>2. CASE Retire(t, task[t].sid)
      <3>1. KeepsCredentials
        BY <1>7, <2>2, RetirePhases, QuietCredentials
        DEF EngineInitialized, At, db, promises
      <3> QED BY <3>1, KeepsCredInv
    <2> QED BY <1>7, <2>1, <2>2 DEF EngineInitialized, EngineReturned
  <1>8. ASSUME NEW t \in Slots, EngineInitTimeout(t)
        PROVE  CredInv' /\ ClearsSafely
    <2>1. Follows(t) /\ \A u \in Slots \ {t} : task'[u] = task[u]
      BY <1>8, GotoFollows DEF EngineInitTimeout, At
    <2>2. task[t].eng \in Engines
      BY <1>8, Fields DEF EngineInitTimeout, At, InPlace, EngineOrNone
    <2>3. KeepsCredentials
      BY <1>8, <2>1, <2>2, TearDownClosing, QuietCredentials
      DEF EngineInitTimeout, db, promises
    <2> QED BY <2>3, KeepsCredInv
  <1>9. ASSUME NEW t \in Slots, CheckRow(t)
        PROVE  CredInv' /\ ClearsSafely
    <2>1. CASE ReturnFrom(t) /\ UNCHANGED phase
      <3>1. KeepsCredentials
        BY <1>9, <2>1, ReturnFollows, QuietCredentials
        DEF CheckRow, ReturnFrom, db, promises
      <3> QED BY <3>1, KeepsCredInv
    <2>2. CASE Retire(t, task[t].sid)
      <3>1. KeepsCredentials
        BY <1>9, <2>2, RetirePhases, QuietCredentials DEF CheckRow, At, db, promises
      <3> QED BY <3>1, KeepsCredInv
    <2> QED BY <1>9, <2>1, <2>2 DEF CheckRow
  <1>10. ASSUME NEW t \in Slots, ResurrectedDown(t)
        PROVE  CredInv' /\ ClearsSafely
    <2>1. Follows(t) /\ \A u \in Slots \ {t} : task'[u] = task[u]
      BY <1>10, GotoFollows DEF ResurrectedDown, At, db, world, promises
    <2>2. KeepsCredentials
      BY <1>10, <2>1, QuietCredentials DEF ResurrectedDown, At, db, world, promises
    <2> QED BY <2>2, KeepsCredInv
  <1>11. ASSUME NEW t \in Slots, PurgeCheck(t)
        PROVE  CredInv' /\ ClearsSafely
    <2>1. CASE Return(t)
      <3>1. KeepsCredentials
        BY <1>11, <2>1, ReturnFollows, QuietCredentials
        DEF PurgeCheck, db, world, promises
      <3> QED BY <3>1, KeepsCredInv
    <2>2. CASE Goto(t, "repurge") /\ row[task[t].sid] # "present"
      <3>1. task[t].sid \in Sessions /\ task[t].op = "start" /\ task[t].pc = "purgeCheck"
        BY <1>11, Fields DEF PurgeCheck, At, InPlace, RegistryInv, OnlyStarts
      <3>2. row[task[t].sid] = "deleted"
        BY <2>2, <3>1 DEF CredInv, PurgesDeleted, TInv, TypeOK
      <3>3. Follows(t) /\ \A u \in Slots \ {t} : task'[u] = task[u]
        BY <1>11, <2>2, <3>1, <3>2, GotoMoves DEF PurgeCheck, db, Follows
      <3>4. KeepsCredentials
        BY <1>11, <3>3, QuietCredentials DEF PurgeCheck, db, world, promises
      <3> QED BY <3>4, KeepsCredInv
    <2> QED BY <1>11, <2>1, <2>2 DEF PurgeCheck, ReturnFrom
  <1>12. ASSUME NEW t \in Slots, Repurge(t)
        PROVE  CredInv' /\ ClearsSafely
    <2>1. row[task[t].sid] = "deleted" /\ task[t].sid \in Sessions
      BY <1>12, Fields DEF Repurge, At, CredInv, PurgesDeleted
    <2>2. Follows(t) /\ \A u \in Slots \ {t} : task'[u] = task[u]
      BY <1>12, ReturnFollows DEF Repurge, ReturnFrom
    <2>3. KeepsCredentials
      BY <1>12, <2>1, <2>2
      DEF Repurge, KeepsCredentials, ClearsSafely, CredInv, LogoutsFenced, Serving,
          db, promises, TInv, TypeOK
    <2> QED BY <2>3, KeepsCredInv
  <1>13. ASSUME NEW t \in Slots, StartChecks(t)
        PROVE  CredInv' /\ ClearsSafely
    <2>1. Follows(t) /\ \A u \in Slots \ {t} : task'[u] = task[u]
      BY <1>13, CallMoves, ReturnFollows DEF StartChecks, ReturnFrom, At, Follows
    <2>2. KeepsCredentials
      BY <1>13, <2>1, QuietCredentials DEF StartChecks, db, world, promises
    <2> QED BY <2>2, KeepsCredInv
  <1>14. ASSUME NEW t \in Slots, StartAccepted(t)
        PROVE  CredInv' /\ ClearsSafely
    <2>1. Follows(t) /\ \A u \in Slots \ {t} : task'[u] = task[u]
      BY <1>14, GotoFollows DEF StartAccepted, At, db, world, promises
    <2>2. KeepsCredentials
      BY <1>14, <2>1, QuietCredentials DEF StartAccepted, At, db, world, promises
    <2> QED BY <2>2, KeepsCredInv
  <1>15. ASSUME NEW t \in Slots, StartHookDone(t)
        PROVE  CredInv' /\ ClearsSafely
    BY <1>15, CreationCredentials DEF StartHookDone, At, db, promises
  <1>16. ASSUME NEW t \in Slots, StartFailed(t)
        PROVE  CredInv' /\ ClearsSafely
    <2>1. Follows(t) /\ \A u \in Slots \ {t} : task'[u] = task[u]
      BY <1>16, GotoFollows, ReturnFollows
      DEF StartFailed, ReturnFrom, InitFailed, At
    <2>2. Evict(task[t].sid) BY <1>16 DEF StartFailed
    <2>3. KeepsCredentials
      BY <1>16, <2>1, <2>2, Fields, EvictPhases, QuietCredentials
      DEF StartFailed, promises
    <2> QED BY <2>3, KeepsCredInv
  <1>17. ASSUME NEW t \in Slots, StartFailedWritten(t)
        PROVE  CredInv' /\ ClearsSafely
    <2>1. Follows(t) /\ \A u \in Slots \ {t} : task'[u] = task[u]
      BY <1>17, ReturnFollows DEF StartFailedWritten, ReturnFrom, world, promises
    <2>2. KeepsCredentials
      BY <1>17, <2>1, QuietCredentials
      DEF StartFailedWritten, ReturnFrom, world, promises
    <2> QED BY <2>2, KeepsCredInv
  <1>18. ASSUME NEW t \in Slots, BeginTeardown(t)
        PROVE  CredInv' /\ ClearsSafely
    <2>1. task[t].eng \in Engines /\ task[t].op # "start"
      BY <1>18, Fields DEF BeginTeardown, At, InPlace, EngineOrNone
    <2>2. /\ phase'[task[t].eng] = "closing"
          /\ \A f \in Engines : f # task[t].eng => phase'[f] = phase[f]
      BY <1>18, <2>1, TearDownClosing DEF BeginTeardown
    <2>3. Follows(t) /\ \A u \in Slots \ {t} : task'[u] = task[u]
      BY <1>18, <2>1, CallFollows DEF BeginTeardown
    <2>4. /\ logouts' \subseteq pendingTeardowns'
          /\ logouts \subseteq logouts'
          /\ \A e \in logouts' \ logouts : e = task[t].eng /\ phase[e] = "running"
      BY <1>18 DEF BeginTeardown, BeginLogout, promises, CredInv, LogoutsFenced
    <2>5. \A e \in logouts' : phase'[e] \in {"unlinked", "closing"}
      BY <2>1, <2>2, <2>4 DEF CredInv, LogoutsFenced, TInv, TypeOK
    <2>6. KeepsCredentials
      BY <1>18, <2>2, <2>3, <2>4, <2>5
      DEF BeginTeardown, KeepsCredentials, ClearsSafely, Serving, db
    <2> QED BY <2>6, KeepsCredInv
  <1>19. ASSUME NEW t \in Slots, TeardownDone(t)
        PROVE  CredInv' /\ ClearsSafely
    <2>1. Follows(t) /\ \A u \in Slots \ {t} : task'[u] = task[u]
      BY <1>19, GotoFollows, CallFollows
      DEF TeardownDone, At, db, world, promises, RegistryInv, OnlyStarts
    <2>2. KeepsCredentials
      BY <1>19, <2>1, QuietCredentials DEF TeardownDone, At, db, world, promises
    <2> QED BY <2>2, KeepsCredInv
  <1>20. ASSUME NEW t \in Slots, FinalStatusWritten(t)
        PROVE  CredInv' /\ ClearsSafely
    <2>1. Follows(t) /\ \A u \in Slots \ {t} : task'[u] = task[u]
      BY <1>20, ReturnFollows DEF FinalStatusWritten, world, promises
    <2>2. KeepsCredentials
      BY <1>20, <2>1, QuietCredentials DEF FinalStatusWritten, world, promises
    <2> QED BY <2>2, KeepsCredInv
  <1>21. ASSUME NEW t \in Slots, DeleteAccepted(t)
        PROVE  CredInv' /\ ClearsSafely
    <2>1. Follows(t) /\ \A u \in Slots \ {t} : task'[u] = task[u]
      BY <1>21, CallFollows DEF DeleteAccepted, Retiring, db, world, promises
    <2>2. KeepsCredentials
      BY <1>21, <2>1, QuietCredentials DEF DeleteAccepted, Retiring, db, world, promises
    <2> QED BY <2>2, KeepsCredInv
  <1>22. ASSUME NEW t \in Slots, DeleteFenced(t)
        PROVE  CredInv' /\ ClearsSafely
    <2>1. Follows(t) /\ \A u \in Slots \ {t} : task'[u] = task[u]
      BY <1>22, Fields, GotoFollows DEF DeleteFenced, At, db, world, promises, InPlace
    <2>2. KeepsCredentials
      BY <1>22, <2>1, QuietCredentials DEF DeleteFenced, At, db, world, promises
    <2> QED BY <2>2, KeepsCredInv
  <1>23. ASSUME NEW t \in Slots, DeleteCommits(t)
        PROVE  CredInv' /\ ClearsSafely
    <2>1. /\ task[t].sid \in Sessions
          /\ row' = [row EXCEPT ![task[t].sid] = "deleted"]
      BY <1>23, Fields DEF DeleteCommits
    <2>2. Follows(t) /\ \A u \in Slots \ {t} : task'[u] = task[u]
      BY <1>23, <2>1, GotoMoves DEF DeleteCommits, Follows, TInv, TypeOK
    <2>3. KeepsCredentials
      BY <1>23, <2>1, <2>2
      DEF DeleteCommits, world, promises, KeepsCredentials, ClearsSafely, CredInv,
          LogoutsFenced, Serving, TInv, TypeOK
    <2> QED BY <2>3, KeepsCredInv
  <1>24. ASSUME NEW t \in Slots, DeleteFails(t)
        PROVE  CredInv' /\ ClearsSafely
    <2>1. Follows(t) /\ \A u \in Slots \ {t} : task'[u] = task[u]
      BY <1>24, ReturnFollows DEF DeleteFails, db, world, promises
    <2>2. KeepsCredentials
      BY <1>24, <2>1, QuietCredentials DEF DeleteFails, db, world, promises
    <2> QED BY <2>2, KeepsCredInv
  <1>25. ASSUME NEW t \in Slots, DeletePurges(t)
        PROVE  CredInv' /\ ClearsSafely
    <2>1. row[task[t].sid] = "deleted" /\ task[t].sid \in Sessions
      BY <1>25, Fields DEF DeletePurges, At, CredInv, PurgesDeleted
    <2>2. Follows(t) /\ \A u \in Slots \ {t} : task'[u] = task[u]
      BY <1>25, ReturnFollows DEF DeletePurges
    <2>3. KeepsCredentials
      BY <1>25, <2>1, <2>2
      DEF DeletePurges, KeepsCredentials, ClearsSafely, CredInv, LogoutsFenced,
          Serving,
          db, promises, TInv, TypeOK
    <2> QED BY <2>3, KeepsCredInv
  <1>26. ASSUME NEW t \in Slots, FenceTimeout(t)
        PROVE  CredInv' /\ ClearsSafely
    <2>1. Follows(t) /\ \A u \in Slots \ {t} : task'[u] = task[u]
      BY <1>26, Fields, GotoFollows, ReturnFollows
      DEF FenceTimeout, ReturnFrom, At, db, world, promises, InPlace
    <2>2. KeepsCredentials
      BY <1>26, <2>1, QuietCredentials
      DEF FenceTimeout, ReturnFrom, At, db, world, promises
    <2> QED BY <2>2, KeepsCredInv
  <1>27. ASSUME NEW e \in Engines, EngineError(e)
        PROVE  CredInv' /\ ClearsSafely
    <2>1. owner[e] \in Sessions /\ Evict(owner[e])
      BY <1>27, OwnerTyped DEF EngineError
    <2>2. \A f \in Engines : phase'[f] \in {phase[f], "closing"}
      BY <2>1, EvictPhases
    <2>3. KeepsCredentials
      BY <1>27, <2>2
      DEF EngineError, promises, KeepsCredentials, ClearsSafely, CredInv, LogoutsFenced,
          Serving, TInv, TypeOK
    <2> QED BY <2>3, KeepsCredInv
  <1>28. ASSUME NEW e \in Engines, RemoteLoggedOut(e)
        PROVE  CredInv' /\ ClearsSafely
    <2>1. /\ phase'[e] = "unlinked"
          /\ \A f \in Engines : f # e => phase'[f] = phase[f]
      BY <1>28 DEF RemoteLoggedOut, TInv, TypeOK
    <2>2. /\ logouts' = logouts \cup {e} /\ logouts' \subseteq pendingTeardowns'
      BY <1>28 DEF RemoteLoggedOut, BeginLogout, CredInv, LogoutsFenced
    <2>3. KeepsCredentials
      BY <1>28, <2>1, <2>2
      DEF RemoteLoggedOut, db, KeepsCredentials, ClearsSafely, CredInv,
          LogoutsFenced, Serving, TInv, TypeOK
    <2> QED BY <2>3, KeepsCredInv
  <1>29. ASSUME NEW e \in logouts, LogoutSettles(e)
        PROVE  CredInv' /\ ClearsSafely
    <2>1. e \in Engines /\ owner[e] \in Sessions /\ authDir[owner[e]] \in {e, NoEngine}
      BY OwnerTyped DEF CredInv, OwnDirectory, TInv, TypeOK
    <2>2. \A s \in Sessions : \/ authDir'[s] = authDir[s]
                              \/ s = owner[e] /\ authDir'[s] = NoEngine
      BY <1>29, <2>1 DEF LogoutSettles, TInv, TypeOK
    <2>3. ClearsSafely BY <1>29, <2>1, <2>2 DEF LogoutSettles, ClearsSafely
    <2>4. KeepsCredentials
      BY <1>29, <2>2, <2>3
      DEF LogoutSettles, db, KeepsCredentials, CredInv, LogoutsFenced, Serving
    <2> QED BY <2>4, KeepsCredInv
  <1>30. ASSUME NEW w \in late, LateWriteSettles(w)
        PROVE  CredInv' /\ ClearsSafely
    <2>1. KeepsCredentials
      BY <1>30
      DEF LateWriteSettles, world, promises, KeepsCredentials, ClearsSafely, CredInv,
          LogoutsFenced, Serving
    <2> QED BY <2>1, KeepsCredInv
  <1>31. ASSUME NEW s \in Sessions, Create(s)
        PROVE  CredInv' /\ ClearsSafely
    <2>1. KeepsCredentials
      BY <1>31
      DEF Create, world, promises, KeepsCredentials, ClearsSafely, CredInv,
          LogoutsFenced, Serving, TInv, TypeOK
    <2> QED BY <2>1, KeepsCredInv
  <1>32. ASSUME UNCHANGED vars
        PROVE  CredInv' /\ ClearsSafely
    <2>1. KeepsCredentials
      BY <1>32
      DEF vars, promises, KeepsCredentials, ClearsSafely, CredInv, LogoutsFenced, Serving
    <2> QED BY <2>1, KeepsCredInv
  <1>33. ASSUME NEW t \in Slots,
                \/ \E s \in Sessions : ReconnectTimer(t, s)
                \/ Reconnects(t) \/ ReconnectFailed(t) \/ HandleDisconnected(t)
                \/ RejectDuplicate(t) \/ FinalizeReady(t) \/ ImportEnds(t)
        PROVE  FALSE
    BY <1>0, <1>33, Fields
    DEF ReconnectTimer, Reconnects, ReconnectFailed, HandleDisconnected,
        RejectDuplicate,
        FinalizeReady, ImportEnds, RegistryInv, OnlyStarts, StopInv, NoRejects, At, InPlace
  <1>34. ASSUME NEW t \in Slots, ControlRejected(t)
        PROVE  CredInv' /\ ClearsSafely
    <2>1. Follows(t) /\ \A u \in Slots \ {t} : task'[u] = task[u]
      BY <1>34, ReturnFollows DEF ControlRejected
    <2>2. KeepsCredentials
      BY <1>34, <2>1, QuietCredentials DEF ControlRejected, db
    <2> QED BY <2>2, KeepsCredInv
  <1> QED BY <1>1, <1>2, <1>3, <1>4, <1>5, <1>6, <1>7, <1>8, <1>9, <1>10,
             <1>11, <1>12, <1>13, <1>14, <1>15, <1>16, <1>17, <1>18, <1>19,
             <1>20, <1>21, <1>22, <1>23, <1>24, <1>25, <1>26, <1>27, <1>28,
             <1>29, <1>30, <1>31, <1>32, <1>33, <1>34
          DEF Next, Request, EngineEvent, Resume

(* If no connection drops, no import runs, no duplicate number is rejected *)
(* and the write of INITIALIZING settles in time, only a logout removes    *)
(* the credentials of a session that still exists, and only those of the   *)
(* engine it logged out: start() after a logout does not lose the link.    *)
THEOREM CredentialsStaySafe ==
  ASSUME Ops \cap {"drop", "import", "slow", "ready"} = {}
  PROVE  Spec => CredentialsSafe
  <1>1. Init => LifeInv /\ CredInv
    <2>1. Init => CredInv
      BY IdleTyped
      DEF Init, CredInv, PurgesDeleted, LogoutsFenced, OwnDirectory, Serving
    <2> QED BY <2>1, LifeInitially
  <1>2. LifeInv /\ CredInv /\ [Next]_vars => (LifeInv /\ CredInv)' /\ ClearsSafely
    BY LifeStep, CredentialsKept
  <1>3. ClearsSafely =>
          [\A s \in Sessions : LET e == authDir[s]
             IN  e # NoEngine /\ authDir'[s] = NoEngine
                   => row[s] # "present" \/ e \in logouts \ logouts']_vars
    BY DEF ClearsSafely
  <1> QED BY <1>1, <1>2, <1>3, PTL DEF Spec, CredentialsSafe
=============================================================================
