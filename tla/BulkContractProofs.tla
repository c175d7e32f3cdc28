------------------------- MODULE BulkContractProofs --------------------------
(***************************************************************************)
(* Bulk batches keep the contract of the endpoint (BatchContract), and     *)
(* usage covers what was sent.  Both follow from what one step may do to a *)
(* batch, given the inductive invariant of BulkMessageProofs.              *)
(***************************************************************************)
EXTENDS BulkMessageProofs

Sending  == {"gate", "reserve", "send"}
Reserved == {"send", "release"}

(* What the contract sees of a batch. *)
Shown(b) == IF session = "present" THEN row[b].status ELSE "gone"
Under(b) == /\ session = "present"
            /\ row[b].status = "cancelled"
            /\ run[b].pc \in {"gate", "reserve", "send"}

-----------------------------------------------------------------------------
(* How far a run gets in one step *)

(* A copy of a run whose loop index is not bounded yet. *)
Loose == [pc : {"none", "insert", "read"} \cup Guarded, i : Int,
          progress : Progress, stopOnError : BOOLEAN,
          stopped : BOOLEAN, status : Statuses]

LEMMA Loosely == RunType \subseteq Loose
  BY BulkAssumption DEF RunType, Loose, Guarded

(* The loop goes back to the gate only while the flag is up. *)
GoesOn(b) ==
  /\ run'[b].pc \in {"gate", "reread", "progress", "sleep"}
  /\ run'[b].pc = "gate" => processing[b] = "true"
  /\ \A a \in Batches \ {b} : run'[a] = run[a]

LEMMA GotoGoes ==
  ASSUME TypeOK, NEW b \in Batches, NEW r \in Loose, NEW pc, Goto(b, r, pc)
  PROVE  /\ run'[b].pc = pc /\ run'[b].i = r.i
         /\ \A a \in Batches \ {b} : run'[a] = run[a]
  BY DEF TypeOK, Goto, Loose

LEMMA HeadGoesOn ==
  ASSUME TypeOK, NEW b \in Batches, NEW r \in Loose, NextMessage(b, r)
  PROVE  GoesOn(b)
  BY GotoGoes DEF NextMessage, GoesOn

LEMMA AdvanceGoesOn ==
  ASSUME TypeOK, NEW b \in Batches, NEW r \in Loose, Advance(b, r)
  PROVE  GoesOn(b)
  <1>1. [r EXCEPT !.i = @ + 1] \in Loose BY DEF Loose
  <1> QED BY <1>1, GotoGoes, HeadGoesOn DEF Advance, GoesOn

LEMMA RecordGoesOn ==
  ASSUME TypeOK, NEW b \in Batches, NEW r \in Loose, Record(b, r)
  PROVE  GoesOn(b)
  BY GotoGoes, AdvanceGoesOn DEF Record, GoesOn

LEMMA FailureGoesOn ==
  ASSUME TypeOK, NEW b \in Batches, NEW r \in Loose, RecordFailure(b, r)
  PROVE  GoesOn(b)
  <1>1. [r EXCEPT !.stopped = TRUE] \in Loose BY DEF Loose
  <1> QED BY <1>1, GotoGoes, RecordGoesOn DEF RecordFailure, GoesOn

-----------------------------------------------------------------------------
(* What a step of one batch does *)

Alone(b) ==
  /\ session' = session
  /\ \A a \in Batches \ {b} : row'[a] = row[a] /\ run'[a] = run[a]

(* The row moves along an edge of the contract. *)
Edge(b) ==
  \/ row[b].status = "none" /\ row'[b].status = "pending"
  \/ row[b].status = "pending" /\ row'[b].status = "processing"
  \/ row[b].status = "processing" /\ row'[b].status \in {"completed", "failed"}
  \/ row[b].status \in {"pending", "processing"} /\ row'[b].status = "cancelled"

(* The batch is idle, ends, is picked up or goes on without a new message. *)
Quietly(b) ==
  /\ delivered' = delivered
  /\ run'[b].pc \in Sending => run[b].pc \in Sending \/ processing[b] = "true"
  /\ row'[b].status = row[b].status \/ Edge(b) \/ session = "deleted"

Delivers(b) ==
  /\ session = "present" /\ UNCHANGED row
  /\ At(b, "send") /\ run'[b].pc = "persist"
  /\ delivered' = [delivered EXCEPT ![b] = @ \cup {run[b].i}]

(* Only reserveOutgoingMessage brings a run to hold a reservation. *)
Keeps(b) ==
  run'[b].pc \in Reserved =>
    (run[b].pc \in Reserved \/ ReserveQuota(b)) /\ run'[b].i = run[b].i

Effect(b) == Alone(b) /\ Keeps(b) /\ (Quietly(b) \/ Delivers(b))

(* A step that leaves the rows alone. *)
LEMMA SameRow ==
  ASSUME IInv, NEW b \in Batches, UNCHANGED <<session, row, delivered>>,
         \A a \in Batches \ {b} : run'[a] = run[a],
         run'[b].pc \in Sending => run[b].pc \in Sending \/ processing[b] = "true",
         Keeps(b)
  PROVE  Effect(b)
  BY DEF Effect, Alone, Quietly

LEMMA GoingOn ==
  ASSUME NEW b \in Batches, GoesOn(b)
  PROVE  /\ \A a \in Batches \ {b} : run'[a] = run[a]
         /\ run'[b].pc \in Sending => processing[b] = "true"
         /\ Keeps(b)
  BY DEF GoesOn, Sending, Reserved, Keeps

LEMMA Ended ==
  ASSUME IInv, NEW b \in Batches, ReleaseSlot(b)
  PROVE  run'[b].pc = "none" /\ \A a \in Batches \ {b} : run'[a] = run[a]
  BY DEF IInv, TypeOK, ReleaseSlot, NoRun

LEMMA LoopEffect ==
  ASSUME IInv, NEW b \in Batches,
         \/ Gate(b) \/ ReserveQuota(b) \/ Persist(b) \/ ReleaseQuota(b)
         \/ FailedHookDone(b) \/ Delayed(b) \/ Finalize(b)
  PROVE  Effect(b)
  <1>0. TypeOK /\ run[b] \in RunType /\ run[b] \in Loose
    BY Loosely DEF IInv, TypeOK
  <1>1. ASSUME run[b].pc \in BeforeResult PROVE CountFailed(run[b]) \in Loose
    BY <1>1, FailureCounted, Loosely DEF Resulted
  <1>2. UNCHANGED <<session, row, delivered>>
    BY DEF Gate, ReserveQuota, Persist, ReleaseQuota, FailedHookDone, Delayed,
           Finalize, db
  <1>3. CASE Gate(b)
    <2>1. run[b].pc = "gate" /\ CountFailed(run[b]) \in Loose
      BY <1>1, <1>3 DEF Gate, At, BeforeResult
    <2> QED BY <1>0, <1>2, <1>3, <2>1, GotoGoes, FailureGoesOn, GoingOn, SameRow
            DEF Gate, Sending, Reserved, Keeps
  <1>4. CASE ReserveQuota(b)
    <2>1. run[b].pc = "reserve" /\ CountFailed(run[b]) \in Loose
      BY <1>1, <1>4 DEF ReserveQuota, At, BeforeResult
    <2> QED BY <1>0, <1>2, <1>4, <2>1, GotoGoes, SameRow
          DEF ReserveQuota, Sending, Reserved, Keeps
  <1>5. CASE Persist(b)
    BY <1>0, <1>2, <1>5, RecordGoesOn, GoingOn, SameRow DEF Persist
  <1>6. CASE ReleaseQuota(b)
    <2>1. CountFailed(run[b]) \in Loose
      BY <1>1, <1>6 DEF ReleaseQuota, At, BeforeResult
    <2> QED BY <1>0, <1>2, <1>6, <2>1, GotoGoes, SameRow
          DEF ReleaseQuota, Sending, Reserved, Keeps
  <1>7. CASE FailedHookDone(b)
    BY <1>0, <1>2, <1>7, FailureGoesOn, GoingOn, SameRow DEF FailedHookDone
  <1>8. CASE Delayed(b)
    <2>1. [run[b] EXCEPT !.i = @ + 1] \in Loose BY <1>0 DEF Loose
    <2> QED BY <1>0, <1>2, <1>8, <2>1, HeadGoesOn, GoingOn, SameRow DEF Delayed
  <1>9. CASE Finalize(b)
    <2>1. run'[b].pc \in {"finalSave", "finalUpdate"}
          /\ \A a \in Batches \ {b} : run'[a] = run[a]
      <3>1. CASE Goto(b, [run[b] EXCEPT !.status = FinalStatus(run[b])], "finalUpdate")
        BY <1>0, <3>1 DEF Goto, TypeOK, RunType
      <3>2. CASE Goto(b, [run[b] EXCEPT !.status = "cancelled",
                                        !.progress = Reconciled(@)], "finalSave")
        BY <1>0, <3>2 DEF Goto, TypeOK, RunType
      <3> QED BY <1>9, <3>1, <3>2 DEF Finalize
    <2> QED BY <1>2, <2>1, SameRow DEF Sending, Reserved, Keeps
  <1> QED BY <1>3, <1>4, <1>5, <1>6, <1>7, <1>8, <1>9

LEMMA StartEffect ==
  ASSUME IInv, NEW b \in Batches,
         \/ CreateBatch(b) \/ BatchCreated(b) \/ CreateFails(b) \/ ReadBatch(b)
         \/ MarkProcessing(b) \/ RunFails(b)
  PROVE  Effect(b)
  <1>0. /\ TypeOK /\ run[b] \in RunType /\ run[b] \in Loose
        /\ row[b] \in RowType /\ InStep(b)
    BY Loosely DEF IInv, TypeOK, BatchInv
  <1>1. CASE CreateBatch(b)
    <2>1. run'[b].pc = "insert" /\ \A a \in Batches \ {b} : run'[a] = run[a]
      BY <1>0, <1>1 DEF CreateBatch, TypeOK, NoRun
    <2> QED BY <1>1, <2>1, SameRow DEF CreateBatch, db, Sending, Reserved, Keeps
  <1>2. CASE BatchCreated(b)
    <2>1. run'[b].pc = "read" /\ \A a \in Batches \ {b} : run'[a] = run[a]
      BY <1>0, <1>2, GotoGoes DEF BatchCreated
    <2>2. /\ row[b].status = "none" /\ row'[b].status = "pending"
          /\ \A a \in Batches \ {b} : row'[a] = row[a]
      BY <1>0, <1>2, Data DEF BatchCreated, InStep, TypeOK
    <2> QED BY <1>2, <2>1, <2>2
            DEF BatchCreated, Effect, Alone, Quietly, Edge,
                Sending, Reserved, Keeps
  <1>3. CASE CreateFails(b)
    BY <1>3, Ended, SameRow DEF CreateFails, db, Sending, Reserved, Keeps
  <1>4. CASE ReadBatch(b)
    <2>1. run'[b].pc \in {"none", "mark"} /\ \A a \in Batches \ {b} : run'[a] = run[a]
      BY <1>0, <1>4, Ended DEF ReadBatch, Exit, TypeOK, NoRun
    <2> QED BY <1>4, <2>1, SameRow DEF ReadBatch, db, Sending, Reserved, Keeps
  <1>5. CASE MarkProcessing(b)
    <2>1. CASE ~Open(b)
      BY <1>5, <2>1, Ended, SameRow
            DEF MarkProcessing, Exit, Sending, Reserved, Keeps
    <2>2. CASE Open(b)
      <3>1. /\ \A a \in Batches \ {b} : run'[a] = run[a]
            /\ run'[b].pc \in Sending => processing[b] = "true"
            /\ Keeps(b)
        BY <1>0, <1>5, <2>2, GotoGoes, HeadGoesOn, GoingOn
              DEF MarkProcessing, Sending, Reserved, Keeps
      <3>2. row[b].status = "pending"
        BY <1>0, <1>5, <2>2 DEF MarkProcessing, Open, Exists, InStep, At
      <3>3. /\ row'[b].status = "processing"
            /\ \A a \in Batches \ {b} : row'[a] = row[a]
        BY <1>0, <1>5, <2>2, <3>2, Data DEF MarkProcessing, TypeOK, RowType
      <3> QED BY <1>5, <3>1, <3>2, <3>3
              DEF MarkProcessing, Effect, Alone, Quietly, Edge
    <2> QED BY <2>1, <2>2
  <1>6. CASE RunFails(b)
    BY <1>6, Ended, SameRow DEF RunFails, Exit, db, Sending, Reserved, Keeps
  <1> QED BY <1>1, <1>2, <1>3, <1>4, <1>5, <1>6

LEMMA EndEffect ==
  ASSUME IInv, NEW b \in Batches,
         \/ FailWithoutEngine(b) \/ Send(b) \/ SaveProgress(b) \/ FinalSave(b)
         \/ FinalUpdate(b)
  PROVE  Effect(b)
  <1>0. /\ TypeOK /\ run[b] \in RunType /\ run[b] \in Loose
        /\ row \in [Batches -> RowType] /\ row[b] \in RowType /\ InStep(b)
        /\ Local(run[b], delivered[b], processing[b])
    BY Loosely DEF IInv, TypeOK, BatchInv
  <1>1. ASSUME Open(b), run[b].pc \in Guarded \ {"mark"}
        PROVE  row[b].status = "processing" /\ row[b] # NoRow
    BY <1>0, <1>1, Data DEF Open, Exists, InStep, Known
  <1>2. CASE FailWithoutEngine(b)
    <2>1. CASE ~Open(b)
      BY <1>2, <2>1, Ended, SameRow
            DEF FailWithoutEngine, GuardedUpdate, Exit, Sending, Reserved, Keeps
    <2>2. CASE Open(b)
      <3>1. row[b].status = "processing" /\ row[b] # NoRow
        BY <1>1, <1>2, <2>2 DEF FailWithoutEngine, At, Guarded
      <3>2. row'[b].status = "failed" /\ \A a \in Batches \ {b} : row'[a] = row[a]
        BY <1>0, <1>2, <2>2, <3>1 DEF FailWithoutEngine, GuardedUpdate, RowType
      <3> QED BY <1>2, <3>1, <3>2, Ended
              DEF FailWithoutEngine, Exit, Effect, Alone, Quietly, Edge,
                  Sending, Reserved, Keeps
    <2> QED BY <2>1, <2>2
  <1>3. CASE Send(b)
    <2>1. run[b].pc = "send" BY <1>3 DEF Send, At
    <2>2. CASE Goto(b, run[b], "release") /\ UNCHANGED delivered
      <3>1. /\ run'[b].pc = "release" /\ run'[b].i = run[b].i
            /\ \A a \in Batches \ {b} : run'[a] = run[a]
        BY <1>0, <2>2, GotoGoes
      <3>2. Keeps(b) BY <2>1, <3>1 DEF Keeps, Reserved
      <3> QED BY <1>3, <2>2, <3>1, <3>2, SameRow DEF Send, db, Sending
    <2>3. CASE /\ session = "present"
               /\ delivered' = [delivered EXCEPT ![b] = @ \cup {run[b].i}]
               /\ Goto(b, CountSent(run[b]), "persist")
      <3>1. CountSent(run[b]) \in Loose
        BY <1>0, <2>1, Sent, Loosely DEF Local, Guarded, BeforeResult, Counted
      <3> QED BY <1>0, <1>3, <2>1, <2>3, <3>1, GotoGoes
              DEF Send, db, Effect, Alone, Delivers, At, Keeps, Reserved
    <2> QED BY <1>3, <2>2, <2>3 DEF Send
  <1>4. CASE SaveProgress(b)
    <2>1. run[b].pc = "progress" BY <1>4 DEF SaveProgress, At
    <2>2. CASE ~Open(b)
      <3>1. run'[b].pc = "finalSave" /\ \A a \in Batches \ {b} : run'[a] = run[a]
        BY <1>0, <1>4, <2>2 DEF SaveProgress, Goto, TypeOK, RunType
      <3> QED BY <1>4, <2>2, <3>1, SameRow
            DEF SaveProgress, Sending, Reserved, Keeps
    <2>3. CASE Open(b)
      <3>1. /\ \A a \in Batches \ {b} : run'[a] = run[a]
            /\ run'[b].pc \in Sending => processing[b] = "true"
            /\ Keeps(b)
        BY <1>0, <1>4, <2>3, AdvanceGoesOn, GoingOn DEF SaveProgress
      <3>2. row[b].status = "processing" /\ row[b] # NoRow
        BY <1>1, <2>1, <2>3 DEF Guarded
      <3>3. row'[b].status = row[b].status /\ \A a \in Batches \ {b} : row'[a] = row[a]
        BY <1>0, <1>4, <2>3, <3>2 DEF SaveProgress, RowType
      <3> QED BY <1>4, <3>1, <3>3 DEF SaveProgress, Effect, Alone, Quietly
    <2> QED BY <2>2, <2>3
  <1>5. CASE FinalSave(b)
    <2>1. row'[b].status = "cancelled" /\ \A a \in Batches \ {b} : row'[a] = row[a]
      BY <1>0, <1>5 DEF FinalSave
    <2>2. row[b].status \in {"processing", "cancelled"} \/ session = "deleted"
      BY <1>0, <1>5 DEF FinalSave, At, Guarded, InStep, Known
    <2> QED BY <1>5, <2>1, <2>2, Ended
            DEF FinalSave, Exit, Effect, Alone, Quietly, Edge,
                Sending, Reserved, Keeps
  <1>6. CASE FinalUpdate(b)
    <2>1. CASE ~Open(b)
      BY <1>6, <2>1, Ended, SameRow
            DEF FinalUpdate, GuardedUpdate, Exit, Sending, Reserved, Keeps
    <2>2. CASE Open(b)
      <3>1. row[b].status = "processing" /\ row[b] # NoRow
        BY <1>1, <1>6, <2>2 DEF FinalUpdate, At, Guarded
      <3>2. run[b].status \in {"completed", "failed"}
        BY <1>0, <1>6 DEF FinalUpdate, At, Local
      <3>3. row'[b].status \in {"completed", "failed"}
            /\ \A a \in Batches \ {b} : row'[a] = row[a]
        BY <1>0, <1>6, <2>2, <3>1, <3>2 DEF FinalUpdate, GuardedUpdate, RowType
      <3> QED BY <1>6, <3>1, <3>3, Ended
              DEF FinalUpdate, Exit, Effect, Alone, Quietly, Edge,
                  Sending, Reserved, Keeps
    <2> QED BY <2>1, <2>2
  <1> QED BY <1>2, <1>3, <1>4, <1>5, <1>6

-----------------------------------------------------------------------------
(* The refinement *)

St == [b \in Batches |-> IF session = "present" THEN row[b].status ELSE "gone"]
Un == [b \in Batches |-> /\ session = "present"
                         /\ row[b].status = "cancelled"
                         /\ run[b].pc \in {"gate", "reserve", "send"}]

(* The sends under way of cancelled batches may only cease. *)
LEMMA Ceases ==
  ASSUME St' = St, delivered' = delivered, \A b \in Batches : Un'[b] => Un[b]
  PROVE  Contract!Next
  <1> DEFINE lost == {b \in Batches : Un[b] /\ ~Un'[b]}
  <1>1. Un' = [b \in Batches |-> Un[b] /\ b \notin lost]
    <2>1. \A b \in Batches : Un'[b] = (Un[b] /\ b \notin lost) BY DEF Un
    <2> QED BY <2>1, Zenon DEF Un
  <1>2. lost \in SUBSET Batches OBVIOUS
  <1>3. Contract!Abandon
    BY <1>1, <1>2, Zenon DEF Contract!Abandon, St, Un
  <1> QED BY <1>3 DEF Contract!Next

(* A row that moves along an edge of the contract. *)
LEMMA Moves ==
  ASSUME NEW b \in Batches, session = "present", session' = session,
         delivered' = delivered, Edge(b),
         \A a \in Batches \ {b} : row'[a].status = row[a].status /\ Un'[a] = Un[a]
  PROVE  Contract!Next
  <1> DEFINE to == row'[b].status
  <1>1. St[b] = row[b].status /\ St' = [St EXCEPT ![b] = to]
    BY DEF St
  <1>2. \A a \in Batches : Un[a] \in BOOLEAN /\ Un'[a] \in BOOLEAN BY DEF Un
  <1>3. Un' = [Un EXCEPT ![b] = Un'[b]]
    BY Zenon DEF Un
  <1>4. row[b].status # "cancelled" => ~Un[b] BY DEF Un
  <1>5. to # "cancelled" => ~Un'[b] BY DEF Un
  <1>6. row[b].status # "cancelled" BY DEF Edge
  <1>7. ASSUME to # "cancelled" PROVE Un' = Un
    <2>1. \A a \in Batches : Un'[a] = Un[a]
      BY <1>2, <1>4, <1>5, <1>6, <1>7
    <2> QED BY <2>1, Zenon DEF Un
  <1>8. CASE row[b].status = "none" /\ to = "pending"
    <2>1. Contract!Submit(b)
      BY <1>1, <1>7, <1>8 DEF Contract!Submit, Contract!Move, St, Un
    <2> QED BY <2>1 DEF Contract!Next
  <1>9. CASE row[b].status = "pending" /\ to = "processing"
    <2>1. Contract!Begin(b)
      BY <1>1, <1>7, <1>9 DEF Contract!Begin, Contract!Move, St, Un
    <2> QED BY <2>1 DEF Contract!Next
  <1>10. CASE row[b].status = "processing" /\ to \in {"completed", "failed"}
    <2>1. Contract!Finish(b)
      BY <1>1, <1>7, <1>10 DEF Contract!Finish, Contract!Move, St, Un
    <2> QED BY <2>1 DEF Contract!Next
  <1>11. CASE row[b].status \in {"pending", "processing"} /\ to = "cancelled"
    <2>1. Contract!Move(b, {"pending", "processing"}, "cancelled")
      BY <1>1, <1>11 DEF Contract!Move, St
    <2>2. Contract!Cancel(b)
      BY <1>2, <1>3, <2>1 DEF Contract!Cancel, Un
    <2> QED BY <2>2 DEF Contract!Next
  <1> QED BY <1>8, <1>9, <1>10, <1>11 DEF Edge

LEMMA EffectRefines ==
  ASSUME IInv, NEW b \in Batches, Effect(b)
  PROVE  Contract!Next
  <1>0. /\ BatchInv(b) /\ InStep(b) /\ Local(run[b], delivered[b], processing[b])
        /\ delivered \in [Batches -> SUBSET (0..(Size - 1))]
    BY DEF IInv, BatchInv, TypeOK
  <1>1. /\ session' = session
        /\ \A a \in Batches \ {b} : row'[a] = row[a] /\ run'[a] = run[a]
        /\ \A a \in Batches \ {b} : Un'[a] = Un[a]
    BY DEF Effect, Alone, Un
  <1>2. CASE session = "deleted" /\ Quietly(b)
    <2>1. St' = St /\ \A a \in Batches : ~Un'[a] BY <1>1, <1>2 DEF St, Un
    <2> QED BY <1>2, <2>1, Ceases DEF Quietly
  <1>3. CASE session = "present" /\ Quietly(b) /\ row'[b].status = row[b].status
    <2>1. St' = St BY <1>1, <1>3 DEF St
    <2>2. Un'[b] => Un[b]
      BY <1>0, <1>1, <1>3 DEF Un, Quietly, Sending, InStep
    <2> QED BY <1>1, <1>3, <2>1, <2>2, Ceases DEF Quietly
  <1>4. CASE session = "present" /\ Quietly(b) /\ Edge(b)
    BY <1>1, <1>4, Moves DEF Quietly
  <1>5. CASE Delivers(b)
    <2> DEFINE i == run[b].i
    <2>1. /\ i \in (0..(Size - 1)) \ delivered[b]
      BY <1>0, <1>5, BulkAssumption
         DEF Delivers, At, Local, Guarded, BeforeResult, Counted, RunType
    <2>2. St[b] = "processing" \/ Un[b]
      BY <1>0, <1>5 DEF Delivers, At, InStep, Known, Guarded, St, Un
    <2>3. St' = St /\ ~Un'[b] BY <1>1, <1>5 DEF Delivers, St, Un
    <2>4. Un' = [Un EXCEPT ![b] = FALSE]
      BY <1>1, <2>3, Zenon DEF Un
    <2>5. delivered' = [delivered EXCEPT ![b] = @ \cup {i}] BY <1>5 DEF Delivers
    <2>6. Contract!Deliver(b)
      BY <2>1, <2>2, <2>3, <2>4, <2>5 DEF Contract!Deliver, St, Un
    <2> QED BY <2>6 DEF Contract!Next
  <1>6. session \in {"present", "deleted"} BY DEF IInv, TypeOK
  <1> QED BY <1>2, <1>3, <1>4, <1>5, <1>6 DEF Effect, Quietly

LEMMA CallerRefines ==
  ASSUME IInv, NEW c \in Clients, NEW b \in Batches,
         CancelBatch(c, b) \/ CancelSignals(c) \/ CancelWrites(c) \/ CancelFails(c)
  PROVE  Contract!Next
  <1>0. /\ UNCHANGED <<session, delivered, run>>
        /\ row \in [Batches -> RowType] /\ cancel[c].batch \in Batches
    BY
          DEF CancelBatch, CancelSignals, CancelWrites, CancelFails, db, IInv, TypeOK,
           CallType
  <1>1. CASE UNCHANGED row
    <2>1. St' = St /\ Un' = Un BY <1>0, <1>1 DEF St, Un
    <2> QED BY <1>0, <2>1, Ceases
  <1>2. CASE CancelWrites(c) /\ ~UNCHANGED row
    <2> DEFINE a == cancel[c].batch
    <2>1. row[a].status \in {"pending", "processing"} /\ row[a] # NoRow
      BY <1>2, Data DEF CancelWrites, Cancellable
    <2>2. row'[a].status = "cancelled" /\ \A d \in Batches \ {a} : row'[d] = row[d]
      BY <1>0, <1>2, <2>1 DEF CancelWrites, Cancellable, RowType
    <2>3. Edge(a) BY <2>1, <2>2 DEF Edge
    <2>4. \A d \in Batches \ {a} : row'[d].status = row[d].status /\ Un'[d] = Un[d]
      BY <1>0, <2>2 DEF Un
    <2>5. CASE session = "present" BY <1>0, <2>3, <2>4, <2>5, Moves
    <2>6. CASE session # "present"
      <3>1. St' = St /\ \A d \in Batches : ~Un'[d] BY <1>0, <2>6 DEF St, Un
      <3> QED BY <1>0, <3>1, Ceases
    <2> QED BY <2>5, <2>6
  <1> QED BY <1>1, <1>2
          DEF CancelBatch, CancelSignals, CancelFails, db

LEMMA LifeRefines ==
  ASSUME IInv, Crash \/ Boot \/ DeleteSession
  PROVE  Contract!Next
  <1>1. CASE Crash
    <2>1. St' = St /\ \A b \in Batches : ~Un'[b]
      BY <1>1 DEF Crash, db, St, Un, NoRun
    <2> QED BY <1>1, <2>1, Ceases DEF Crash
  <1>2. CASE Boot
    <2>1. \A b \in Batches : ~Un[b] /\ ~Un'[b]
      BY <1>2 DEF Boot, IInv, Down, At, Un
    <2>2. Un' = Un BY <2>1, Zenon DEF Un
    <2>3. \A b \in Batches : row'[b].status =
            IF row[b].status = "processing" THEN "failed" ELSE row[b].status
      BY <1>2, Data DEF Boot, IInv, TypeOK, RowType
    <2>4. session' = session /\ delivered' = delivered BY <1>2 DEF Boot
    <2>5. St' = [b \in Batches |-> IF St[b] = "processing" THEN "failed" ELSE St[b]]
      BY <2>3, <2>4 DEF St
    <2>6. Contract!Restart
      BY <2>2, <2>4, <2>5 DEF Contract!Restart, St, Un
    <2> QED BY <2>6 DEF Contract!Next
  <1>3. CASE DeleteSession
    <2>1. St' = [b \in Batches |-> "gone"] BY <1>3 DEF DeleteSession, St
    <2>2. \A b \in Batches : Un'[b] = FALSE BY <1>3 DEF DeleteSession, Un
    <2>3. Un' = [b \in Batches |-> FALSE] BY <2>2, Zenon DEF Un
    <2>4. Contract!Remove
      BY <1>3, <2>1, <2>3 DEF DeleteSession, Contract!Remove, St, Un
    <2> QED BY <2>4 DEF Contract!Next
  <1> QED BY <1>1, <1>2, <1>3

LEMMA StepRefines == IInv /\ [Next]_vars => [Contract!Next]_Contract!vars
  <1> SUFFICES ASSUME IInv, [Next]_vars PROVE [Contract!Next]_Contract!vars
    OBVIOUS
  <1>1. ASSUME NEW b \in Batches,
               CreateBatch(b) \/ CreateFails(b) \/ RunStep(b) \/ RunFails(b)
        PROVE  Contract!Next
    <2>1. Effect(b)
      BY <1>1, StartEffect, LoopEffect, EndEffect DEF RunStep
    <2> QED BY <2>1, EffectRefines
  <1>2. ASSUME NEW c \in Clients,
               \/ \E b \in Batches : CancelBatch(c, b)
               \/ CancelSignals(c) \/ CancelWrites(c) \/ CancelFails(c)
        PROVE  Contract!Next
    BY <1>2, CallerRefines, BulkAssumption
  <1>3. CASE UNCHANGED vars
    <2>1. UNCHANGED Contract!vars
      BY <1>3 DEF vars, db, Contract!vars
    <2> QED BY <2>1
  <1> QED BY <1>1, <1>2, <1>3, LifeRefines DEF Next

LEMMA InitRefines == Init => Contract!Init
  BY Data DEF Init, Contract!Init, NoRun

(* Whatever createBatch, processBatch, cancelBatch, a restart and a delete *)
(* of the session do to each other, each batch keeps the contract of the   *)
(* endpoint: one terminal status that never changes again, no message sent *)
(* twice, and at most one message going out after CANCELLED is stored.     *)
THEOREM BulkKeepsContract == Spec => KeepsContract
  <1>1. Spec => Contract!Spec
    BY Initially, Inductive, InitRefines, StepRefines, PTL
       DEF Spec, Contract!Spec
  <1> QED BY <1>1 DEF KeepsContract

-----------------------------------------------------------------------------
(* The quota *)

Paid == session = "present" => Cardinality(Covered) <= usage

LEMMA CoveredFinite ==
  /\ IsFiniteSet(Covered) /\ Cardinality(Covered) \in Nat
  /\ IsFiniteSet(Covered') /\ Cardinality(Covered') \in Nat
  <1>0. IsFiniteSet(Batches) /\ IsFiniteSet(0..(Size - 1))
    BY BulkAssumption, FS_Interval
  <1>1. IsFiniteSet(Batches \X (0..(Size - 1))) BY <1>0, FS_Product
  <1>2. /\ Covered \subseteq Batches \X (0..(Size - 1))
        /\ Covered' \subseteq Batches \X (0..(Size - 1))
    BY DEF Covered
  <1> QED BY <1>1, <1>2, FS_Subset, FS_CardinalityType

(* Nothing new to pay for. *)
LEMMA StaysPaid ==
  ASSUME IInv, Paid, Covered' \subseteq Covered, usage' = usage,
         session' = "present" => session = "present"
  PROVE  Paid'
  <1>1. Cardinality(Covered') <= Cardinality(Covered) BY CoveredFinite, FS_Subset
  <1>2. usage \in Nat BY BulkAssumption DEF IInv, TypeOK
  <1> QED BY <1>1, <1>2, CoveredFinite DEF Paid

LEMMA SameCovered ==
  ASSUME NEW b \in Batches, Effect(b), ~ReserveQuota(b), IInv
  PROVE  Covered' \subseteq Covered
  <1>1. \A a \in Batches, i \in 0..(Size - 1) : i \in delivered'[a]
          => i \in delivered[a] \/ (a = b /\ run[b].pc = "send" /\ run[b].i = i)
    BY DEF Effect, Quietly, Delivers, At, IInv, TypeOK
  <1>2. \A a \in Batches : run'[a].pc \in {"send", "release"}
          => run[a].pc \in {"send", "release"} /\ run'[a].i = run[a].i
    BY DEF Effect, Alone, Keeps, Reserved
  <1>3. SUFFICES ASSUME NEW m \in Covered' PROVE m \in Covered OBVIOUS
  <1>4. m \in Batches \X (0..(Size - 1)) /\ m[1] \in Batches /\ m[2] \in 0..(Size - 1)
    BY DEF Covered
  <1>5. \/ m[2] \in delivered'[m[1]]
        \/ run'[m[1]].pc \in {"send", "release"} /\ run'[m[1]].i = m[2]
    BY DEF Covered
  <1>6. \/ m[2] \in delivered[m[1]]
        \/ run[m[1]].pc \in {"send", "release"} /\ run[m[1]].i = m[2]
    BY <1>1, <1>2, <1>4, <1>5
  <1> QED BY <1>4, <1>6 DEF Covered

LEMMA ReservePays ==
  ASSUME IInv, Paid, NEW b \in Batches, ReserveQuota(b)
  PROVE  Paid'
  <1> DEFINE new == <<b, run[b].i>>
  <1>0. TypeOK /\ usage \in Nat /\ run[b] \in RunType /\ run[b] \in Loose
    BY BulkAssumption, Loosely DEF IInv, TypeOK
  <1>1. session' = session /\ delivered' = delivered /\ At(b, "reserve")
    BY DEF ReserveQuota, db
  <1>2. CASE session = "deleted" BY <1>1, <1>2 DEF Paid
  <1>3. CASE Goto(b, CountFailed(run[b]), "failedHook") /\ UNCHANGED usage
    <2>1. CountFailed(run[b]) \in Loose
      BY <1>1, FailureCounted, Loosely DEF Resulted, At, BeforeResult
    <2>2. run'[b].pc = "failedHook" /\ \A a \in Batches \ {b} : run'[a] = run[a]
      BY <1>0, <1>3, <2>1, GotoGoes
    <2>3. Covered' \subseteq Covered BY <1>1, <2>2 DEF Covered
    <2> QED BY <1>1, <1>3, <2>3, StaysPaid
  <1>4. CASE usage' = usage + 1 /\ Goto(b, run[b], "send")
    <2>1. /\ run'[b].pc = "send" /\ run'[b].i = run[b].i
          /\ \A a \in Batches \ {b} : run'[a] = run[a]
      BY <1>0, <1>4, GotoGoes
    <2>2. Covered' \subseteq Covered \cup {new}
      <3> SUFFICES ASSUME NEW m \in Covered' PROVE m \in Covered \cup {new}
        OBVIOUS
      <3>1. m \in Batches \X (0..(Size - 1)) /\ m = <<m[1], m[2]>> BY DEF Covered
      <3>2. \/ m[2] \in delivered[m[1]]
            \/ run'[m[1]].pc \in {"send", "release"} /\ run'[m[1]].i = m[2]
        BY <1>1 DEF Covered
      <3>3. CASE m[1] = b BY <1>1, <2>1, <3>1, <3>2, <3>3 DEF Covered, At
      <3>4. CASE m[1] # b BY <2>1, <3>1, <3>2, <3>4 DEF Covered
      <3> QED BY <3>3, <3>4
    <2>3. /\ IsFiniteSet(Covered \cup {new})
          /\ Cardinality(Covered \cup {new}) <= Cardinality(Covered) + 1
      <3>1. IsFiniteSet(Covered) /\ Cardinality(Covered) \in Nat
        BY CoveredFinite
      <3>2. /\ IsFiniteSet(Covered \cup {new})
            /\ Cardinality(Covered \cup {new}) =
                 IF new \in Covered THEN Cardinality(Covered)
                                     ELSE Cardinality(Covered) + 1
        BY <3>1, FS_AddElement
      <3> QED BY <3>1, <3>2
    <2>4. /\ Cardinality(Covered') <= Cardinality(Covered \cup {new})
          /\ Cardinality(Covered \cup {new}) \in Nat
      BY <2>2, <2>3, FS_Subset, FS_CardinalityType
    <2> QED BY <1>0, <1>1, <1>4, <2>3, <2>4, CoveredFinite DEF Paid
  <1> QED BY <1>2, <1>3, <1>4 DEF ReserveQuota

LEMMA ReleasePays ==
  ASSUME IInv, Paid, NEW b \in Batches, ReleaseQuota(b)
  PROVE  Paid'
  <1> DEFINE old == <<b, run[b].i>>
  <1>0. /\ TypeOK /\ usage \in Nat /\ run[b] \in RunType
        /\ Local(run[b], delivered[b], processing[b])
    BY BulkAssumption DEF IInv, BatchInv, TypeOK
  <1>1. session' = session /\ delivered' = delivered /\ run[b].pc = "release"
    BY DEF ReleaseQuota, At, db
  <1>2. CASE session # "present" BY <1>1, <1>2 DEF Paid
  <1>3. CASE session = "present"
    <2>1. run[b].i \in 0..(Size - 1) /\ run[b].i \notin delivered[b]
      BY <1>0, <1>1, BulkAssumption
         DEF Local, Guarded, BeforeResult, Counted, RunType
    <2>2. old \in Covered BY <1>1, <2>1 DEF Covered
    <2>3. CountFailed(run[b]) \in Loose
      BY <1>1, FailureCounted, Loosely DEF Resulted, BeforeResult
    <2>4. run'[b].pc = "failedHook" /\ \A a \in Batches \ {b} : run'[a] = run[a]
      BY <1>0, <2>3, GotoGoes DEF ReleaseQuota
    <2>5. Covered' \subseteq Covered \ {old}
      <3> SUFFICES ASSUME NEW m \in Covered' PROVE m \in Covered \ {old}
        OBVIOUS
      <3>1. m \in Batches \X (0..(Size - 1)) /\ m = <<m[1], m[2]>> BY DEF Covered
      <3>2. \/ m[2] \in delivered[m[1]]
            \/ run'[m[1]].pc \in {"send", "release"} /\ run'[m[1]].i = m[2]
        BY <1>1 DEF Covered
      <3>3. CASE m[1] = b BY <2>1, <2>4, <3>1, <3>2, <3>3 DEF Covered
      <3>4. CASE m[1] # b BY <2>4, <3>1, <3>2, <3>4 DEF Covered
      <3> QED BY <3>3, <3>4
    <2>6. /\ Cardinality(Covered \ {old}) = Cardinality(Covered) - 1
          /\ IsFiniteSet(Covered \ {old})
      BY <2>2, CoveredFinite, FS_RemoveElement
    <2>7. Cardinality(Covered') <= Cardinality(Covered) - 1
      BY <2>5, <2>6, FS_Subset
    <2>8. usage' = IF usage > 0 THEN usage - 1 ELSE 0
      BY <1>3 DEF ReleaseQuota, Released
    <2> QED BY <1>0, <1>3, <2>7, <2>8, CoveredFinite DEF Paid
  <1> QED BY <1>2, <1>3

(* Steps of callers, of the process and of the session pay for nothing. *)
LEMMA OthersStayPaid ==
  ASSUME IInv, Paid, NEW c, NEW b,
         \/ CancelBatch(c, b) \/ CancelSignals(c) \/ CancelWrites(c)
         \/ CancelFails(c) \/ Crash \/ Boot \/ DeleteSession
  PROVE  Paid'
  <1>1. CASE Crash \/ Boot
    <2>1. session' = session /\ usage' = usage /\ delivered' = delivered
      BY <1>1 DEF Crash, Boot, db
    <2>2. \A a \in Batches : run'[a] = NoRun \/ run'[a] = run[a]
      BY <1>1 DEF Crash, Boot
    <2>3. Covered' \subseteq Covered BY <2>1, <2>2 DEF Covered, NoRun
    <2> QED BY <2>1, <2>3, StaysPaid
  <1>2. CASE ~(Crash \/ Boot)
    <2>1. UNCHANGED <<usage, delivered, run>> /\ (session' = session \/ session' = "deleted")
      BY <1>2 DEF CancelBatch, CancelSignals, CancelWrites, CancelFails,
                  DeleteSession, db
    <2>2. Covered' = Covered BY <2>1 DEF Covered
    <2> QED BY <2>1, <2>2, StaysPaid
  <1> QED BY <1>1, <1>2

LEMMA PaidInductive == IInv /\ Paid /\ [Next]_vars => Paid'
  <1> SUFFICES ASSUME IInv, Paid, [Next]_vars PROVE Paid' OBVIOUS
  <1>1. ASSUME NEW b \in Batches,
               CreateBatch(b) \/ CreateFails(b) \/ RunStep(b) \/ RunFails(b)
        PROVE  Paid'
    <2>1. Effect(b)
      BY <1>1, StartEffect, LoopEffect, EndEffect DEF RunStep
    <2>2. CASE ~ReserveQuota(b) /\ ~ReleaseQuota(b)
      <3>1. usage' = usage
        BY <1>1, <2>2 DEF CreateBatch, CreateFails, RunStep, RunFails, BatchCreated,
             ReadBatch, MarkProcessing, FailWithoutEngine, Gate, Send, Persist,
             InsertFails, FailedHookDone, SaveProgress, Delayed, Finalize,
             FinalSave, FinalUpdate
      <3> QED BY <2>1, <2>2, <3>1, SameCovered, StaysPaid DEF Effect, Alone
    <2> QED BY <2>2, ReservePays, ReleasePays
  <1>2. CASE UNCHANGED vars
    <2>1. UNCHANGED <<session, usage, delivered, run>> BY <1>2 DEF vars, db
    <2>2. Covered' = Covered BY <2>1 DEF Covered
    <2> QED BY <2>1, <2>2, StaysPaid
  <1>3. ASSUME NEW c \in Clients,
               \/ \E b \in Batches : CancelBatch(c, b)
               \/ CancelSignals(c) \/ CancelWrites(c) \/ CancelFails(c)
        PROVE  Paid'
    BY <1>3, OthersStayPaid
  <1>4. CASE Crash \/ Boot \/ DeleteSession BY <1>4, OthersStayPaid
  <1> QED BY <1>1, <1>2, <1>3, <1>4 DEF Next

(* The usage counter never lags behind what WhatsApp accepted or is about  *)
(* to: each send has its reservation, and a reservation goes back only for *)
(* a message that was not sent.                                            *)
THEOREM BulkUsageCoversSent == Spec => []UsageCoversSent
  <1>1. Init => Paid
    <2> SUFFICES ASSUME Init PROVE Paid OBVIOUS
    <2>1. Covered = {} BY DEF Init, Covered, NoRun
    <2> QED BY <2>1, FS_EmptySet DEF Init, Paid
  <1>2. IInv /\ Paid => UsageCoversSent
    BY BulkAssumption DEF IInv, TypeOK, Paid, UsageCoversSent
  <1> QED BY <1>1, <1>2, Initially, Inductive, PaidInductive, PTL DEF Spec
=============================================================================
