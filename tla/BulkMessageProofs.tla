------------------------- MODULE BulkMessageProofs --------------------------
(***************************************************************************)
(* What holds of bulk batches for any number of batches, messages and      *)
(* callers, and any faults.                                                *)
(*                                                                         *)
(* Local says of a run how far it is: the loop index and the counters of   *)
(* its copy agree, and what it delivered lies behind the index.  InStep    *)
(* relates a run to its row and to the cancel flag; Called says what a     *)
(* suspended cancelBatch may rely on.                                      *)
(***************************************************************************)
EXTENDS BulkMessage, FiniteSetTheorems, TLAPS

Guarded == {"mark", "noEngine", "gate", "reserve", "send", "persist", "release",
            "failedHook", "progress", "sleep", "reread", "finalUpdate",
            "finalSave"}
BeforeResult == {"mark", "noEngine", "gate", "reserve", "send", "release"}
AfterResult  == {"persist", "failedHook", "progress", "sleep"}

Results(r) == r.progress.sent + r.progress.failed

(* D is what the run r delivered, f its entry in processingBatches. *)
Counted(r, D) ==
  /\ r.progress.sent = Cardinality(D)
  /\ \A i \in D : i < Results(r)
  /\ Total(r.progress) = Size

Local(r, D, f) ==
  /\ r \in RunType
  /\ r.pc \in {"none", "insert", "read"} => f # "true"
  /\ r.pc \in {"insert", "read", "mark"} => D = {}
  /\ r.pc \in Guarded => Counted(r, D)
  /\ r.pc \in Guarded \ {"finalSave"} => r.progress.cancelled = 0
  /\ r.pc \in BeforeResult => r.i < Size /\ Results(r) = r.i
  /\ r.pc \in AfterResult => r.i < Size /\ Results(r) = r.i + 1
  /\ r.pc = "reread" => r.stopped \/ f # "true" \/ Results(r) = Size
  /\ r.pc = "finalUpdate" => \/ r.status = "failed"
                             \/ r.status = "completed" /\ Results(r) = Size

(* The row of a batch in the light of what was delivered. *)
Accounts(w, D) ==
  /\ w \in RowType
  /\ Total(w.progress) = Size
  /\ w.status # "none" => w.progress.sent <= Cardinality(D)
  /\ w.status \in {"none", "pending", "processing"} => w.progress.cancelled = 0
  /\ w.status = "pending" => w.progress = Fresh
  /\ w.status = "completed" => /\ w.progress.sent = Cardinality(D)
                               /\ w.progress.sent + w.progress.failed = Size

(* A batch that has begun is being processed, cancelled, or deleted. *)
Known(status) ==
  \/ status \in {"processing", "cancelled"}
  \/ status = "none" /\ session = "deleted"

InStep(b) ==
  /\ At(b, "insert") => row[b] = NoRow
  /\ run[b].pc \in {"read", "mark"} => row[b].status \in {"none", "pending", "cancelled"}
  /\ run[b].pc \in Guarded \ {"mark"} => Known(row[b].status)
  /\ row[b].status = "cancelled" => processing[b] # "true"
  /\ At(b, "none") /\ ~Exists(b) /\ session = "present" => delivered[b] = {}

BatchInv(b) ==
  /\ delivered[b] \subseteq 0..(Size - 1)
  /\ processing[b] \in {"none", "true", "false"}
  /\ Local(run[b], delivered[b], processing[b])
  /\ Accounts(row[b], delivered[b])
  /\ InStep(b)

Called(c) ==
  LET b == cancel[c].batch
      p == cancel[c].progress
  IN  cancel[c].pc # "idle" =>
        /\ Exists(b) \/ session = "deleted"
        /\ ~At(b, "insert")
        /\ Total(p) = Size /\ p.cancelled = 0
        /\ p.sent <= Cardinality(delivered[b])
        /\ cancel[c].pc = "write" => processing[b] = "false" \/ At(b, "none")

(* Nothing runs between a crash and the boot. *)
Down == up \/ \A b \in Batches : At(b, "none")

IInv ==
  /\ TypeOK
  /\ SlotsBalance
  /\ Down
  /\ \A b \in Batches : BatchInv(b)
  /\ \A c \in Clients : Called(c)

-----------------------------------------------------------------------------
(* Data *)

LEMMA Data ==
  /\ Fresh \in Progress /\ Total(Fresh) = Size
  /\ Fresh.sent = 0 /\ Fresh.failed = 0 /\ Fresh.cancelled = 0
  /\ NoRun \in RunType /\ NoRow \in RowType /\ NoRow.status = "none"
  /\ NoRow.progress = Fresh /\ NoCall \in CallType
  BY BulkAssumption DEF Fresh, Progress, Total, NoRun, RunType, NoRow, RowType,
                        Statuses, Terminal, NoCall, CallType

LEMMA Counting ==
  ASSUME NEW D \in SUBSET (0..(Size - 1))
  PROVE  /\ IsFiniteSet(D) /\ Cardinality(D) \in Nat
         /\ \A i \in (0..(Size - 1)) \ D : Cardinality(D \cup {i}) = Cardinality(D) + 1
  <1>1. IsFiniteSet(0..(Size - 1))
    BY FS_Interval, BulkAssumption
  <1>2. IsFiniteSet(D) BY <1>1, FS_Subset
  <1> QED BY <1>2, FS_CardinalityType, FS_AddElement

(* Counting one more result. *)
LEMMA Sent ==
  ASSUME NEW r \in RunType, Total(r.progress) = Size, r.progress.cancelled = 0,
         Results(r) = r.i, r.i < Size
  PROVE  /\ CountSent(r) \in RunType /\ CountFailed(r) \in RunType
         /\ Total(CountSent(r).progress) = Size
         /\ Total(CountFailed(r).progress) = Size
         /\ Results(CountSent(r)) = r.i + 1 /\ Results(CountFailed(r)) = r.i + 1
         /\ CountSent(r).progress.sent = r.progress.sent + 1
         /\ CountFailed(r).progress.sent = r.progress.sent
         /\ CountSent(r).progress.cancelled = 0
         /\ CountFailed(r).progress.cancelled = 0
         /\ CountSent(r).i = r.i /\ CountFailed(r).i = r.i
  <1> DEFINE p == r.progress
             ps == Count(p, 1, 0)
             pf == Count(p, 0, 1)
  <1>1. p \in Progress /\ r.i \in 0..Size BY DEF RunType
  <1>2. p.pending \in 1..Size /\ p.sent < Size /\ p.failed < Size
    BY <1>1, BulkAssumption DEF Progress, Total, Results
  <1>3. ps \in Progress /\ pf \in Progress
    BY <1>1, <1>2, BulkAssumption DEF Progress, Count
  <1>4. /\ CountSent(r) \in RunType /\ CountSent(r).progress = ps
        /\ CountSent(r).i = r.i
    BY <1>3 DEF RunType, CountSent
  <1>5. /\ CountFailed(r) \in RunType /\ CountFailed(r).progress = pf
        /\ CountFailed(r).i = r.i
    BY <1>3 DEF RunType, CountFailed
  <1> QED BY <1>1, <1>2, <1>4, <1>5, BulkAssumption
          DEF Progress, Total, Results, Count

LEMMA Reconciling ==
  ASSUME NEW p \in Progress, p.cancelled = 0
  PROVE  /\ Reconciled(p) \in Progress
         /\ Total(Reconciled(p)) = Total(p)
         /\ Reconciled(p).sent = p.sent
         /\ Reconciled(p).failed = p.failed
  BY BulkAssumption DEF Reconciled, Progress, Total

-----------------------------------------------------------------------------
(* The message loop *)

Continues(b, D, f) ==
  \E q \in RunType : /\ run' = [run EXCEPT ![b] = q]
                     /\ q.pc \in Guarded \ {"mark"}
                     /\ Local(q, D, f)

(* A run with its results up to and including message r.i. *)
Resulted(r, D) ==
  /\ r \in RunType /\ Counted(r, D) /\ r.progress.cancelled = 0
  /\ r.i < Size /\ Results(r) = r.i + 1

LEMMA HeadContinues ==
  ASSUME NEW b \in Batches, NEW D, NEW r \in RunType,
         Counted(r, D), r.progress.cancelled = 0, Results(r) = r.i,
         NextMessage(b, r)
  PROVE  Continues(b, D, processing[b])
  <1> DEFINE q == [r EXCEPT !.pc = IF r.i < Size /\ processing[b] = "true"
                                   THEN "gate" ELSE "reread"]
  <1>1. q \in RunType BY DEF RunType
  <1>2. q.progress = r.progress /\ q.i = r.i /\ q.stopped = r.stopped
    BY DEF RunType
  <1>3. q.pc \in {"gate", "reread"} /\ (q.pc = "gate" <=> r.i < Size /\ processing[b] = "true")
    BY DEF RunType
  <1>4. r.i \in 0..Size BY DEF RunType
  <1>5. Local(q, D, processing[b])
    BY <1>1, <1>2, <1>3, <1>4, BulkAssumption
       DEF Local, Counted, Results, Guarded, BeforeResult, AfterResult
  <1>6. run' = [run EXCEPT ![b] = q] BY DEF NextMessage, Goto
  <1> QED BY <1>1, <1>3, <1>5, <1>6 DEF Continues, Guarded

LEMMA AdvanceContinues ==
  ASSUME NEW b \in Batches, NEW D, NEW r, Resulted(r, D), Advance(b, r)
  PROVE  Continues(b, D, processing[b])
  <1>1. CASE r.i < Size - 1 /\ processing[b] = "true"
    <2> DEFINE q == [r EXCEPT !.pc = "sleep"]
    <2>1. q \in RunType /\ q.progress = r.progress /\ q.i = r.i /\ q.pc = "sleep"
      BY DEF Resulted, RunType
    <2>2. Local(q, D, processing[b])
      BY <2>1 DEF Local, Resulted, Counted, Results, Guarded, BeforeResult, AfterResult
    <2>3. run' = [run EXCEPT ![b] = q] BY <1>1 DEF Advance, Goto
    <2> QED BY <2>1, <2>2, <2>3 DEF Continues, Guarded
  <1>2. CASE ~(r.i < Size - 1 /\ processing[b] = "true")
    <2> DEFINE s == [r EXCEPT !.i = @ + 1]
    <2>1. s \in RunType /\ s.progress = r.progress /\ s.i = r.i + 1
      BY BulkAssumption DEF Resulted, RunType
    <2>2. Counted(s, D) /\ Results(s) = s.i /\ s.progress.cancelled = 0
      BY <2>1 DEF Resulted, Counted, Results
    <2>3. NextMessage(b, s) BY <1>2 DEF Advance
    <2> QED BY <2>1, <2>2, <2>3, HeadContinues
  <1> QED BY <1>1, <1>2

LEMMA RecordContinues ==
  ASSUME NEW b \in Batches, NEW D, NEW r, Resulted(r, D), Record(b, r)
  PROVE  Continues(b, D, processing[b])
  <1> DEFINE q == [r EXCEPT !.pc = "progress"]
  <1>1. CASE run' = [run EXCEPT ![b] = q]
    <2>1. q \in RunType /\ q.progress = r.progress /\ q.i = r.i /\ q.pc = "progress"
      BY DEF Resulted, RunType
    <2>2. Local(q, D, processing[b])
      BY <2>1 DEF Local, Resulted, Counted, Results, Guarded, BeforeResult, AfterResult
    <2> QED BY <1>1, <2>1, <2>2 DEF Continues, Guarded
  <1>2. CASE Advance(b, r) BY <1>2, AdvanceContinues
  <1> QED BY <1>1, <1>2 DEF Record, Goto

LEMMA FailureContinues ==
  ASSUME NEW b \in Batches, NEW D, NEW r, Resulted(r, D), RecordFailure(b, r)
  PROVE  Continues(b, D, processing[b])
  <1> DEFINE q == [[r EXCEPT !.stopped = TRUE] EXCEPT !.pc = "reread"]
  <1>1. CASE run' = [run EXCEPT ![b] = q]
    <2>1. /\ q \in RunType /\ q.progress = r.progress /\ q.i = r.i
          /\ q.pc = "reread" /\ q.stopped
      BY DEF Resulted, RunType
    <2>2. Local(q, D, processing[b])
      BY <2>1 DEF Local, Resulted, Counted, Results, Guarded, BeforeResult, AfterResult
    <2> QED BY <1>1, <2>1, <2>2 DEF Continues, Guarded
  <1>2. CASE Record(b, r) BY <1>2, RecordContinues
  <1> QED BY <1>1, <1>2 DEF RecordFailure, Goto

-----------------------------------------------------------------------------
(* Steps of one batch *)

(* Only batch b changes, and usage, within its bounds. *)
Touches(b) ==
  /\ UNCHANGED <<session, cancel, crashes, up>>
  /\ usage' \in 0..Limit
  /\ row' \in [Batches -> RowType]
  /\ delivered' \in [Batches -> SUBSET (0..(Size - 1))]
  /\ processing' \in [Batches -> {"none", "true", "false"}]
  /\ run' \in [Batches -> RunType]
  /\ \A a \in Batches \ {b} :
       /\ row'[a] = row[a] /\ delivered'[a] = delivered[a]
       /\ processing'[a] = processing[a] /\ run'[a] = run[a]

(* What a suspended cancelBatch relies on is kept. *)
Serves(b) ==
  /\ Exists(b) => Exists(b)'
  /\ Cardinality(delivered[b]) <= Cardinality(delivered'[b])
  /\ (Exists(b) \/ session = "deleted") /\ (processing[b] = "false" \/ At(b, "none"))
       => (processing[b] = "false" \/ At(b, "none"))'
  /\ At(b, "insert")' => ~Exists(b) /\ (session = "present" \/ At(b, "insert"))
  /\ up \/ ~At(b, "none")

LEMMA Locality ==
  ASSUME IInv, NEW b \in Batches, Touches(b), Serves(b), BatchInv(b)', SlotsBalance',
         inFlight' \in Nat
  PROVE  IInv'
  <1>1. TypeOK'
    BY BulkAssumption DEF IInv, TypeOK, Touches, SlotsBalance
  <1>2. \A a \in Batches : BatchInv(a)'
    <2> SUFFICES ASSUME NEW a \in Batches, a # b PROVE BatchInv(a)' OBVIOUS
    <2>1. BatchInv(a) BY DEF IInv
    <2> QED BY <2>1 DEF BatchInv, Touches, InStep, Known, At, Exists
  <1>3. \A c \in Clients : Called(c)'
    <2> SUFFICES ASSUME NEW c \in Clients, cancel'[c].pc # "idle" PROVE Called(c)'
      BY DEF Called
    <2> DEFINE a == cancel[c].batch
    <2>1. Called(c) /\ a \in Batches /\ cancel' = cancel /\ session' = session
      BY DEF IInv, TypeOK, CallType, Touches
    <2>2. CASE a # b BY <2>1, <2>2 DEF Called, Touches, Exists, At
    <2>3. CASE a = b
      <3>1. /\ Cardinality(delivered[b]) \in Nat /\ Cardinality(delivered'[b]) \in Nat
            /\ cancel[c].progress.sent \in Nat
        BY Counting DEF IInv, TypeOK, Touches, CallType, Progress
      <3>2. ~At(b, "insert")'
        BY <2>1, <2>3 DEF Called, Serves, Touches
      <3>3. cancel[c].progress.sent <= Cardinality(delivered'[b])
        BY <2>1, <2>3, <3>1 DEF Called, Serves, Touches
      <3> QED BY <2>1, <2>3, <3>2, <3>3 DEF Called, Serves
    <2> QED BY <2>2, <2>3
  <1>4. Down' BY DEF Down, IInv, Serves, Touches, At
  <1> QED BY <1>1, <1>2, <1>3, <1>4 DEF IInv

LEMMA SlotKept ==
  ASSUME IInv, NEW b \in Batches, Touches(b), At(b, "none")' <=> At(b, "none"),
         inFlight' = inFlight
  PROVE  SlotsBalance' /\ inFlight' \in Nat
  <1>1. Running' = Running BY DEF Running, Touches, At
  <1> QED BY <1>1 DEF IInv, SlotsBalance, TypeOK

LEMMA SlotTaken ==
  ASSUME IInv, NEW b \in Batches, Touches(b), At(b, "none"), ~At(b, "none")',
         inFlight < Cap, inFlight' = inFlight + 1
  PROVE  SlotsBalance' /\ inFlight' \in Nat
  <1>1. Running' = Running \cup {b} /\ b \notin Running
    BY DEF Running, Touches, At
  <1>2. IsFiniteSet(Running) BY FS_Subset, BulkAssumption DEF Running
  <1>3. Cardinality(Running') = Cardinality(Running) + 1
    BY <1>1, <1>2, FS_AddElement
  <1> QED BY <1>3, BulkAssumption DEF IInv, SlotsBalance, TypeOK

LEMMA SlotGiven ==
  ASSUME IInv, NEW b \in Batches, Touches(b), ~At(b, "none"), At(b, "none")',
         inFlight' = inFlight - 1
  PROVE  SlotsBalance' /\ inFlight' \in Nat
  <1>1. Running' = Running \ {b} /\ b \in Running
    BY DEF Running, Touches, At
  <1>2. IsFiniteSet(Running) BY FS_Subset, BulkAssumption DEF Running
  <1>3. Cardinality(Running') = Cardinality(Running) - 1
    BY <1>1, <1>2, FS_RemoveElement
  <1>4. Cardinality(Running') \in Nat
    BY <1>1, <1>2, FS_Subset, FS_CardinalityType
  <1> QED BY <1>3, <1>4, BulkAssumption DEF IInv, SlotsBalance, TypeOK

(* A run that goes on, with its row, flag and deliveries as they were. *)
LEMMA Continued ==
  ASSUME IInv, NEW b \in Batches, run[b].pc \in Guarded \ {"mark"},
         Continues(b, delivered[b], processing[b]), usage' \in 0..Limit,
         UNCHANGED <<session, row, delivered, processing, inFlight, cancel, life>>
  PROVE  IInv'
  <1>1. PICK q \in RunType : /\ run' = [run EXCEPT ![b] = q]
                            /\ q.pc \in Guarded \ {"mark"}
                            /\ Local(q, delivered[b], processing[b])
    BY DEF Continues
  <1>2. run'[b] = q /\ \A a \in Batches \ {b} : run'[a] = run[a]
    BY <1>1 DEF IInv, TypeOK
  <1>3. Touches(b) BY <1>1, <1>2 DEF Touches, IInv, TypeOK, life
  <1>4. BatchInv(b)
    BY DEF IInv
  <1>5. BatchInv(b)'
    BY <1>1, <1>2, <1>4 DEF BatchInv, InStep, Known, At, Exists, Guarded
  <1>6. /\ ~At(b, "none") /\ ~At(b, "insert")
        /\ ~At(b, "none")' /\ ~At(b, "insert")'
    BY <1>1, <1>2 DEF At, Guarded
  <1>7. Cardinality(delivered[b]) \in Nat BY Counting DEF IInv, TypeOK
  <1>8. Serves(b) BY <1>6, <1>7 DEF Serves, Exists
  <1> QED BY <1>3, <1>5, <1>6, <1>8, SlotKept, Locality DEF life

(* The pieces the steps of the loop are made of. *)
LEMMA Goes ==
  ASSUME IInv, NEW b \in Batches, run[b].pc \in BeforeResult,
         NEW pc \in {"gate", "reserve", "send", "release", "noEngine"},
         Goto(b, run[b], pc)
  PROVE  Continues(b, delivered[b], processing[b])
  <1> DEFINE q == [run[b] EXCEPT !.pc = pc]
  <1>1. run[b] \in RunType /\ Local(run[b], delivered[b], processing[b])
    BY DEF IInv, BatchInv, Local
  <1>2. q \in RunType /\ q.pc = pc /\ q.i = run[b].i /\ q.progress = run[b].progress
    BY <1>1 DEF RunType
  <1>3. Local(q, delivered[b], processing[b])
    BY <1>1, <1>2 DEF Local, Guarded, BeforeResult, AfterResult, Counted, Results
  <1> QED BY <1>2, <1>3 DEF Continues, Goto, Guarded

LEMMA FailureCounted ==
  ASSUME IInv, NEW b \in Batches, run[b].pc \in BeforeResult
  PROVE  Resulted(CountFailed(run[b]), delivered[b])
  <1>1. run[b] \in RunType /\ Local(run[b], delivered[b], processing[b])
    BY DEF IInv, BatchInv, Local
  <1>2. /\ Counted(run[b], delivered[b]) /\ run[b].progress.cancelled = 0
        /\ Results(run[b]) = run[b].i /\ run[b].i < Size
    BY <1>1 DEF Local, Guarded, BeforeResult
  <1>3. run[b].i \in Nat /\ delivered[b] \subseteq 0..(Size - 1)
    BY <1>1, BulkAssumption DEF RunType, IInv, BatchInv
  <1> QED BY <1>1, <1>2, <1>3, Sent, BulkAssumption DEF Resulted, Counted

LEMMA FailedHookContinues ==
  ASSUME IInv, NEW b \in Batches, run[b].pc \in BeforeResult,
         Goto(b, CountFailed(run[b]), "failedHook")
  PROVE  Continues(b, delivered[b], processing[b])
  <1> DEFINE r == CountFailed(run[b])
             q == [r EXCEPT !.pc = "failedHook"]
  <1>1. Resulted(r, delivered[b]) BY FailureCounted
  <1>2. q \in RunType /\ q.pc = "failedHook" /\ q.i = r.i /\ q.progress = r.progress
    BY <1>1 DEF RunType, Resulted
  <1>3. Local(q, delivered[b], processing[b])
    BY <1>1, <1>2 DEF Local, Guarded, BeforeResult, AfterResult, Counted, Results, Resulted
  <1> QED BY <1>2, <1>3 DEF Continues, Goto, Guarded

LEMMA AtResult ==
  ASSUME IInv, NEW b \in Batches, run[b].pc \in AfterResult
  PROVE  Resulted(run[b], delivered[b])
  BY DEF IInv, BatchInv, Local, Guarded, AfterResult, Resulted

(* finalizeBatch finds the batch cancelled. *)
LEMMA CancelledContinues ==
  ASSUME IInv, NEW b \in Batches, run[b].pc \in {"progress", "reread"},
         Goto(b, [run[b] EXCEPT !.status = "cancelled", !.progress = Reconciled(@)],
              "finalSave")
  PROVE  Continues(b, delivered[b], processing[b])
  <1> DEFINE p == Reconciled(run[b].progress)
             q == [[run[b] EXCEPT !.status = "cancelled", !.progress = p]
                     EXCEPT !.pc = "finalSave"]
  <1>1. run[b] \in RunType /\ Local(run[b], delivered[b], processing[b])
    BY DEF IInv, BatchInv, Local
  <1>2. /\ run[b].progress \in Progress /\ run[b].progress.cancelled = 0
        /\ Counted(run[b], delivered[b])
    BY <1>1 DEF Local, Guarded, RunType
  <1>3. p \in Progress BY <1>2, Reconciling
  <1>4. q \in RunType /\ q.pc = "finalSave" /\ q.progress = p
    BY <1>1, <1>3 DEF RunType, Statuses, Terminal
  <1>5. Counted(q, delivered[b])
    BY <1>2, <1>4, Reconciling DEF Counted, Results
  <1>6. Local(q, delivered[b], processing[b])
    BY <1>4, <1>5 DEF Local, Guarded, BeforeResult, AfterResult
  <1> QED BY <1>4, <1>6 DEF Continues, Goto, Guarded

LEMMA LoopSteps ==
  ASSUME IInv, NEW b \in Batches,
         \/ Gate(b) \/ ReserveQuota(b) \/ Persist(b) \/ ReleaseQuota(b)
         \/ FailedHookDone(b) \/ Delayed(b) \/ Finalize(b)
  PROVE  IInv'
  <1>0. usage \in 0..Limit /\ run[b] \in RunType
    BY DEF IInv, TypeOK
  <1>1. CASE Gate(b)
    <2>1. run[b].pc \in BeforeResult /\ run[b].pc \in Guarded \ {"mark"}
      BY <1>1 DEF Gate, At, BeforeResult, Guarded
    <2>2. Continues(b, delivered[b], processing[b])
      BY <1>1, <2>1, Goes, FailureCounted, FailureContinues, FailedHookContinues DEF Gate
    <2> QED BY <1>0, <1>1, <2>1, <2>2, Continued DEF Gate, db
  <1>2. CASE ReserveQuota(b)
    <2>1. run[b].pc \in BeforeResult /\ run[b].pc \in Guarded \ {"mark"}
      BY <1>2 DEF ReserveQuota, At, BeforeResult, Guarded
    <2>2. Continues(b, delivered[b], processing[b])
      BY <1>2, <2>1, Goes, FailedHookContinues DEF ReserveQuota
    <2>3. usage' \in 0..Limit BY <1>0, <1>2, BulkAssumption DEF ReserveQuota
    <2> QED BY <1>2, <2>1, <2>2, <2>3, Continued DEF ReserveQuota, db
  <1>3. CASE Persist(b)
    <2>1. run[b].pc \in AfterResult /\ run[b].pc \in Guarded \ {"mark"}
      BY <1>3 DEF Persist, At, AfterResult, Guarded
    <2>2. Continues(b, delivered[b], processing[b])
      BY <1>3, <2>1, AtResult, RecordContinues DEF Persist
    <2> QED BY <1>0, <1>3, <2>1, <2>2, Continued DEF Persist, InsertFails, db
  <1>4. CASE ReleaseQuota(b)
    <2>1. run[b].pc \in BeforeResult /\ run[b].pc \in Guarded \ {"mark"}
      BY <1>4 DEF ReleaseQuota, At, BeforeResult, Guarded
    <2>2. Continues(b, delivered[b], processing[b])
      BY <1>4, <2>1, FailedHookContinues DEF ReleaseQuota
    <2>3. usage' \in 0..Limit
      BY <1>0, <1>4, BulkAssumption DEF ReleaseQuota, Released
    <2> QED BY <1>4, <2>1, <2>2, <2>3, Continued DEF ReleaseQuota, db
  <1>5. CASE FailedHookDone(b)
    <2>1. run[b].pc \in AfterResult /\ run[b].pc \in Guarded \ {"mark"}
      BY <1>5 DEF FailedHookDone, At, AfterResult, Guarded
    <2>2. Continues(b, delivered[b], processing[b])
      BY <1>5, <2>1, AtResult, FailureContinues DEF FailedHookDone
    <2> QED BY <1>0, <1>5, <2>1, <2>2, Continued DEF FailedHookDone, db
  <1>6. CASE Delayed(b)
    <2>1. run[b].pc \in AfterResult /\ run[b].pc \in Guarded \ {"mark"}
      BY <1>6 DEF Delayed, At, AfterResult, Guarded
    <2> DEFINE r == [run[b] EXCEPT !.i = @ + 1]
    <2>2. Resulted(run[b], delivered[b]) BY <2>1, AtResult
    <2>3. r \in RunType /\ r.progress = run[b].progress /\ r.i = run[b].i + 1
      BY <2>2, BulkAssumption DEF Resulted, RunType
    <2>4. Continues(b, delivered[b], processing[b])
      BY <1>6, <2>2, <2>3, HeadContinues DEF Delayed, Resulted, Counted, Results
    <2> QED BY <1>0, <1>6, <2>1, <2>4, Continued DEF Delayed, db
  <1>7. CASE Finalize(b)
    <2>1. At(b, "reread") /\ run[b].pc \in Guarded \ {"mark"}
      BY <1>7 DEF Finalize, At, Guarded
    <2> DEFINE q == [[run[b] EXCEPT !.status = FinalStatus(run[b])]
                       EXCEPT !.pc = "finalUpdate"]
    <2>2. CASE /\ run' = [run EXCEPT ![b] = q]
               /\ processing[b] = "true"
      <3>1. Local(run[b], delivered[b], processing[b]) BY DEF IInv, BatchInv
      <3>2. /\ q \in RunType /\ q.pc = "finalUpdate" /\ q.progress = run[b].progress
            /\ q.status = FinalStatus(run[b])
        BY <1>0 DEF RunType, FinalStatus, Statuses, Terminal
      <3>3. \/ FinalStatus(run[b]) = "failed"
            \/ FinalStatus(run[b]) = "completed" /\ ~run[b].stopped
        BY DEF FinalStatus
      <3>4. Local(q, delivered[b], processing[b])
        BY <2>1, <2>2, <3>1, <3>2, <3>3
           DEF Local, At, Guarded, BeforeResult, AfterResult, Counted, Results
      <3> QED BY <2>2, <3>2, <3>4, <1>0, <1>7, <2>1, Continued
              DEF Continues, Finalize, Guarded, db
    <2>3. CASE Goto(b, [run[b] EXCEPT !.status = "cancelled",
                                      !.progress = Reconciled(@)], "finalSave")
      BY <2>3, <1>0, <1>7, <2>1, CancelledContinues, Continued DEF Finalize, At, db
    <2> QED BY <1>7, <2>2, <2>3 DEF Finalize, Goto
  <1> QED BY <1>1, <1>2, <1>3, <1>4, <1>5, <1>6, <1>7

-----------------------------------------------------------------------------
(* Steps of one batch that write its row *)

(* The row of b moves on from what it was. *)
Written(b) ==
  /\ row' \in [Batches -> RowType]
  /\ \A a \in Batches \ {b} : row'[a] = row[a]
  /\ Exists(b) => Exists(b)'

(* A run that goes on, past the start of the batch. *)
LEMMA WritesOn ==
  ASSUME IInv, NEW b \in Batches, run[b].pc \in Guarded, Written(b),
         Continues(b, delivered'[b], processing[b]),
         delivered' \in [Batches -> SUBSET (0..(Size - 1))],
         \A a \in Batches \ {b} : delivered'[a] = delivered[a],
         Cardinality(delivered[b]) <= Cardinality(delivered'[b]),
         Accounts(row'[b], delivered'[b]),
         Known(row'[b].status),
         row'[b].status = "cancelled" => processing[b] # "true",
         UNCHANGED <<session, usage, processing, inFlight, cancel, life>>
  PROVE  IInv'
  <1>1. PICK q \in RunType : /\ run' = [run EXCEPT ![b] = q]
                             /\ q.pc \in Guarded \ {"mark"}
                             /\ Local(q, delivered'[b], processing[b])
    BY DEF Continues
  <1>2. run'[b] = q /\ \A a \in Batches \ {b} : run'[a] = run[a]
    BY <1>1 DEF IInv, TypeOK
  <1>3. Touches(b) BY <1>1, <1>2 DEF Touches, IInv, TypeOK, Written, life
  <1>4. /\ ~At(b, "none") /\ ~At(b, "insert")
        /\ ~At(b, "none")' /\ ~At(b, "insert")' /\ ~At(b, "read")' /\ ~At(b, "mark")'
    BY <1>1, <1>2 DEF At, Guarded
  <1>5. InStep(b)' BY <1>4 DEF InStep, At, Known
  <1>6. BatchInv(b)'
    BY <1>1, <1>2, <1>3, <1>5 DEF BatchInv, Touches
  <1>7. Serves(b) BY <1>4 DEF Serves, Exists, Written, IInv, Down, At
  <1> QED BY <1>3, <1>4, <1>6, <1>7, SlotKept, Locality DEF life

(* A run that ends. *)
LEMMA Ends ==
  ASSUME IInv, NEW b \in Batches, ~At(b, "none"), ReleaseSlot(b), Written(b),
         processing'[b] # "true", processing' \in [Batches -> {"none", "true", "false"}],
         \A a \in Batches \ {b} : processing'[a] = processing[a],
         Accounts(row'[b], delivered[b]),
         ~Exists(b)' /\ session = "present" => delivered[b] = {},
         UNCHANGED <<session, usage, delivered, cancel, life>>
  PROVE  IInv'
  <1>1. run'[b] = NoRun /\ \A a \in Batches \ {b} : run'[a] = run[a]
    BY DEF IInv, TypeOK, ReleaseSlot
  <1>2. Touches(b)
    BY <1>1, Data DEF Touches, IInv, TypeOK, Written, life, ReleaseSlot
  <1>3. At(b, "none")' /\ ~At(b, "insert")' BY <1>1 DEF At, NoRun
  <1>4. Local(run'[b], delivered'[b], processing'[b])
    BY <1>1, Data DEF Local, NoRun, Guarded, BeforeResult, AfterResult
  <1>5. InStep(b)' BY <1>1 DEF InStep, At, NoRun, Guarded
  <1>6. BatchInv(b)' BY <1>2, <1>4, <1>5 DEF BatchInv, Touches
  <1>7. Cardinality(delivered[b]) \in Nat BY Counting DEF IInv, TypeOK
  <1>8. Serves(b) BY <1>3, <1>7 DEF Serves, Written, IInv, Down
  <1> QED BY <1>2, <1>3, <1>6, <1>8, SlotGiven, Locality DEF life, ReleaseSlot

(* What the end of a run finds when it leaves the row alone. *)
LEMMA RowLeft ==
  ASSUME IInv, NEW b \in Batches, ~At(b, "none"), UNCHANGED row
  PROVE  /\ Written(b)
         /\ Accounts(row'[b], delivered[b])
         /\ ~Exists(b)' /\ session = "present" => delivered[b] = {}
  <1>1. BatchInv(b) /\ row \in [Batches -> RowType] BY DEF IInv, TypeOK
  <1>2. Written(b) BY <1>1 DEF Written, Exists
  <1>3. Accounts(row'[b], delivered[b]) BY <1>1 DEF BatchInv
  <1>4. ASSUME ~Exists(b), session = "present" PROVE delivered[b] = {}
    <2>1. run[b] \in RunType BY <1>1 DEF BatchInv, Local
    <2>2. run[b].pc \in {"insert", "read", "mark"}
      BY <1>1, <1>4, <2>1 DEF BatchInv, InStep, Known, Exists, At, Guarded, RunType
    <2> QED BY <1>1, <2>2 DEF BatchInv, Local
  <1> QED BY <1>2, <1>3, <1>4 DEF Exists

(* Exit drops the cancel flag. *)
LEMMA FlagDropped ==
  ASSUME IInv, NEW b \in Batches, Exit(b)
  PROVE  /\ ReleaseSlot(b)
         /\ processing'[b] # "true"
         /\ processing' \in [Batches -> {"none", "true", "false"}]
         /\ \A a \in Batches \ {b} : processing'[a] = processing[a]
  BY DEF Exit, IInv, TypeOK

LEMMA Exits ==
  ASSUME IInv, NEW b \in Batches, Exit(b), ~At(b, "none"),
         UNCHANGED <<session, row, usage, delivered, cancel, life>>
  PROVE  IInv'
  BY RowLeft, FlagDropped, Ends

LEMMA ExitSteps ==
  ASSUME IInv, NEW b \in Batches,
         \/ FailWithoutEngine(b) \/ FinalSave(b) \/ FinalUpdate(b) \/ RunFails(b)
         \/ CreateFails(b)
  PROVE  IInv'
  <1>0. /\ BatchInv(b) /\ Local(run[b], delivered[b], processing[b])
        /\ Accounts(row[b], delivered[b]) /\ InStep(b)
        /\ row \in [Batches -> RowType] /\ run[b] \in RunType
        /\ row[b] \in RowType /\ Cardinality(delivered[b]) \in Nat
    BY Counting DEF IInv, BatchInv, TypeOK
  <1>1. CASE FailWithoutEngine(b)
    <2>1. ~At(b, "none") BY <1>1 DEF FailWithoutEngine, At
    <2>2. CASE ~Open(b)
      BY <1>1, <2>1, <2>2, Exits DEF FailWithoutEngine, GuardedUpdate, life
    <2>3. CASE Open(b)
      <3> DEFINE w == [[row[b] EXCEPT !.status = "failed"] EXCEPT !.progress = row[b].progress]
      <3>1. row[b].status # "none" /\ row[b] # NoRow
        BY <2>3, Data DEF Open, Exists
      <3>2. /\ w \in RowType /\ w.status = "failed" /\ w.progress = row[b].progress
        BY <1>0, <3>1 DEF RowType, Statuses, Terminal
      <3>3. row'[b] = w /\ row' \in [Batches -> RowType]
            /\ \A a \in Batches \ {b} : row'[a] = row[a]
        BY <1>0, <1>1, <2>3, <3>2 DEF FailWithoutEngine, GuardedUpdate
      <3>4. Accounts(row'[b], delivered[b])
        BY <1>0, <3>1, <3>2, <3>3 DEF Accounts
      <3>5. Written(b) /\ Exists(b)' BY <3>2, <3>3 DEF Written, Exists
      <3> QED BY <1>1, <2>1, <3>4, <3>5, FlagDropped, Ends DEF FailWithoutEngine
    <2> QED BY <2>2, <2>3
  <1>2. CASE FinalSave(b)
    <2>1. ~At(b, "none") /\ At(b, "finalSave") BY <1>2 DEF FinalSave, At
    <2> DEFINE w == [status |-> "cancelled", progress |-> run[b].progress,
                     stopOnError |-> run[b].stopOnError]
    <2>2. w \in RowType /\ Counted(run[b], delivered[b])
      BY <1>0, <2>1 DEF Local, At, Guarded, RowType, RunType, Statuses, Terminal
    <2>3. row'[b] = w /\ row' \in [Batches -> RowType]
          /\ \A a \in Batches \ {b} : row'[a] = row[a]
      BY <1>0, <1>2, <2>2 DEF FinalSave
    <2>4. Accounts(row'[b], delivered[b])
      BY <1>0, <2>2, <2>3 DEF Accounts, Counted
    <2>5. Written(b) /\ Exists(b)' BY <2>3 DEF Written, Exists
    <2> QED BY <1>2, <2>1, <2>4, <2>5, FlagDropped, Ends DEF FinalSave
  <1>3. CASE FinalUpdate(b)
    <2>1. ~At(b, "none") /\ At(b, "finalUpdate") BY <1>3 DEF FinalUpdate, At
    <2>2. CASE ~Open(b)
      BY <1>3, <2>1, <2>2, Exits DEF FinalUpdate, GuardedUpdate, life
    <2>3. CASE Open(b)
      <3> DEFINE w == [[row[b] EXCEPT !.status = run[b].status] EXCEPT !.progress = run[b].progress]
      <3>1. row[b].status # "none" /\ row[b] # NoRow
        BY <2>3, Data DEF Open, Exists
      <3>2. /\ \/ run[b].status = "failed"
               \/ run[b].status = "completed" /\ Results(run[b]) = Size
            /\ Counted(run[b], delivered[b]) /\ run[b].progress \in Progress
        BY <1>0, <2>1 DEF Local, At, Guarded, RunType
      <3>3. w \in RowType /\ w.status = run[b].status /\ w.progress = run[b].progress
        BY <1>0, <3>1, <3>2 DEF RowType, Statuses, Terminal
      <3>4. row'[b] = w /\ row' \in [Batches -> RowType]
            /\ \A a \in Batches \ {b} : row'[a] = row[a]
        BY <1>0, <1>3, <2>3, <3>3 DEF FinalUpdate, GuardedUpdate
      <3>5. Accounts(row'[b], delivered[b])
        BY <1>0, <3>2, <3>3, <3>4 DEF Accounts, Counted, Results
      <3>6. Written(b) /\ Exists(b)' BY <3>2, <3>3, <3>4 DEF Written, Exists
      <3> QED BY <1>3, <2>1, <3>5, <3>6, FlagDropped, Ends DEF FinalUpdate
    <2> QED BY <2>2, <2>3
  <1>4. ASSUME ReleaseSlot(b), run[b].pc \in {"insert", "read"},
               UNCHANGED <<db, usage, delivered, processing, cancel, life>>
        PROVE  IInv'
    <2>1. ~At(b, "none") /\ processing[b] # "true"
      BY <1>0, <1>4 DEF At, Local
    <2>2. processing \in [Batches -> {"none", "true", "false"}]
      BY DEF IInv, TypeOK
    <2> QED BY <1>4, <2>1, <2>2, RowLeft, Ends DEF db
  <1>5. CASE RunFails(b)
    <2>1. ~At(b, "none") BY <1>5 DEF RunFails, At
    <2>2. CASE At(b, "read") BY <1>4, <1>5, <2>2 DEF RunFails, At
    <2>3. CASE ~At(b, "read") BY <1>5, <2>1, <2>3, Exits DEF RunFails, db
    <2> QED BY <2>2, <2>3
  <1>6. CASE CreateFails(b) BY <1>4, <1>6 DEF CreateFails, At
  <1> QED BY <1>1, <1>2, <1>3, <1>5, <1>6

LEMMA SendSteps ==
  ASSUME IInv, NEW b \in Batches, Send(b)
  PROVE  IInv'
  <1>0. /\ BatchInv(b) /\ Local(run[b], delivered[b], processing[b])
        /\ Accounts(row[b], delivered[b]) /\ InStep(b)
        /\ row \in [Batches -> RowType] /\ run[b] \in RunType
        /\ delivered \in [Batches -> SUBSET (0..(Size - 1))]
        /\ usage \in 0..Limit
    BY DEF IInv, BatchInv, TypeOK
  <1>1. /\ run[b].pc \in BeforeResult /\ run[b].pc \in Guarded \ {"mark"}
        /\ At(b, "send")
    BY DEF Send, At, BeforeResult, Guarded
  <1>2. CASE Goto(b, run[b], "release") /\ UNCHANGED delivered
    BY <1>0, <1>1, <1>2, Goes, Continued DEF Send, db
  <1>3. CASE /\ session = "present"
             /\ delivered' = [delivered EXCEPT ![b] = @ \cup {run[b].i}]
             /\ Goto(b, CountSent(run[b]), "persist")
    <2> DEFINE D == delivered[b] \cup {run[b].i}
               r == CountSent(run[b])
               q == [r EXCEPT !.pc = "persist"]
    <2>1. /\ Counted(run[b], delivered[b]) /\ run[b].progress.cancelled = 0
          /\ Results(run[b]) = run[b].i /\ run[b].i < Size /\ run[b].i \in 0..(Size - 1)
      BY <1>0, <1>1, BulkAssumption DEF Local, RunType, BeforeResult, Guarded
    <2>2. run[b].i \notin delivered[b] BY <2>1 DEF Counted
    <2>3. Cardinality(D) = Cardinality(delivered[b]) + 1
          /\ Cardinality(delivered[b]) \in Nat
      BY <1>0, <2>1, <2>2, Counting
    <2>4. /\ delivered'[b] = D /\ delivered' \in [Batches -> SUBSET (0..(Size - 1))]
          /\ \A a \in Batches \ {b} : delivered'[a] = delivered[a]
      BY <1>0, <1>3, <2>1
    <2>5. /\ r \in RunType /\ Total(r.progress) = Size
          /\ Results(r) = run[b].i + 1 /\ r.progress.sent = run[b].progress.sent + 1
          /\ r.progress.cancelled = 0 /\ r.i = run[b].i
      BY <1>0, <2>1, Sent DEF Counted
    <2>6. q \in RunType /\ q.pc = "persist" /\ q.progress = r.progress /\ q.i = r.i
      BY <2>5 DEF RunType
    <2>7. \A i \in D : i < Results(q)
      BY <1>0, <2>1, <2>5, <2>6, BulkAssumption DEF Counted, Results
    <2>8. Counted(q, D) BY <2>1, <2>3, <2>5, <2>6, <2>7 DEF Counted, Results
    <2>9. Local(q, D, processing[b])
      BY <2>1, <2>5, <2>6, <2>8 DEF Local, Guarded, BeforeResult, AfterResult, Results
    <2>10. Continues(b, delivered'[b], processing[b])
      BY <1>3, <2>4, <2>6, <2>9 DEF Continues, Goto, Guarded
    <2>11. row[b].status \in {"processing", "cancelled"}
           /\ (row[b].status = "cancelled" => processing[b] # "true")
      BY <1>0, <1>1, <1>3 DEF InStep, Known
    <2>12. Accounts(row[b], D)
      BY <1>0, <2>3, <2>11 DEF Accounts, RowType, Progress, NoRow, Fresh
    <2>13. Written(b) /\ row' = row BY <1>0 DEF Written, Exists, Send, db
    <2>14. UNCHANGED <<session, usage, processing, inFlight, cancel, life>>
      BY DEF Send, db
    <2>15. /\ Accounts(row'[b], delivered'[b])
           /\ Known(row'[b].status)
           /\ (row'[b].status = "cancelled" => processing[b] # "true")
           /\ Cardinality(delivered[b]) <= Cardinality(delivered'[b])
      BY <2>3, <2>4, <2>11, <2>12, <2>13 DEF Known
    <2> QED BY <1>1, <2>4, <2>10, <2>13, <2>14, <2>15, WritesOn
  <1> QED BY <1>2, <1>3 DEF Send

LEMMA ProgressSteps ==
  ASSUME IInv, NEW b \in Batches, SaveProgress(b)
  PROVE  IInv'
  <1>0. /\ BatchInv(b) /\ Accounts(row[b], delivered[b]) /\ InStep(b)
        /\ row \in [Batches -> RowType] /\ run[b] \in RunType
        /\ delivered \in [Batches -> SUBSET (0..(Size - 1))]
        /\ usage \in 0..Limit /\ Cardinality(delivered[b]) \in Nat
    BY Counting DEF IInv, BatchInv, TypeOK
  <1>1. /\ run[b].pc \in AfterResult /\ run[b].pc \in Guarded \ {"mark"}
        /\ run[b].pc = "progress"
    BY DEF SaveProgress, At, AfterResult, Guarded
  <1>2. CASE ~Open(b)
    <2>1. Goto(b, [run[b] EXCEPT !.status = "cancelled",
                                 !.progress = Reconciled(@)], "finalSave")
      BY <1>2 DEF SaveProgress
    <2>2. Continues(b, delivered[b], processing[b])
      BY <1>1, <2>1, CancelledContinues
    <2> QED BY <1>0, <1>1, <1>2, <2>2, Continued DEF SaveProgress
  <1>3. CASE Open(b)
    <2> DEFINE w == [row[b] EXCEPT !.progress = run[b].progress]
    <2>1. Resulted(run[b], delivered[b]) BY <1>1, AtResult
    <2>2. run[b].progress \in Progress /\ Counted(run[b], delivered[b])
          /\ run[b].progress.cancelled = 0
      BY <2>1 DEF Resulted, RunType
    <2>3. row[b].status # "none" /\ row[b].status # "cancelled" /\ row[b] # NoRow
      BY <1>3, Data DEF Open, Exists
    <2>4. w \in RowType /\ w.status = row[b].status /\ w.progress = run[b].progress
      BY <1>0, <2>2, <2>3 DEF RowType
    <2>5. row'[b] = w /\ row' \in [Batches -> RowType]
          /\ \A a \in Batches \ {b} : row'[a] = row[a]
      BY <1>0, <1>3, <2>4 DEF SaveProgress
    <2>6. Continues(b, delivered[b], processing[b])
      BY <1>3, <2>1, AdvanceContinues DEF SaveProgress
    <2>7. row[b].status = "processing"
      BY <1>0, <1>1, <2>3 DEF InStep, Known
    <2>8. Written(b) BY <2>3, <2>4, <2>5 DEF Written, Exists
    <2>9. Accounts(row'[b], delivered[b])
      BY <1>0, <2>2, <2>4, <2>5, <2>7 DEF Accounts, Counted
    <2>10. Known(row'[b].status) /\ row'[b].status # "cancelled"
      BY <2>4, <2>5, <2>7 DEF Known
    <2>11. UNCHANGED <<session, usage, delivered, processing, inFlight, cancel, life>>
      BY DEF SaveProgress
    <2> QED BY <1>0, <1>1, <2>6, <2>8, <2>9, <2>10, <2>11, WritesOn
  <1> QED BY <1>2, <1>3

LEMMA MarkSteps ==
  ASSUME IInv, NEW b \in Batches, MarkProcessing(b)
  PROVE  IInv'
  <1>0. /\ BatchInv(b) /\ Accounts(row[b], delivered[b]) /\ InStep(b)
        /\ Local(run[b], delivered[b], processing[b])
        /\ row \in [Batches -> RowType] /\ run[b] \in RunType
        /\ delivered \in [Batches -> SUBSET (0..(Size - 1))]
        /\ Cardinality(delivered[b]) \in Nat
    BY Counting DEF IInv, BatchInv, TypeOK
  <1>1. run[b].pc \in BeforeResult /\ run[b].pc \in Guarded /\ run[b].pc = "mark"
    BY DEF MarkProcessing, At, BeforeResult, Guarded
  <1>2. CASE ~Open(b)
    <2>1. ~At(b, "none") /\ Exit(b) BY <1>1, <1>2 DEF At, MarkProcessing
    <2> QED BY <1>2, <2>1, Exits DEF MarkProcessing
  <1>3. CASE Open(b)
    <2> DEFINE w == [row[b] EXCEPT !.status = "processing"]
    <2>1. row[b].status = "pending" /\ row[b] # NoRow
      BY <1>0, <1>1, <1>3, Data DEF Open, Exists, InStep
    <2>2. w \in RowType /\ w.status = "processing" /\ w.progress = row[b].progress
      BY <1>0, <2>1 DEF RowType, Statuses
    <2>3. /\ row'[b] = w /\ row' \in [Batches -> RowType]
          /\ \A a \in Batches \ {b} : row'[a] = row[a]
      BY <1>0, <1>3, <2>2 DEF MarkProcessing
    <2>4. /\ Counted(run[b], delivered[b]) /\ run[b].progress.cancelled = 0
          /\ Results(run[b]) = run[b].i
      BY <1>0, <1>1 DEF Local, Guarded
    <2>5. Continues(b, delivered[b], processing[b])
      <3>1. CASE NextMessage(b, run[b]) BY <1>0, <2>4, <3>1, HeadContinues
      <3>2. CASE Goto(b, run[b], "noEngine") BY <1>1, <3>2, Goes
      <3> QED BY <1>3, <3>1, <3>2 DEF MarkProcessing
    <2>6. Written(b) BY <2>2, <2>3 DEF Written, Exists
    <2>7. Accounts(row'[b], delivered[b])
      BY <1>0, <2>1, <2>2, <2>3 DEF Accounts
    <2>8. Known(row'[b].status) /\ row'[b].status # "cancelled"
      BY <2>2, <2>3 DEF Known
    <2>9. UNCHANGED <<session, usage, delivered, processing, inFlight, cancel, life>>
      BY <1>3 DEF MarkProcessing
    <2> QED BY <1>0, <1>1, <2>5, <2>6, <2>7, <2>8, <2>9, WritesOn
  <1> QED BY <1>2, <1>3

LEMMA ReadSteps ==
  ASSUME IInv, NEW b \in Batches, ReadBatch(b)
  PROVE  IInv'
  <1>0. /\ BatchInv(b) /\ Accounts(row[b], delivered[b]) /\ InStep(b)
        /\ Local(run[b], delivered[b], processing[b])
        /\ row \in [Batches -> RowType] /\ run \in [Batches -> RunType]
        /\ delivered \in [Batches -> SUBSET (0..(Size - 1))]
        /\ processing \in [Batches -> {"none", "true", "false"}]
        /\ usage \in 0..Limit /\ delivered[b] = {} /\ processing[b] # "true"
        /\ At(b, "read") /\ ~At(b, "none") /\ up
    BY DEF IInv, BatchInv, TypeOK, ReadBatch, At, Local, Down
  <1>1. CASE ReleaseSlot(b) /\ UNCHANGED processing
    <2>1. UNCHANGED <<session, row, usage, delivered, cancel, life>>
      BY DEF ReadBatch, db
    <2>2. Written(b) /\ Accounts(row'[b], delivered[b]) BY <1>0, <2>1, RowLeft
    <2> QED BY <1>0, <1>1, <2>1, <2>2, Ends
  <1>2. CASE Exit(b) BY <1>0, <1>2, Exits DEF ReadBatch, db
  <1>3. CASE /\ Exists(b) /\ NotCancelled(b)
             /\ processing' = [processing EXCEPT ![b] = "true"]
             /\ run' = [run EXCEPT ![b] =
                  [NoRun EXCEPT !.pc = "mark", !.progress = row[b].progress,
                                !.i = row[b].progress.sent + row[b].progress.failed,
                                !.stopOnError = row[b].stopOnError,
                                !.status = "processing"]]
             /\ UNCHANGED inFlight
    <2> DEFINE q == [NoRun EXCEPT !.pc = "mark", !.progress = row[b].progress,
                                  !.i = row[b].progress.sent + row[b].progress.failed,
                                  !.stopOnError = row[b].stopOnError,
                                  !.status = "processing"]
    <2>1. row[b].status = "pending" /\ row[b].progress = Fresh /\ row[b] # NoRow
      BY <1>0, <1>3, Data DEF InStep, At, Exists, NotCancelled, Accounts
    <2>2. row[b].stopOnError \in BOOLEAN /\ processing[b] = "none"
      BY <1>0, <1>3, <2>1 DEF RowType, NotCancelled
    <2>3. /\ q \in RunType /\ q.pc = "mark" /\ q.progress = Fresh /\ q.i = 0
      <3>1. Fresh.sent + Fresh.failed = 0 /\ 0 \in 0..Size
        BY Data, BulkAssumption
      <3> QED BY <2>1, <2>2, <3>1, Data DEF RunType, NoRun, Statuses
    <2>4. Local(q, {}, "true")
      BY <2>3, Data, BulkAssumption, FS_EmptySet
         DEF Local, Guarded, BeforeResult, AfterResult, Counted, Results
    <2>5. /\ run'[b] = q /\ processing'[b] = "true"
          /\ run' \in [Batches -> RunType]
          /\ processing' \in [Batches -> {"none", "true", "false"}]
          /\ \A a \in Batches \ {b} : run'[a] = run[a] /\ processing'[a] = processing[a]
      BY <1>0, <1>3, <2>3
    <2>6. UNCHANGED <<session, row, usage, delivered, cancel, life>>
      BY DEF ReadBatch, db
    <2>7. Touches(b) BY <1>0, <2>5, <2>6 DEF Touches, life
    <2>8. InStep(b)' BY <2>1, <2>3, <2>5, <2>6 DEF InStep, At, Exists, Guarded
    <2>9. BatchInv(b)'
      BY <1>0, <2>4, <2>5, <2>6, <2>7, <2>8 DEF BatchInv, Touches
    <2>10. ~At(b, "none")' /\ ~At(b, "insert")' BY <2>3, <2>5 DEF At
    <2>11. Cardinality(delivered[b]) \in Nat BY <1>0, Counting
    <2>12. Serves(b)
      <3>1. Exists(b) => Exists(b)' BY <2>6 DEF Exists
      <3>2. Cardinality(delivered[b]) <= Cardinality(delivered'[b])
        BY <2>6, <2>11
      <3>3. ~(processing[b] = "false" \/ At(b, "none")) BY <1>0, <2>2
      <3> QED BY <1>0, <2>10, <3>1, <3>2, <3>3 DEF Serves
    <2> QED BY <1>0, <1>3, <2>7, <2>9, <2>10, <2>12, SlotKept, Locality
  <1> QED BY <1>1, <1>2, <1>3 DEF ReadBatch

LEMMA CreateSteps ==
  ASSUME IInv, NEW b \in Batches, CreateBatch(b) \/ BatchCreated(b)
  PROVE  IInv'
  <1>0. /\ BatchInv(b) /\ Accounts(row[b], delivered[b]) /\ InStep(b)
        /\ Local(run[b], delivered[b], processing[b])
        /\ row \in [Batches -> RowType] /\ run \in [Batches -> RunType]
        /\ delivered \in [Batches -> SUBSET (0..(Size - 1))]
        /\ processing \in [Batches -> {"none", "true", "false"}]
        /\ usage \in 0..Limit /\ Cardinality(delivered[b]) \in Nat
    BY Counting DEF IInv, BatchInv, TypeOK
  <1>1. CASE CreateBatch(b)
    <2>1. PICK stop \in BOOLEAN :
            run' = [run EXCEPT ![b] = [NoRun EXCEPT !.pc = "insert", !.stopOnError = stop]]
      BY <1>1 DEF CreateBatch
    <2> DEFINE q == [NoRun EXCEPT !.pc = "insert", !.stopOnError = stop]
    <2>2. q \in RunType /\ q.pc = "insert" BY Data DEF RunType, NoRun
    <2>3. run'[b] = q /\ run' \in [Batches -> RunType]
          /\ \A a \in Batches \ {b} : run'[a] = run[a]
      BY <1>0, <2>1, <2>2
    <2>4. UNCHANGED <<session, row, usage, delivered, processing, cancel, life>>
      BY <1>1 DEF CreateBatch, db
    <2>5. /\ delivered[b] = {} /\ processing[b] # "true" /\ row[b] = NoRow
          /\ ~Exists(b) /\ session = "present" /\ up /\ At(b, "none")
      BY <1>0, <1>1 DEF CreateBatch, InStep, Local, At, Exists, RowType, NoRow,
                        Statuses, Terminal
    <2>6. Touches(b) BY <1>0, <2>3, <2>4 DEF Touches, life
    <2>7. Local(q, {}, processing[b])
      BY <2>2, <2>5 DEF Local, Guarded, BeforeResult, AfterResult
    <2>8. InStep(b)' BY <2>2, <2>3, <2>4, <2>5, Data DEF InStep, At, Guarded
    <2>9. BatchInv(b)' BY <1>0, <2>3, <2>4, <2>5, <2>7, <2>8 DEF BatchInv
    <2>10. Serves(b) BY <1>0, <2>4, <2>5 DEF Serves, Exists
    <2>11. ~At(b, "none")' BY <2>2, <2>3 DEF At
    <2>12. inFlight < Cap /\ inFlight' = inFlight + 1
      BY <1>1 DEF CreateBatch, SlotFree
    <2> QED BY <2>5, <2>6, <2>9, <2>10, <2>11, <2>12, SlotTaken, Locality
  <1>2. CASE BatchCreated(b)
    <2> DEFINE w == [status |-> "pending", progress |-> Fresh,
                     stopOnError |-> run[b].stopOnError]
               q == [run[b] EXCEPT !.pc = "read"]
    <2>1. /\ At(b, "insert") /\ delivered[b] = {} /\ processing[b] # "true"
          /\ row[b] = NoRow /\ ~At(b, "none")
      BY <1>0, <1>2 DEF BatchCreated, At, Local, InStep
    <2>2. w \in RowType /\ q \in RunType /\ q.pc = "read"
      BY <1>0, Data DEF RowType, RunType, Statuses
    <2>3. /\ row'[b] = w /\ run'[b] = q
          /\ row' \in [Batches -> RowType] /\ run' \in [Batches -> RunType]
          /\ \A a \in Batches \ {b} : row'[a] = row[a] /\ run'[a] = run[a]
      BY <1>0, <1>2, <2>2 DEF BatchCreated, Goto
    <2>4. UNCHANGED <<session, usage, delivered, processing, inFlight, cancel, life>>
      BY <1>2 DEF BatchCreated
    <2>5. Touches(b) BY <1>0, <2>3, <2>4 DEF Touches, life
    <2>6. Local(q, {}, processing[b])
      BY <2>1, <2>2 DEF Local, Guarded, BeforeResult, AfterResult
    <2>7. Accounts(w, {}) BY <2>2, Data, FS_EmptySet DEF Accounts
    <2>8. InStep(b)' BY <2>2, <2>3 DEF InStep, At, Guarded
    <2>9. BatchInv(b)' BY <1>0, <2>1, <2>3, <2>4, <2>6, <2>7, <2>8 DEF BatchInv
    <2>10. ~At(b, "none")' /\ ~At(b, "insert")' /\ Exists(b)'
      BY <2>2, <2>3 DEF At, Exists
    <2>11. up BY <2>1 DEF IInv, Down
    <2>12. Serves(b) BY <1>0, <2>1, <2>4, <2>10, <2>11 DEF Serves
    <2> QED BY <2>1, <2>4, <2>5, <2>9, <2>10, <2>12, SlotKept, Locality
  <1> QED BY <1>1, <1>2

-----------------------------------------------------------------------------
(* cancelBatch *)

(* cancelBatch wrote the row of b. *)
CancelledNow(b) ==
  /\ Exists(b) /\ row'[b].status = "cancelled"
  /\ Accounts(row'[b], delivered[b])
  /\ processing[b] = "false" \/ At(b, "none")

LEMMA CallerSteps ==
  ASSUME IInv, NEW c \in Clients,
         \/ \E b \in Batches : CancelBatch(c, b)
         \/ CancelSignals(c) \/ CancelWrites(c) \/ CancelFails(c)
  PROVE  IInv'
  <1>0. /\ TypeOK /\ SlotsBalance /\ Down /\ cancel \in [Clients -> CallType]
        /\ \A b \in Batches : BatchInv(b)
        /\ \A d \in Clients : Called(d)
    BY DEF IInv, TypeOK
  <1>1. CASE \E b \in Batches : CancelBatch(c, b)
    <2> PICK b \in Batches : CancelBatch(c, b) BY <1>1
    <2> DEFINE call == [pc |-> "signal", batch |-> b, progress |-> row[b].progress]
    <2>1. UNCHANGED <<session, row, usage, delivered, processing, inFlight, run, crashes, up>>
      BY DEF CancelBatch, db, life
    <2>2. /\ Accounts(row[b], delivered[b]) /\ InStep(b)
          /\ row[b].status \in {"pending", "processing"}
      BY <1>0 DEF CancelBatch, BatchInv
    <2>3. call \in CallType
      BY <1>0, <2>2, Data DEF CallType, Accounts, RowType
    <2>4. cancel' = [cancel EXCEPT ![c] = call] BY DEF CancelBatch
    <2>5. TypeOK' BY <1>0, <2>1, <2>3, <2>4 DEF TypeOK
    <2>6. SlotsBalance' /\ Down' BY <1>0, <2>1 DEF SlotsBalance, Running, At, Down
    <2>7. \A a \in Batches : BatchInv(a)'
      BY <1>0, <2>1 DEF BatchInv, InStep, At, Exists, Known
    <2>8. \A d \in Clients : Called(d)'
      <3> SUFFICES ASSUME NEW d \in Clients PROVE Called(d)' OBVIOUS
      <3>1. CASE d = c
        <4>1. cancel'[d] = call BY <1>0, <2>4, <3>1
        <4>2. Exists(b) /\ ~At(b, "insert")
          BY <2>2, Data DEF Exists, InStep
        <4> QED BY <2>1, <2>2, <4>1, <4>2 DEF Called, Accounts, Exists, At
      <3>2. CASE d # c
        <4>1. cancel'[d] = cancel[d] BY <1>0, <2>4, <3>2
        <4> QED BY <1>0, <2>1, <4>1 DEF Called, Exists, At
      <3> QED BY <3>1, <3>2
    <2> QED BY <2>5, <2>6, <2>7, <2>8 DEF IInv
  <1>2. CASE CancelSignals(c)
    <2> DEFINE b == cancel[c].batch
               call == [cancel[c] EXCEPT !.pc = "write"]
    <2>1. UNCHANGED <<session, row, usage, delivered, inFlight, run, crashes, up>>
      BY <1>2 DEF CancelSignals, db, life
    <2>2. b \in Batches /\ call \in CallType /\ call.pc = "write" /\ call.batch = b
          /\ call.progress = cancel[c].progress /\ cancel[c].pc # "idle"
      BY <1>0, <1>2 DEF CallType, CancelSignals
    <2>3. /\ cancel' = [cancel EXCEPT ![c] = call]
          /\ processing' = [processing EXCEPT ![b] = "false"]
      BY <1>2 DEF CancelSignals
    <2>4. TypeOK' BY <1>0, <2>1, <2>2, <2>3 DEF TypeOK
    <2>5. SlotsBalance' /\ Down' BY <1>0, <2>1 DEF SlotsBalance, Running, At, Down
    <2>6. \A a \in Batches : processing'[a] = processing[a] \/ processing'[a] = "false"
      BY <1>0, <2>3 DEF TypeOK
    <2>7. \A a \in Batches : BatchInv(a)'
      <3> SUFFICES ASSUME NEW a \in Batches PROVE BatchInv(a)' OBVIOUS
      <3>1. BatchInv(a) BY <1>0
      <3>2. Local(run'[a], delivered'[a], processing'[a])
        BY <2>1, <2>6, <3>1 DEF BatchInv, Local
      <3>3. InStep(a)' BY <2>1, <2>6, <3>1 DEF BatchInv, InStep, At, Exists, Known
      <3> QED BY <2>1, <2>6, <3>1, <3>2, <3>3 DEF BatchInv
    <2>8. \A d \in Clients : Called(d)'
      <3> SUFFICES ASSUME NEW d \in Clients, cancel'[d].pc # "idle" PROVE Called(d)'
        BY DEF Called
      <3>1. CASE d = c
        <4>1. cancel'[d] = call BY <1>0, <2>3, <3>1
        <4>2. processing'[b] = "false" BY <1>0, <2>2, <2>3 DEF TypeOK
        <4> QED BY <1>0, <2>1, <2>2, <4>1, <4>2 DEF Called, Exists, At
      <3>2. CASE d # c
        <4>1. cancel'[d] = cancel[d] BY <1>0, <2>3, <3>2
        <4>2. cancel[d].batch \in Batches BY <1>0 DEF CallType
        <4> QED BY <1>0, <2>1, <2>6, <4>1, <4>2 DEF Called, Exists, At
      <3> QED BY <3>1, <3>2
    <2> QED BY <2>4, <2>5, <2>7, <2>8 DEF IInv
  <1>3. ASSUME cancel' = [cancel EXCEPT ![c] = NoCall],
               UNCHANGED <<session, usage, delivered, processing, inFlight, run, crashes, up>>,
               row' \in [Batches -> RowType],
               \A b \in Batches : row'[b] = row[b] \/ CancelledNow(b)
        PROVE  IInv'
    <2>1. TypeOK' BY <1>0, <1>3, Data DEF TypeOK
    <2>2. SlotsBalance' /\ Down' BY <1>0, <1>3 DEF SlotsBalance, Running, At, Down
    <2>3. \A a \in Batches : BatchInv(a)'
      <3> SUFFICES ASSUME NEW a \in Batches PROVE BatchInv(a)' OBVIOUS
      <3>1. BatchInv(a) BY <1>0
      <3>2. CASE row'[a] = row[a]
        BY <1>3, <3>1, <3>2 DEF BatchInv, InStep, At, Exists, Known
      <3>3. CASE CancelledNow(a)
        <4>1. ~At(a, "insert") /\ processing[a] # "true"
          BY <3>1, <3>3, Data DEF CancelledNow, BatchInv, InStep, Exists, Local, At
        <4>2. InStep(a)'
          BY <1>3, <3>3, <4>1 DEF CancelledNow, InStep, At, Exists, Known
        <4> QED BY <1>3, <3>1, <3>3, <4>2 DEF CancelledNow, BatchInv
      <3> QED BY <1>3, <3>2, <3>3
    <2>4. \A d \in Clients : Called(d)'
      <3> SUFFICES ASSUME NEW d \in Clients, cancel'[d].pc # "idle" PROVE Called(d)'
        BY DEF Called
      <3>1. d # c BY <1>0, <1>3 DEF NoCall
      <3>2. cancel'[d] = cancel[d] /\ cancel[d].batch \in Batches
        BY <1>0, <1>3, <3>1 DEF CallType
      <3>3. Exists(cancel[d].batch) => Exists(cancel[d].batch)'
        BY <1>3, <3>2 DEF CancelledNow, Exists
      <3> QED BY <1>0, <1>3, <3>2, <3>3 DEF Called, At
    <2> QED BY <2>1, <2>2, <2>3, <2>4 DEF IInv
  <1>4. CASE CancelFails(c)
    BY <1>0, <1>3, <1>4 DEF CancelFails, db, life, TypeOK
  <1>5. CASE CancelWrites(c)
    <2> DEFINE b == cancel[c].batch
               p == Reconciled(cancel[c].progress)
               w == [[row[b] EXCEPT !.status = "cancelled"] EXCEPT !.progress = p]
    <2>1. cancel' = [cancel EXCEPT ![c] = NoCall]
          /\ UNCHANGED <<session, usage, delivered, processing, inFlight, run, crashes, up>>
      BY <1>5 DEF CancelWrites, life
    <2>2. CASE ~Cancellable(b)
      <3>1. row' = row BY <1>5, <2>2 DEF CancelWrites
      <3> QED BY <1>0, <1>3, <2>1, <3>1 DEF TypeOK
    <2>3. CASE Cancellable(b)
      <3>1. /\ b \in Batches /\ cancel[c].progress \in Progress
            /\ cancel[c].pc = "write"
        BY <1>0, <1>5 DEF CallType, CancelWrites
      <3>2. /\ Total(cancel[c].progress) = Size /\ cancel[c].progress.cancelled = 0
            /\ cancel[c].progress.sent <= Cardinality(delivered[b])
            /\ processing[b] = "false" \/ At(b, "none")
        BY <1>0, <3>1 DEF Called
      <3>3. p \in Progress /\ Total(p) = Size /\ p.sent <= Cardinality(delivered[b])
        BY <3>1, <3>2, Reconciling
      <3>4. row[b] # NoRow /\ Exists(b) /\ row \in [Batches -> RowType]
        BY <1>0, <2>3, Data DEF Cancellable, Exists, TypeOK
      <3>5. w \in RowType /\ w.status = "cancelled" /\ w.progress = p
        BY <3>1, <3>3, <3>4 DEF RowType, Statuses, Terminal
      <3>6. /\ row'[b] = w /\ row' \in [Batches -> RowType]
            /\ \A a \in Batches \ {b} : row'[a] = row[a]
        BY <1>5, <2>3, <3>1, <3>4, <3>5 DEF CancelWrites
      <3>7. Accounts(w, delivered[b]) BY <3>3, <3>5 DEF Accounts
      <3>8. CancelledNow(b) BY <3>2, <3>4, <3>5, <3>6, <3>7 DEF CancelledNow
      <3> QED BY <1>3, <2>1, <3>6, <3>8
    <2> QED BY <2>2, <2>3
  <1> QED BY <1>1, <1>2, <1>4, <1>5

-----------------------------------------------------------------------------
(* The process and the session *)

LEMMA LifeSteps ==
  ASSUME IInv, Crash \/ Boot \/ DeleteSession
  PROVE  IInv'
  <1>0. /\ TypeOK /\ SlotsBalance /\ Down
        /\ \A b \in Batches : BatchInv(b)
        /\ \A d \in Clients : Called(d)
    BY DEF IInv
  <1>1. CASE Crash
    <2>1. TypeOK'
      <3>1. /\ run' \in [Batches -> RunType] /\ cancel' \in [Clients -> CallType]
            /\ processing' \in [Batches -> {"none", "true", "false"}]
        BY <1>1, Data DEF Crash
      <3>2. crashes \in 0..MaxCrashes /\ MaxCrashes \in Nat /\ Cap \in Nat \ {0}
        BY <1>0, BulkAssumption DEF TypeOK
      <3>3. crashes < MaxCrashes /\ crashes' = crashes + 1 /\ inFlight' = 0
        BY <1>1 DEF Crash
      <3>4. crashes' \in 0..MaxCrashes /\ inFlight' \in 0..Cap
        BY <3>2, <3>3
      <3>5. up' \in BOOLEAN BY <1>1 DEF Crash
      <3> QED BY <1>0, <1>1, <3>1, <3>4, <3>5 DEF Crash, TypeOK, db
    <2>2. \A b \in Batches : run'[b] = NoRun /\ processing'[b] = "none" /\ At(b, "none")'
      BY <1>1 DEF Crash, At, NoRun
    <2>3. Running' = {} BY <2>2 DEF Running
    <2>4. SlotsBalance'
      BY <1>1, <2>3, FS_EmptySet, BulkAssumption DEF Crash, SlotsBalance
    <2>5. \A b \in Batches : BatchInv(b)'
      <3> SUFFICES ASSUME NEW b \in Batches PROVE BatchInv(b)' OBVIOUS
      <3>1. BatchInv(b) BY <1>0
      <3>2. Local(NoRun, delivered[b], "none")
        BY Data DEF Local, NoRun, Guarded, BeforeResult, AfterResult
      <3>3. ASSUME ~Exists(b), session = "present" PROVE delivered[b] = {}
        <4>1. run[b].pc \in {"none", "insert", "read", "mark"}
          BY <3>1, <3>3 DEF BatchInv, InStep, Exists, Known, Local, RunType, Guarded
        <4> QED BY <3>1, <3>3, <4>1 DEF BatchInv, Local, InStep, At
      <3>4. InStep(b)'
        BY <1>1, <2>2, <3>3 DEF Crash, db, InStep, At, Exists, NoRun, Guarded
      <3> QED BY <1>1, <2>2, <3>1, <3>2, <3>4 DEF BatchInv, Crash, db
    <2>6. \A d \in Clients : Called(d)' BY <1>1 DEF Crash, Called, NoCall
    <2> QED BY <2>1, <2>2, <2>4, <2>5, <2>6 DEF IInv, Down
  <1>2. CASE Boot
    <2>1. \A b \in Batches : At(b, "none") /\ processing[b] # "true"
      BY <1>0, <1>2 DEF Boot, Down, BatchInv, Local, At
    <2>2. \A b \in Batches : \/ row'[b] = row[b]
                             \/ /\ row[b].status = "processing" /\ row[b] # NoRow
                                /\ row'[b] = [row[b] EXCEPT !.status = "failed"]
      BY <1>2, Data DEF Boot
    <2>3. \A b \in Batches : row[b] \in RowType BY <1>0 DEF TypeOK
    <2>4. \A b \in Batches :
            \/ row'[b] = row[b]
            \/ /\ row[b].status = "processing"
               /\ row'[b] \in RowType /\ row'[b].status = "failed"
               /\ row'[b].progress = row[b].progress
      BY <2>2, <2>3 DEF RowType, Statuses, Terminal
    <2>5. row' \in [Batches -> RowType] BY <1>2, <2>3, <2>4 DEF Boot
    <2>6. UNCHANGED <<session, usage, delivered, processing, inFlight, run, cancel, crashes>>
      BY <1>2 DEF Boot
    <2>7. TypeOK' BY <1>0, <1>2, <2>5, <2>6 DEF TypeOK, Boot
    <2>8. SlotsBalance' BY <1>0, <2>6 DEF SlotsBalance, Running, At
    <2>9. \A b \in Batches : BatchInv(b)'
      <3> SUFFICES ASSUME NEW b \in Batches PROVE BatchInv(b)' OBVIOUS
      <3>1. BatchInv(b) /\ At(b, "none") BY <1>0, <2>1
      <3>2. InStep(b)'
        BY <2>4, <2>6, <3>1 DEF BatchInv, InStep, At, Exists, Guarded
      <3>3. Accounts(row'[b], delivered[b])
        BY <2>3, <2>4, <3>1 DEF BatchInv, Accounts
      <3> QED BY <2>6, <3>1, <3>2, <3>3 DEF BatchInv
    <2>10. \A d \in Clients : Called(d)'
      <3> SUFFICES ASSUME NEW d \in Clients, cancel[d].pc # "idle" PROVE Called(d)'
        BY <2>6 DEF Called
      <3>1. cancel[d].batch \in Batches BY <1>0 DEF TypeOK, CallType
      <3>2. Exists(cancel[d].batch) => Exists(cancel[d].batch)'
        BY <2>4, <2>6, <3>1 DEF Exists
      <3> QED BY <1>0, <2>6, <3>2 DEF Called, At
    <2>11. Down' BY <1>2 DEF Boot, Down
    <2> QED BY <2>7, <2>8, <2>9, <2>10, <2>11 DEF IInv
  <1>3. CASE DeleteSession
    <2>1. /\ UNCHANGED <<usage, delivered, processing, inFlight, run, cancel, crashes, up>>
          /\ session' = "deleted" /\ row' = [b \in Batches |-> NoRow]
      BY <1>3 DEF DeleteSession, life
    <2>2. TypeOK' BY <1>0, <2>1, Data DEF TypeOK
    <2>3. SlotsBalance' /\ Down' BY <1>0, <2>1 DEF SlotsBalance, Running, At, Down
    <2>4. \A b \in Batches : BatchInv(b)'
      <3> SUFFICES ASSUME NEW b \in Batches PROVE BatchInv(b)' OBVIOUS
      <3>1. BatchInv(b) /\ row'[b] = NoRow BY <1>0, <2>1
      <3>2. Accounts(NoRow, delivered[b])
        BY Data DEF Accounts, NoRow, Statuses
      <3>3. InStep(b)' BY <2>1, <3>1, Data DEF InStep, At, Exists, Known
      <3> QED BY <2>1, <3>1, <3>2, <3>3 DEF BatchInv
    <2>5. \A d \in Clients : Called(d)'
      BY <1>0, <2>1 DEF Called, At
    <2> QED BY <2>2, <2>3, <2>4, <2>5 DEF IInv
  <1> QED BY <1>1, <1>2, <1>3

-----------------------------------------------------------------------------
(* The theorems *)

LEMMA Initially == Init => IInv
  <1> SUFFICES ASSUME Init PROVE IInv OBVIOUS
  <1>1. TypeOK
    <2>1. /\ row \in [Batches -> RowType] /\ run \in [Batches -> RunType]
          /\ cancel \in [Clients -> CallType]
      BY Data DEF Init
    <2> QED BY <2>1, BulkAssumption DEF Init, TypeOK
  <1>2. \A b \in Batches : run[b] = NoRun /\ row[b] = NoRow /\ At(b, "none")
    BY DEF Init, At, NoRun
  <1>3. SlotsBalance
    <2>1. Running = {} BY <1>2 DEF Running
    <2> QED BY <2>1, FS_EmptySet, BulkAssumption DEF Init, SlotsBalance
  <1>4. \A b \in Batches : BatchInv(b)
    <2> SUFFICES ASSUME NEW b \in Batches PROVE BatchInv(b) OBVIOUS
    <2>1. Local(NoRun, {}, "none")
      BY Data DEF Local, NoRun, Guarded, BeforeResult, AfterResult
    <2>2. Accounts(NoRow, {}) BY Data DEF Accounts, NoRow, Statuses
    <2>3. InStep(b) BY <1>2 DEF InStep, At, NoRow, NoRun, Guarded, Init
    <2> QED BY <1>2, <2>1, <2>2, <2>3 DEF Init, BatchInv
  <1>5. Down /\ \A c \in Clients : Called(c)
    BY DEF Init, Down, Called, NoCall
  <1> QED BY <1>1, <1>3, <1>4, <1>5 DEF IInv

LEMMA Inductive == IInv /\ [Next]_vars => IInv'
  <1> SUFFICES ASSUME IInv, [Next]_vars PROVE IInv' OBVIOUS
  <1>1. CASE Next
    <2>1. ASSUME NEW b \in Batches,
                 CreateBatch(b) \/ CreateFails(b) \/ RunStep(b) \/ RunFails(b)
          PROVE  IInv'
      BY <2>1, CreateSteps, ReadSteps, MarkSteps, SendSteps, ProgressSteps,
         LoopSteps, ExitSteps DEF RunStep
    <2>2. ASSUME NEW c \in Clients,
                 \/ \E b \in Batches : CancelBatch(c, b)
                 \/ CancelSignals(c) \/ CancelWrites(c) \/ CancelFails(c)
          PROVE  IInv'
      BY <2>2, CallerSteps
    <2> QED BY <1>1, <2>1, <2>2, LifeSteps DEF Next
  <1>2. CASE UNCHANGED vars
    BY <1>2 DEF vars, db, life, IInv, TypeOK, SlotsBalance, Running, Down, At,
                BatchInv, InStep, Exists, Known, Called
  <1> QED BY <1>1, <1>2

(* Of createBatch, processBatch and cancelBatch: rows, counters, flags and *)
(* suspended calls keep their types, inFlightBatches stays within the cap  *)
(* and the usage counter within the plan.                                  *)
THEOREM BulkTypeCorrect == Spec => []TypeOK
  <1>1. IInv => TypeOK BY DEF IInv
  <1> QED BY <1>1, Initially, Inductive, PTL DEF Spec

(* inFlightBatches counts exactly the runs of processBatch under way and   *)
(* never exceeds BULK_MAX_CONCURRENT_BATCHES: no exit, not even one by a   *)
(* database error, keeps a slot, and no burst of createBatch overshoots.   *)
THEOREM BulkSlotsBalance == Spec => []SlotsBalance
  <1>1. IInv => SlotsBalance BY DEF IInv
  <1> QED BY <1>1, Initially, Inductive, PTL DEF Spec

(* Whatever executeBatch, finalizeBatch and cancelBatch write over each    *)
(* other, the counters of a stored batch account for each of its messages. *)
THEOREM BulkCountersAccount == Spec => []CountersAccount
  <1>1. IInv => CountersAccount
    BY DEF IInv, BatchInv, Accounts, CountersAccount, Exists
  <1> QED BY <1>1, Initially, Inductive, PTL DEF Spec
=============================================================================
