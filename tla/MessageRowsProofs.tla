------------------------- MODULE MessageRowsProofs --------------------------
(***************************************************************************)
(* What holds of the stored messages for any sets of messages, reports,    *)
(* limits and faults.                                                      *)
(*                                                                         *)
(* The invariant has a part for each question: Shape of the two rows of a  *)
(* message, Account and Metered of the allowance, Failures, Copy,          *)
(* Arrivals, Purged, and Queues and Carries of the reactions and edits.    *)
(***************************************************************************)
EXTENDS MessageRows, FiniteSetTheorems, SequenceTheorems, TLAPS

MarkType  == [Senders -> BOOLEAN]
ReactType == [kind : {"reaction"}, who : Senders, on : BOOLEAN, read : BOOLEAN,
             marks : MarkType, payload : BOOLEAN]
EditType  == [kind : {"edit"}, text : Edits]
OpsType   == ReactType \cup EditType

RowMap    == [Msgs -> RowType]
PcMap     == [Sends -> Calls]
TaskMap   == [Reports -> {"none", "hook", "stored", "fan", "done", "dropped"}]
AckType   == [msg : Outgoing, to : Receipts, try : 1..2]
ChainMap  == [Msgs -> Seq(OpsType)]
WantedMap == [Msgs -> [marks : MarkType, text : Texts]]
IndexMap  == [Msgs -> [own : Copies, event : Copies]]

Typed ==
  /\ own \in RowMap /\ event \in RowMap /\ pc \in PcMap /\ usage \in 0..Limit
  /\ accepted \subseteq Msgs /\ nameless \subseteq Sends /\ unmetered \subseteq Sends /\ leaked \subseteq Sends
  /\ task \in TaskMap /\ stale \subseteq Reports /\ outliving \subseteq Reports /\ fanned \in [Msgs -> Nat]
  /\ acks \subseteq AckType /\ receipts \subseteq Acked
  /\ chain \in ChainMap /\ \A m \in Msgs : Len(chain[m]) <= MaxChain[m]
  /\ wanted \in WantedMap /\ revoked \subseteq Msgs /\ early \subseteq Msgs
  /\ lost \subseteq Sends \X {"marks", "payload"}
  /\ importing \subseteq Msgs /\ imported \subseteq Msgs
  /\ sweep \subseteq Sends /\ hurt \subseteq Msgs /\ index \in IndexMap
  /\ live \in BOOLEAN /\ deleted \in BOOLEAN /\ crashes \in 0..MaxUpsets

-----------------------------------------------------------------------------
(* The rows *)

Storing == {"saveSent", "merge", "drop", "surviving"}

\* Only one of the two rows of a message carries its id, a row of an event
\* always does, and the send's own row carries it from the end of the send on.
Shape ==
  \A m \in Msgs :
    /\ event[m].wa <=> Exists(event[m])
    /\ event[m].status # "pending"
    /\ ~(own[m].wa /\ event[m].wa)
    /\ own[m].wa => own[m].status \notin {"none", "pending"} /\ m \in Sends /\ pc[m] = "over"
    /\ Exists(own[m]) => m \in Sends
    /\ Exists(own[m]) /\ ~own[m].wa => own[m].marks = NoMarks /\ own[m].text = "first"

-----------------------------------------------------------------------------
(* The allowance *)

Held == {m \in Sends \ unmetered : pc[m] \in Holding \/ m \in accepted \/ m \in leaked}

Account ==
  /\ \A m \in Sends :
       /\ pc[m] \notin Storing \cup {"over"} => m \notin accepted /\ m \notin leaked
       /\ pc[m] \in Storing => m \in accepted
  /\ usage = Cardinality(Held)

\* A send passes uncounted only when its session is gone, and not before its
\* reservation is due.
Asking  == {"new", "gate", "find", "user", "reserve"}
Metered == \A m \in unmetered : deleted /\ pc[m] \notin Asking

-----------------------------------------------------------------------------
(* Failures *)

Failures ==
  /\ \A a \in acks : <<a.msg, a.to>> \in receipts
  /\ \A m \in Msgs : /\ event[m].status = "failed" => <<m, "failed">> \in receipts
                     /\ own[m].wa /\ own[m].status = "failed" => <<m, "failed">> \in receipts
  /\ \A m \in Sends \ hurt :
       /\ pc[m] = "surviving" => own[m] = NoRow
       /\ pc[m] = "over" /\ m \in accepted =>
            own[m].status # "pending" /\ (own[m].status = "failed" => own[m].wa)

-----------------------------------------------------------------------------
(* One copy *)

Copied(m) ==
  /\ pc[m] \in {"merge", "drop", "surviving"} => event[m].wa
  /\ pc[m] \in {"drop", "surviving"} => (event[m].payload <=> m \in Media) \/ <<m, "payload">> \in lost
  /\ pc[m] = "surviving" => own[m] = NoRow
  /\ pc[m] = "over" /\ m \in accepted =>
       /\ Taken(m) /\ ~(Exists(own[m]) <=> Exists(event[m]))
       /\ (Stored(m).payload <=> m \in Media) \/ <<m, "payload">> \in lost
       /\ index[m] = [own   |-> IF Exists(own[m]) THEN "sent" ELSE "none",
                      event |-> IF Exists(own[m]) THEN "none" ELSE "sent"]

Copy ==
  ~deleted =>
    /\ \A m \in Msgs : index[m].event # "none" => event[m].wa
    /\ \A e \in Reports : task[e] = "stored" => event[Of[e]].wa
    /\ \A m \in Sends \ (hurt \cup nameless) : Copied(m)

-----------------------------------------------------------------------------
(* Arrivals *)

\* A report of m has stored it and not sent it out yet.
Going(m) == \E x \in Reports : Of[x] = m /\ task[x] = "stored"

\* A handler of an engine that outlived the session may store m once more.
Again(m) == \E x \in outliving : Of[x] = m

Arrived(m) ==
  /\ fanned[m] <= 1 \/ Again(m)
  /\ \A e \in Reports : Of[e] = m =>
       /\ task[e] # "fan"
       /\ task[e] = "stored" => \/ fanned[m] = 0 /\ \A x \in Reports : Of[x] = m /\ task[x] = "stored" => x = e
                                \/ Again(m)
       /\ task[e] = "done" /\ m \notin imported => fanned[m] >= 1 \/ Going(m)
  /\ ~deleted => (fanned[m] >= 1 \/ Going(m) => event[m].wa)
  /\ event[m].wa /\ m \notin imported => fanned[m] >= 1 \/ Going(m)

Arrivals == \A m \in Inbound \ hurt : Arrived(m)

-----------------------------------------------------------------------------
(* The purge *)

Purged ==
  /\ ~deleted => outliving = {}
  /\ deleted => /\ \A e \in Reports : task[e] = "hook" /\ e \notin stale => e \in outliving
                /\ \A m \in Msgs : Exists(event[m]) => m \in imported \/ Again(m)

-----------------------------------------------------------------------------
(* Reactions and edits *)

\* The place of a reaction of s, and of an edit, in a queue.
MarksAt(c, s) == {n \in DOMAIN c : c[n].kind = "reaction" /\ c[n].who = s}
EditsAt(c)    == {n \in DOMAIN c : c[n].kind = "edit"}

\* What the queue c leaves of a row r is what was asked for, w: the last
\* reaction of each sender, the last edit, and else what is stored already.
MarksLeft(c, w, r) ==
  \A s \in Senders :
    \/ MarksAt(c, s) = {} /\ r.marks[s] = w.marks[s]
    \/ \E n \in MarksAt(c, s) : c[n].on = w.marks[s] /\ \A i \in MarksAt(c, s) : i <= n
TextLeft(c, w, r) ==
  \/ EditsAt(c) = {} /\ r.text = w.text
  \/ \E n \in EditsAt(c) : c[n].text = w.text /\ \A i \in EditsAt(c) : i <= n

\* What the first reaction has read replaces the reactions of the row.
Ahead(c)   == c # <<>> /\ c[1].kind = "reaction" /\ c[1].read
Base(c, r) == [marks |-> IF Ahead(c) THEN c[1].marks ELSE r.marks, text |-> r.text]

Queued(m) ==
  /\ ~Taken(m) => chain[m] = <<>> /\ wanted[m].marks = NoMarks /\ wanted[m].text = "first"
  /\ Taken(m) => /\ <<m, "marks">> \in lost \/ MarksLeft(chain[m], wanted[m], Base(chain[m], Stored(m)))
                 /\ m \in revoked \/ TextLeft(chain[m], wanted[m], Base(chain[m], Stored(m)))

Queues == ~deleted => \A m \in Touched \ (hurt \cup early) : Queued(m)

\* Only the first one has read its row, whose payload is as it was then.
Carried(m) ==
  \A n \in DOMAIN chain[m] : chain[m][n].kind = "reaction" /\ chain[m][n].read =>
    /\ n = 1 /\ Taken(m) /\ (chain[m][n].payload => m \in Media)
    /\ (chain[m][n].payload <=> Stored(m).payload) \/ <<m, "payload">> \in lost

Carries ==
  ~deleted => /\ \A m \in Msgs : event[m].payload \/ own[m].payload => m \in Media
              /\ \A m \in Touched : Carried(m)

Inductive ==
  Typed /\ Shape /\ Account /\ Metered /\ Failures /\ Copy /\ Arrivals /\ Purged /\ Queues /\ Carries

-----------------------------------------------------------------------------
(* Types *)

LEMMA Sorts ==
  /\ Sends \subseteq Msgs /\ Outgoing \subseteq Msgs /\ Acked \subseteq Outgoing \X Receipts
  /\ Touched \subseteq Msgs /\ Revocable \subseteq Msgs /\ Imports \subseteq Msgs
  /\ \A m \in Touched : Ops[m] \subseteq Mutations
  /\ Inbound \subseteq Msgs /\ Inbound \cap Sends = {} /\ Of \in [Reports -> Msgs] /\ IsFiniteSet(Sends)
  /\ Limit \in Nat /\ MaxUpsets \in Nat /\ \A m \in Msgs : MaxChain[m] \in Nat
  /\ "" \notin Edits
BY MessageAssumption DEF MessageAssumption, Msgs, Outgoing, Sends

LEMMA RowTypes ==
  /\ NoMarks \in MarkType
  /\ NoRow \in RowType /\ NoRow.status = "none" /\ NoRow.wa = FALSE
  /\ EventRow \in RowType /\ EventRow.status = "sent" /\ EventRow.wa = TRUE /\ EventRow.payload = FALSE
  /\ EventRow.marks = NoMarks /\ EventRow.text = "first"
  /\ \A m : /\ PendingRow(m) \in RowType /\ PendingRow(m).status = "pending" /\ PendingRow(m).wa = FALSE
            /\ PendingRow(m).payload = (m \in Media)
            /\ PendingRow(m).marks = NoMarks /\ PendingRow(m).text = "first"
<1>1. NoMarks \in MarkType
  BY DEF NoMarks, MarkType
<1> QED
  BY <1>1 DEF NoRow, EventRow, PendingRow, RowType, Statuses, Texts, MarkType

(* What the updates of a row leave of it. *)
LEMMA RowUpdates ==
  ASSUME NEW r \in RowType
  PROVE  /\ r.status \in Statuses \cup {"none"} /\ r.wa \in BOOLEAN /\ r.payload \in BOOLEAN
         /\ r.marks \in MarkType /\ r.text \in Texts
         /\ \A s \in Statuses : [r EXCEPT !.status = s] \in RowType
         /\ \A t \in Texts : [r EXCEPT !.text = t] \in RowType
         /\ \A k \in MarkType : [r EXCEPT !.marks = k] \in RowType
         /\ \A k \in MarkType, l \in BOOLEAN : [r EXCEPT !.marks = k, !.payload = l] \in RowType
BY DEF RowType, MarkType

LEMMA SentRowIs ==
  ASSUME NEW m \in Sends, own[m] \in RowType
  PROVE  LET r == IF Exists(own[m]) THEN own[m] ELSE PendingRow(m)
         IN  /\ SentRow(m) \in RowType /\ SentRow(m).status = "sent" /\ (SentRow(m).wa <=> m \notin nameless)
             /\ (SentRow(m).payload <=> m \in Media) /\ SentRow(m).marks = r.marks /\ SentRow(m).text = r.text
<1> DEFINE r == IF Exists(own[m]) THEN own[m] ELSE PendingRow(m)
<1>1. r \in RowType
  BY RowTypes
<1>2. SentRow(m) = [r EXCEPT !.status = "sent", !.wa = m \notin nameless, !.payload = m \in Media]
  BY DEF SentRow
<1> HIDE DEF r
<1>3. PICK w \in BOOLEAN : w <=> m \notin nameless
  OBVIOUS
<1>4. PICK l \in BOOLEAN : l <=> m \in Media
  OBVIOUS
<1>5. SentRow(m) = [r EXCEPT !.status = "sent", !.wa = w, !.payload = l]
  <2>1. w = (m \notin nameless) /\ l = (m \in Media)
    BY <1>3, <1>4, Zenon
  <2> QED
    BY <1>2, <2>1, Zenon
<1>6. /\ SentRow(m) \in RowType /\ SentRow(m).status = "sent" /\ SentRow(m).wa = w
      /\ SentRow(m).payload = l /\ SentRow(m).marks = r.marks /\ SentRow(m).text = r.text
  BY <1>1, <1>5 DEF RowType, Statuses
<1> QED
  BY <1>3, <1>4, <1>6 DEF r

(* What each update puts where. *)
LEMMA Puts ==
  ASSUME Typed, NEW m \in Msgs
  PROVE  /\ own[m] \in RowType /\ event[m] \in RowType /\ Stored(m) \in RowType
         /\ \A r \in RowType : [own EXCEPT ![m] = r] \in RowMap /\ [event EXCEPT ![m] = r] \in RowMap
         /\ \A r \in RowType : SetStored(m, r) => own' \in RowMap /\ event' \in RowMap
         /\ \A b \in Copies : [index EXCEPT ![m].own = b] \in IndexMap /\ [index EXCEPT ![m].event = b] \in IndexMap
         /\ chain[m] \in Seq(OpsType)
<1>1. own \in [Msgs -> RowType] /\ event \in [Msgs -> RowType] /\ chain \in [Msgs -> Seq(OpsType)]
  BY DEF Typed, RowMap, ChainMap
<1>2. own[m] \in RowType /\ event[m] \in RowType /\ Stored(m) \in RowType /\ chain[m] \in Seq(OpsType)
  BY <1>1 DEF Stored
<1>3. \A r \in RowType : [own EXCEPT ![m] = r] \in RowMap /\ [event EXCEPT ![m] = r] \in RowMap
  BY <1>1 DEF RowMap
<1>4. \A r \in RowType : SetStored(m, r) => own' \in RowMap /\ event' \in RowMap
  BY <1>3 DEF SetStored, Typed
<1>5. \A b \in Copies : [index EXCEPT ![m].own = b] \in IndexMap /\ [index EXCEPT ![m].event = b] \in IndexMap
  BY DEF Typed, IndexMap
<1> QED
  BY <1>2, <1>3, <1>4, <1>5

LEMMA PcPuts ==
  ASSUME Typed, NEW m \in Sends, NEW l \in Calls
  PROVE  [pc EXCEPT ![m] = l] \in PcMap
BY DEF Typed, PcMap

LEMMA TaskPuts ==
  ASSUME Typed, NEW e \in Reports, NEW l \in {"none", "hook", "stored", "fan", "done", "dropped"}
  PROVE  [task EXCEPT ![e] = l] \in TaskMap
BY DEF Typed, TaskMap

LEMMA ReturnIs ==
  ASSUME NEW m \in Sends, ReturnReservation(m), Typed
  PROVE  usage' \in 0..Limit /\ leaked' \subseteq Sends /\ hurt' \subseteq Msgs
<1>1. usage \in 0..Limit /\ leaked \subseteq Sends /\ hurt \subseteq Msgs /\ m \in Msgs /\ Limit \in Nat
  BY Sorts DEF Typed
<1>2. usage' \in 0..Limit
  BY <1>1 DEF ReturnReservation
<1>3. leaked' \subseteq Sends /\ hurt' \subseteq Msgs
  BY <1>1 DEF ReturnReservation, Leak, DbFails
<1> QED
  BY <1>2, <1>3

(* The echo's row after the merge, and the send's own after a failure. *)
LEMMA MergedIs ==
  ASSUME Typed, NEW m \in Sends, Merge(m)
  PROVE  /\ event' \in RowMap
         /\ \A x \in Msgs \ {m} : event'[x] = event[x]
         /\ \/ event'[m] = event[m] /\ lost' = lost /\ (event[m].wa => m \in hurt')
            \/ /\ event[m].wa /\ event'[m].wa /\ event'[m].status = "sent"
               /\ (event'[m].payload <=> m \in Media)
               /\ event'[m].marks = IF m \in Media \cup Replies THEN NoMarks ELSE event[m].marks
               /\ event'[m].text = event[m].text /\ lost' = lost \cup Overwritten(m)
<1>0. m \in Msgs /\ event \in [Msgs -> RowType] /\ event[m] \in RowType
  BY Sorts DEF Typed, RowMap
<1>1. PICK l \in BOOLEAN : l <=> m \in Media
  OBVIOUS
<1>2. l = (m \in Media)
  BY <1>1, Zenon
<1> DEFINE k == IF m \in Media \cup Replies THEN NoMarks ELSE event[m].marks
<1> DEFINE r == [event[m] EXCEPT !.status = "sent", !.payload = l, !.marks = k]
<1>3. k \in MarkType
  BY <1>0, RowTypes, RowUpdates
<1> HIDE DEF k
<1>4. r \in RowType /\ r.status = "sent" /\ r.wa = event[m].wa /\ r.payload = l /\ r.marks = k /\ r.text = event[m].text
  BY <1>0, <1>1, <1>3 DEF RowType, MarkType, Statuses
<1>5. CASE /\ event[m].wa /\ lost' = lost \cup Overwritten(m)
           /\ event' = [event EXCEPT ![m].status = "sent", ![m].payload = m \in Media,
                                     ![m].marks = IF m \in Media \cup Replies THEN NoMarks ELSE event[m].marks]
  <2>1. event' = [event EXCEPT ![m].status = "sent", ![m].payload = l, ![m].marks = k]
    BY <1>2, <1>5, Zenon DEF k
  <2>2. event' = [event EXCEPT ![m] = r]
    BY <1>0, <2>1
  <2> HIDE DEF r
  <2>3. event'[m] = r /\ event' \in RowMap /\ \A x \in Msgs \ {m} : event'[x] = event[x]
    BY <1>0, <1>4, <2>2 DEF RowMap
  <2> QED
    BY <1>1, <1>4, <1>5, <2>3 DEF k
<1>6. CASE event' = event /\ lost' = lost /\ (event[m].wa => m \in hurt')
  BY <1>0, <1>6 DEF RowMap
<1> QED
  BY <1>5, <1>6 DEF Merge, DbFails

LEMMA FailedIs ==
  ASSUME Typed, NEW m \in Sends, SaveFailed(m)
  PROVE  /\ own' \in RowMap
         /\ \A x \in Msgs \ {m} : own'[x] = own[x]
         /\ \/ own'[m] = own[m] /\ m \in hurt'
            \/ /\ own'[m].status = "failed" /\ own'[m].wa = (Exists(own[m]) /\ own[m].wa)
               /\ own'[m].marks = IF Exists(own[m]) THEN own[m].marks ELSE NoMarks
               /\ own'[m].text = IF Exists(own[m]) THEN own[m].text ELSE "first"
               /\ own'[m].payload = FALSE
<1>0. m \in Msgs /\ own \in [Msgs -> RowType] /\ own[m] \in RowType
  BY Sorts DEF Typed, RowMap
<1> DEFINE q == IF Exists(own[m]) THEN own[m] ELSE PendingRow(m)
<1>1. /\ q \in RowType /\ q.wa = (Exists(own[m]) /\ own[m].wa)
      /\ q.marks = IF Exists(own[m]) THEN own[m].marks ELSE NoMarks
      /\ q.text = IF Exists(own[m]) THEN own[m].text ELSE "first"
  BY <1>0, RowTypes DEF RowType
<1> DEFINE r == [q EXCEPT !.status = "failed", !.payload = FALSE]
<1>2. own' = [own EXCEPT ![m] = r] \/ (own' = own /\ m \in hurt')
  <2>1. CASE own' = [own EXCEPT ![m] = [(IF Exists(own[m]) THEN own[m] ELSE PendingRow(m))
                                          EXCEPT !.status = "failed", !.payload = FALSE]]
    BY <2>1
  <2>2. CASE DbFails(m) /\ own' = own
    BY <2>2 DEF DbFails
  <2> HIDE DEF r, q
  <2> QED
    BY <2>1, <2>2 DEF SaveFailed
<1> HIDE DEF q
<1>3. r \in RowType /\ r.status = "failed" /\ r.wa = q.wa /\ r.marks = q.marks /\ r.text = q.text
      /\ r.payload = FALSE
  BY <1>1 DEF RowType, Statuses
<1> HIDE DEF r
<1> QED
  BY <1>0, <1>1, <1>2, <1>3 DEF RowMap

LEMMA TypedSend == ASSUME Typed, NEW m \in Sends, Send(m) PROVE Typed'
<1>0. m \in Msgs /\ Limit \in Nat
  BY Sorts
<1>00. \A l \in Calls : [pc EXCEPT ![m] = l] \in PcMap
  BY PcPuts
<1>1. CASE Request(m) \/ Gate(m) \/ FindSession(m) \/ FindUser(m) \/ Reserve(m)
  <2>1. pc' \in PcMap
    BY <1>1, <1>00 DEF Request, Gate, FindSession, FindUser, Reserve, Goto, Calls, Typed
  <2>2. usage' \in 0..Limit /\ unmetered' \subseteq Sends
    BY <1>0, <1>1 DEF Request, Gate, FindSession, FindUser, Reserve, Typed, apart
  <2> QED
    BY <1>1, <2>1, <2>2 DEF Request, Gate, FindSession, FindUser, Reserve, Typed, rows, apart, tasks, ackVars, muts, life, imports
<1>4. CASE Insert(m)
  <2>1. pc' \in PcMap
    BY <1>4, <1>00 DEF Insert, Goto, Calls
  <2>2. own' \in RowMap
    <3>1. PendingRow(m) \in RowType
      BY RowTypes
    <3> QED
      BY <1>0, <1>4, <3>1, Puts DEF Insert, Typed
  <2>3. index' \in IndexMap
    BY <1>0, <1>4, Puts DEF Insert, Emit, Copies, Typed
  <2> QED
    BY <1>0, <1>4, <2>1, <2>2, <2>3 DEF Insert, DbFails, Typed, apart, tasks, ackVars, muts, life, imports
<1>5. CASE Undo(m) \/ Release(m)
  <2>1. pc' \in PcMap
    BY <1>5, <1>00 DEF Undo, Release, Goto, Calls
  <2>2. usage' \in 0..Limit /\ leaked' \subseteq Sends /\ hurt' \subseteq Msgs
    BY <1>5, ReturnIs DEF Undo, Release
  <2> QED
    BY <1>5, <2>1, <2>2 DEF Undo, Release, Typed, rows, apart, tasks, ackVars, muts, life, imports
<1>6. CASE EngineAnswers(m)
  <2>1. pc' \in PcMap
    BY <1>6, <1>00 DEF EngineAnswers, Goto, Calls
  <2> QED
    BY <1>0, <1>6, <2>1 DEF EngineAnswers, Typed, rows, apart, tasks, ackVars, muts, life, imports
<1>7. CASE SaveSent(m)
  <2>1. SentRow(m) \in RowType
    BY <1>0, Puts, SentRowIs
  <2>2. pc' \in PcMap
    BY <1>7, <1>00 DEF SaveSent, Goto, Calls
  <2>3. own' \in RowMap
    BY <1>0, <1>7, <2>1, Puts DEF SaveSent, Typed
  <2>4. index' \in IndexMap
    BY <1>0, <1>7, Puts DEF SaveSent, Emit, Copies, Typed
  <2> QED
    BY <1>0, <1>7, <2>2, <2>3, <2>4 DEF SaveSent, DbFails, Typed, apart, tasks, ackVars, muts, life, imports
<1>8. CASE Merge(m)
  <2>1. pc' \in PcMap
    BY <1>8, <1>00 DEF Merge, Goto, Calls
  <2>2. event' \in RowMap
    BY <1>0, <1>8, MergedIs DEF Merge, Typed
  <2>3. lost' \subseteq Sends \X {"marks", "payload"}
    BY <1>8 DEF Merge, Overwritten, Typed
  <2> QED
    BY <1>0, <1>8, <2>1, <2>2, <2>3 DEF Merge, DbFails, Typed, apart, tasks, ackVars, muts, life, imports
<1>9. CASE Drop(m)
  <2>1. pc' \in PcMap
    BY <1>9, <1>00 DEF Drop, Goto, Calls
  <2>2. own' \in RowMap
    BY <1>0, <1>9, Puts, RowTypes DEF Drop, Typed
  <2> QED
    BY <1>0, <1>9, <2>1, <2>2 DEF Drop, DbFails, Typed, apart, tasks, ackVars, muts, life, imports
<1>10. CASE AnnounceSurvivor(m)
  <2>1. pc' \in PcMap
    BY <1>10, <1>00 DEF AnnounceSurvivor, Goto, Calls
  <2>2. index' \in IndexMap
    <3>1. index \in [Msgs -> [own : Copies, event : Copies]] /\ "none" \in Copies /\ "sent" \in Copies
      BY DEF Typed, IndexMap, Copies
    <3> DEFINE k == IF event[m].wa THEN "sent" ELSE index[m].event
    <3>2. k \in Copies
      BY <1>0, <3>1
    <3>3. \/ index' = [index EXCEPT ![m].own = "none", ![m].event = k]
          \/ index' = [index EXCEPT ![m].own = "none"]
      BY <1>10 DEF AnnounceSurvivor, Emit
    <3> HIDE DEF k
    <3> QED
      BY <1>0, <3>1, <3>2, <3>3 DEF IndexMap
  <2> QED
    BY <1>0, <1>10, <2>1, <2>2 DEF AnnounceSurvivor, DbFails, Typed, rows, apart, tasks, ackVars, muts, life, imports
<1>11. CASE SaveFailed(m)
  <2>1. pc' \in PcMap
    BY <1>11, <1>00 DEF SaveFailed, Goto, Calls
  <2>2. own' \in RowMap
    BY <1>0, <1>11, FailedIs DEF SaveFailed, Typed
  <2>3. index' \in IndexMap
    BY <1>0, <1>11, Puts DEF SaveFailed, Emit, Copies, Typed
  <2> QED
    BY <1>0, <1>11, <2>1, <2>2, <2>3 DEF SaveFailed, Leak, DbFails, Typed, apart, tasks, ackVars, muts, life, imports
<1> QED
  BY <1>1, <1>4, <1>5, <1>6, <1>7, <1>8, <1>9, <1>10, <1>11 DEF Send

LEMMA TypedReport ==
  ASSUME Typed, NEW e \in Reports, Report(e) \/ Project(e) \/ FanOut(e)
  PROVE  Typed'
<1>0. Of[e] \in Msgs
  BY Sorts
<1>00. \A l \in {"none", "hook", "stored", "fan", "done", "dropped"} : [task EXCEPT ![e] = l] \in TaskMap
  BY TaskPuts
<1>1. CASE Report(e)
  <2>1. task' \in TaskMap
    BY <1>00, <1>1 DEF Report
  <2> QED
    BY <1>0, <1>1, <2>1 DEF Report, Typed, rows, sends, apart, ackVars, muts, life, imports
<1>2. CASE Project(e)
  <2>1. task' \in TaskMap
    BY <1>00, <1>2 DEF Project
  <2>2. event' \in RowMap
    BY <1>0, <1>2, Puts, RowTypes DEF Project, Typed
  <2> QED
    BY <1>0, <1>2, <2>1, <2>2 DEF Project, DbFails, Typed, sends, apart, ackVars, muts, life, imports
<1>3. CASE FanOut(e)
  <2>1. task' \in TaskMap
    BY <1>00, <1>3 DEF FanOut
  <2>2. index' \in IndexMap
    BY <1>0, <1>3, Puts DEF FanOut, Copies, Typed
  <2>3. fanned' \in [Msgs -> Nat]
    BY <1>0, <1>3 DEF FanOut, Typed
  <2> QED
    BY <1>0, <1>3, <2>1, <2>2, <2>3 DEF FanOut, Typed, rows, sends, apart, ackVars, muts, life, imports
<1> QED
  BY <1>1, <1>2, <1>3

(* A receipt: what the update sets, and what it may be tried on again. *)
LEMMA TypedReceipt ==
  ASSUME Typed, (\E r \in Acked : Ack(r[1], r[2])) \/ (\E a \in acks : Advance(a))
  PROVE  Typed'
<1>1. ASSUME NEW r \in Acked, Ack(r[1], r[2]) PROVE Typed'
  <2>1. [msg |-> r[1], to |-> r[2], try |-> 1] \in AckType /\ <<r[1], r[2]>> = r
    <3>1. r \in Outgoing \X Receipts
      BY Sorts
    <3>2. r[1] \in Outgoing /\ r[2] \in Receipts /\ r = <<r[1], r[2]>>
      BY <3>1
    <3> QED
      BY <3>2 DEF AckType
  <2> QED
    BY <1>1, <2>1 DEF Ack, Typed, rows, sends, apart, tasks, muts, life, imports
<1>2. ASSUME NEW a \in acks, Advance(a) PROVE Typed'
  <2>1. a \in AckType /\ a.msg \in Msgs /\ a.to \in Receipts
    BY Sorts DEF Typed, AckType
  <2>2. [a EXCEPT !.try = 2] \in AckType
    BY <2>1 DEF AckType
  <2>3. acks' \subseteq AckType
    BY <1>2, <2>1, <2>2 DEF Advance, Typed
  <2>4. own' \in RowMap /\ event' \in RowMap
    <3>1. [Stored(a.msg) EXCEPT !.status = a.to] \in RowType
      <4>1. Stored(a.msg) \in RowType /\ a.to \in Statuses
        BY <2>1, Puts DEF Receipts, Statuses
      <4> QED
        BY <4>1, RowUpdates
    <3> QED
      BY <1>2, <2>1, <3>1, Puts DEF Advance, rows, Typed
  <2> QED
    BY <1>2, <2>1, <2>3, <2>4 DEF Advance, DbFails, Typed, sends, apart, tasks, muts, life, imports
<1> QED
  BY <1>1, <1>2

LEMMA TypedImport ==
  ASSUME Typed, NEW m \in Imports, ImportSelect(m) \/ ImportInsert(m)
  PROVE  Typed'
<1>0. m \in Msgs
  BY Sorts
<1>1. CASE ImportSelect(m)
  BY <1>0, <1>1 DEF ImportSelect, Typed, rows, sends, apart, tasks, ackVars, muts, life
<1>2. CASE ImportInsert(m)
  <2>1. event' \in RowMap
    BY <1>0, <1>2, Puts, RowTypes DEF ImportInsert, Typed
  <2> QED
    BY <1>0, <1>2, <2>1 DEF ImportInsert, Typed, sends, apart, tasks, ackVars, muts, life
<1> QED
  BY <1>1, <1>2

(* The reaper writes rows that are still pending. *)
LEMMA ReapIs ==
  ASSUME Typed, NEW m \in Sends, Reap(m)
  PROVE  /\ own' \in RowMap /\ index' \in IndexMap
         /\ \A x \in Msgs \ {m} : own'[x] = own[x]
         /\ \/ own'[m] = own[m] /\ index' = index
            \/ /\ own[m].status = "pending" /\ own'[m].status = "failed" /\ own'[m].wa = own[m].wa
               /\ own'[m].marks = own[m].marks /\ own'[m].text = own[m].text /\ own'[m].payload = FALSE
               /\ index' = [index EXCEPT ![m].own = "failed"]
<1>0. m \in Msgs /\ own \in [Msgs -> RowType] /\ own[m] \in RowType
  BY Sorts DEF Typed, RowMap
<1>1. /\ ReapedRow(m) \in RowType /\ ReapedRow(m).status = "failed" /\ ReapedRow(m).wa = own[m].wa
      /\ ReapedRow(m).marks = own[m].marks /\ ReapedRow(m).text = own[m].text
      /\ ReapedRow(m).payload = FALSE
  BY <1>0 DEF ReapedRow, RowType, Statuses
<1>2. \/ own' = own /\ index' = index
      \/ own[m].status = "pending" /\ own' = [own EXCEPT ![m] = ReapedRow(m)] /\ index' = [index EXCEPT ![m].own = "failed"]
  BY DEF Reap, Emit
<1>3. index' \in IndexMap
  BY <1>0, <1>2, Puts DEF Copies, Typed
<1>4. own' \in RowMap
  BY <1>0, <1>1, <1>2, Puts DEF Typed
<1> QED
  BY <1>0, <1>1, <1>2, <1>3, <1>4

LEMMA TypedReaper == ASSUME Typed, SweepStart \/ (\E m \in Sends : Reap(m)) PROVE Typed'
<1>1. CASE SweepStart
  BY <1>1 DEF SweepStart, Pending, Typed, rows, sends, apart, tasks, ackVars, muts, life, imports
<1>2. ASSUME NEW m \in Sends, Reap(m) PROVE Typed'
  <2>1. m \in Msgs /\ own' \in RowMap /\ index' \in IndexMap
    BY <1>2, ReapIs, Sorts
  <2> QED
    BY <1>2, <2>1 DEF Reap, DbFails, Typed, sends, apart, tasks, ackVars, muts, life, imports
<1> QED
  BY <1>1, <1>2

LEMMA TypedSession == ASSUME Typed, Retire \/ Revive \/ Delete \/ Crash PROVE Typed'
<1>1. CASE Retire
  BY <1>1 DEF Retire, Typed, rows, sends, apart, ackVars, muts, imports
<1>2. CASE Revive
  BY <1>2 DEF Revive, Typed, rows, sends, apart, tasks, ackVars, muts, imports
<1>3. CASE Delete
  <2>1. own' \in RowMap /\ event' \in RowMap
    BY <1>3, RowTypes DEF Delete, RowMap
  <2> QED
    BY <1>3, <2>1 DEF Delete, Typed, sends, apart, tasks, ackVars, muts, imports
<1>4. CASE Crash
  <2>1. pc' \in PcMap /\ task' \in TaskMap
    BY <1>4 DEF Crash, Typed, PcMap, TaskMap, Calls
  <2>2. chain' \in ChainMap /\ (\A m \in Msgs : Len(chain'[m]) <= MaxChain[m])
    <3>1. <<>> \in Seq(OpsType) /\ Len(<<>>) = 0
      OBVIOUS
    <3>2. chain' = [m \in Msgs |-> <<>>]
      BY <1>4 DEF Crash
    <3>3. \A m \in Msgs : MaxChain[m] \in Nat
      BY Sorts
    <3> QED
      BY <3>1, <3>2, <3>3 DEF ChainMap
  <2>3. hurt' \subseteq Msgs /\ leaked' \subseteq Sends
    <3>1. \A e \in Reports : Of[e] \in Msgs
      BY Sorts
    <3>2. hurt \subseteq Msgs /\ leaked \subseteq Sends /\ Sends \subseteq Msgs
      BY Sorts DEF Typed
    <3> QED
      BY <1>4, <3>1, <3>2 DEF Crash
  <2>4. crashes' \in 0..MaxUpsets
    <3>1. crashes \in 0..MaxUpsets /\ MaxUpsets \in Nat
      BY Sorts DEF Typed
    <3>2. crashes' = crashes + 1 /\ (crashes < MaxUpsets \/ crashes + 1 < MaxUpsets)
      BY <1>4, <3>1 DEF Crash, Upsets
    <3> QED
      BY <3>1, <3>2
  <2> QED
    BY <1>4, <2>1, <2>2, <2>3, <2>4 DEF Crash, Typed, rows, apart
<1> QED
  BY <1>1, <1>2, <1>3, <1>4

-----------------------------------------------------------------------------
(* A message's queue *)

LEMMA OpTypes ==
  /\ Mutations \subseteq OpsType
  /\ \A op \in OpsType :
       /\ op.kind \in {"reaction", "edit"}
       /\ op.kind = "reaction" => op \in ReactType /\ op.who \in Senders /\ op.on \in BOOLEAN
                                /\ op.marks \in MarkType /\ op.payload \in BOOLEAN
       /\ op.kind = "edit" => op.text \in Edits
  /\ \A op \in Mutations : op.kind = "reaction" => ~op.read
<1>1. \A s \in Senders, on \in BOOLEAN :
        /\ Reaction(s, on) \in ReactType /\ ~Reaction(s, on).read /\ Reaction(s, on).kind = "reaction"
  BY RowTypes DEF Reaction, ReactType
<1>2. \A t \in Edits : Edit(t) \in EditType /\ Edit(t).kind = "edit"
  BY DEF Edit, EditType
<1>3. Mutations \subseteq OpsType /\ \A op \in Mutations : op.kind = "reaction" => ~op.read
  BY <1>1, <1>2 DEF Mutations, OpsType
<1>4. \A op \in OpsType :
        /\ op.kind \in {"reaction", "edit"}
        /\ op.kind = "reaction" => op \in ReactType /\ op.who \in Senders /\ op.on \in BOOLEAN
                                /\ op.marks \in MarkType /\ op.payload \in BOOLEAN
        /\ op.kind = "edit" => op.text \in Edits
  BY DEF OpsType, ReactType, EditType
<1> QED
  BY <1>3, <1>4

(* Another operation at the end. *)
LEMMA Longer ==
  ASSUME NEW c \in Seq(OpsType), NEW op \in OpsType
  PROVE  /\ Append(c, op) \in Seq(OpsType) /\ Len(Append(c, op)) = Len(c) + 1
         /\ Append(c, op)[Len(c) + 1] = op /\ \A n \in 1..Len(c) : Append(c, op)[n] = c[n]
BY AppendProperties

(* The first one is done. *)
LEMMA Shorter ==
  ASSUME NEW c \in Seq(OpsType), c # <<>>
  PROVE  /\ Tail(c) \in Seq(OpsType) /\ Len(c) \in Nat \ {0} /\ Len(Tail(c)) = Len(c) - 1
         /\ Head(c) = c[1] /\ c[1] \in OpsType /\ \A n \in 1..Len(c) - 1 : Tail(c)[n] = c[n + 1]
BY HeadTailProperties, EmptySeq

\* The first reaction has read the marks k and the payload l.
ReadAs(c, k, l) == [c EXCEPT ![1].read = TRUE, ![1].marks = k, ![1].payload = l]

LEMMA ReadIs ==
  ASSUME NEW c \in Seq(OpsType), c # <<>>, Head(c).kind = "reaction", NEW k \in MarkType, NEW l \in BOOLEAN
  PROVE  /\ ReadAs(c, k, l) \in Seq(OpsType) /\ Len(ReadAs(c, k, l)) = Len(c) /\ ReadAs(c, k, l) # <<>>
         /\ ReadAs(c, k, l)[1].kind = "reaction" /\ ReadAs(c, k, l)[1].who = c[1].who
         /\ ReadAs(c, k, l)[1].on = c[1].on /\ ReadAs(c, k, l)[1].marks = k
         /\ ReadAs(c, k, l)[1].payload = l /\ ReadAs(c, k, l)[1].read
         /\ \A n \in 2..Len(c) : ReadAs(c, k, l)[n] = c[n]
<1> DEFINE h == [c[1] EXCEPT !.read = TRUE, !.marks = k, !.payload = l]
<1> DEFINE d == [c EXCEPT ![1] = h]
<1>1. Len(c) \in Nat \ {0} /\ c[1] \in ReactType
  BY Shorter, OpTypes
<1>2. h \in ReactType /\ h.kind = "reaction" /\ h.who = c[1].who /\ h.on = c[1].on /\ h.marks = k
      /\ h.payload = l /\ h.read
  BY <1>1 DEF ReactType
<1>3. ReadAs(c, k, l) = d
  BY <1>1 DEF ReadAs
<1> HIDE DEF h
<1>4. h \in OpsType
  BY <1>2 DEF OpsType
<1>5. d \in Seq(OpsType) /\ Len(d) = Len(c) /\ d[1] = h /\ \A n \in 2..Len(c) : d[n] = c[n]
  BY <1>1, <1>4, ExceptSeq
<1> QED
  BY <1>1, <1>2, <1>3, <1>5, EmptySeq

LEMMA Bounds == Limit \in Nat /\ MaxUpsets \in Nat /\ \A m \in Msgs : MaxChain[m] \in Nat
BY MessageAssumption DEF MessageAssumption

\* One operation less in m's queue, in every step that takes one.
Served(m) == chain[m] # <<>> /\ chain' = [chain EXCEPT ![m] = Tail(chain[m])]

LEMMA ServedIs ==
  ASSUME Typed, NEW m \in Msgs, Served(m)
  PROVE  chain' \in ChainMap /\ \A x \in Msgs : Len(chain'[x]) <= MaxChain[x]
<1>1. chain \in [Msgs -> Seq(OpsType)] /\ chain[m] \in Seq(OpsType)
  BY DEF Typed, ChainMap
<1>2. Tail(chain[m]) \in Seq(OpsType) /\ Len(Tail(chain[m])) = Len(chain[m]) - 1 /\ Len(chain[m]) \in Nat /\ MaxChain[m] \in Nat
  BY <1>1, Shorter, Sorts DEF Served
<1>3. \A x \in Msgs : chain'[x] = IF x = m THEN Tail(chain[m]) ELSE chain[x]
  BY <1>1 DEF Served
<1>4. chain' \in [Msgs -> Seq(OpsType)]
  BY <1>1, <1>2 DEF Served
<1>5. \A x \in Msgs : Len(chain[x]) <= MaxChain[x]
  BY DEF Typed
<1>6. \A x \in Msgs : Len(chain'[x]) <= MaxChain[x]
  <2>1. Len(chain[m]) <= MaxChain[m] /\ Len(Tail(chain[m])) <= MaxChain[m]
    BY <1>2, <1>5
  <2> QED
    BY <1>3, <1>5, <2>1
<1> QED
  BY <1>4, <1>6 DEF ChainMap

LEMMA TypedTouch == ASSUME Typed, NEW m \in Touched, Touch(m) PROVE Typed'
<1>0. m \in Msgs /\ MaxChain[m] \in Nat /\ chain \in [Msgs -> Seq(OpsType)] /\ chain[m] \in Seq(OpsType)
      /\ (\A x \in Msgs : Len(chain[x]) <= MaxChain[x])
  BY Sorts DEF Typed, ChainMap
<1>1. ASSUME NEW op \in Mutations, MutationArrives(m, op) PROVE Typed'
  <2>1. op \in OpsType /\ (op.kind = "edit" => op.text \in Texts) /\ (op.kind # "edit" => op.who \in Senders /\ op.on \in BOOLEAN)
    BY OpTypes DEF Texts
  <2>2. chain' = [chain EXCEPT ![m] = Append(chain[m], op)] /\ Len(chain[m]) < MaxChain[m]
    BY <1>1 DEF MutationArrives, Enqueue
  <2>3. chain' \in ChainMap /\ \A x \in Msgs : Len(chain'[x]) <= MaxChain[x]
    <3>1. Append(chain[m], op) \in Seq(OpsType) /\ Len(Append(chain[m], op)) = Len(chain[m]) + 1 /\ Len(chain[m]) \in Nat
      BY <1>0, <2>1, Longer
    <3>2. \A x \in Msgs : chain'[x] = IF x = m THEN Append(chain[m], op) ELSE chain[x]
      BY <1>0, <2>2
    <3>3. chain' \in [Msgs -> Seq(OpsType)]
      BY <1>0, <2>2, <3>1
    <3>4. \A x \in Msgs : Len(chain'[x]) <= MaxChain[x]
      BY <1>0, <2>2, <3>1, <3>2
    <3> QED
      BY <3>3, <3>4 DEF ChainMap
  <2>4. wanted' \in WantedMap
    BY <1>0, <1>1, <2>1 DEF MutationArrives, Typed, WantedMap, MarkType
  <2> QED
    BY <1>0, <1>1, <2>3, <2>4 DEF MutationArrives, Typed, rows, sends, apart, tasks, ackVars, life, imports
<1>2. CASE ReadReactions(m)
  <2>1. chain' \in ChainMap /\ \A x \in Msgs : Len(chain'[x]) <= MaxChain[x]
    <3>1. CASE Served(m)
      BY <1>0, <3>1, ServedIs
    <3>2. CASE chain' = [chain EXCEPT ![m][1].read = TRUE, ![m][1].marks = Stored(m).marks,
                                      ![m][1].payload = Stored(m).payload]
      <4>1. Stored(m).marks \in MarkType /\ Stored(m).payload \in BOOLEAN
        BY <1>0, Puts, RowUpdates
      <4>2. PICK d : d = ReadAs(chain[m], Stored(m).marks, Stored(m).payload)
        OBVIOUS
      <4>3. d \in Seq(OpsType) /\ Len(d) = Len(chain[m])
        BY <1>0, <1>2, <4>1, <4>2, ReadIs DEF ReadReactions
      <4>5. chain' = [chain EXCEPT ![m] = d]
        BY <1>0, <3>2, <4>2 DEF ReadAs
      <4>4. chain' \in [Msgs -> Seq(OpsType)] /\ \A x \in Msgs : Len(chain'[x]) <= MaxChain[x]
        BY <1>0, <4>3, <4>5
      <4> QED
        BY <4>4 DEF ChainMap
    <3> QED
      BY <1>2, <3>1, <3>2 DEF ReadReactions, Dequeue, Served
  <2> QED
    BY <1>0, <1>2, <2>1 DEF ReadReactions, DbFails, Typed, rows, sends, apart, tasks, ackVars, life, imports
<1>3. CASE WriteReactions(m)
  <2>1. Served(m)
    BY <1>3 DEF WriteReactions, Dequeue, Served
  <2>2. chain' \in ChainMap /\ \A x \in Msgs : Len(chain'[x]) <= MaxChain[x]
    BY <1>0, <2>1, ServedIs
  <2>3. own' \in RowMap /\ event' \in RowMap
    <3> DEFINE op == Head(chain[m])
    <3> DEFINE k == [op.marks EXCEPT ![op.who] = op.on]
    <3>1. op \in OpsType /\ op.kind = "reaction"
      BY <1>0, <1>3, Shorter DEF WriteReactions
    <3>2. k \in MarkType /\ op.payload \in BOOLEAN
      BY <3>1, OpTypes DEF MarkType
    <3>3. [Stored(m) EXCEPT !.marks = k, !.payload = op.payload] \in RowType
      BY <1>0, <3>2, Puts, RowUpdates
    <3>4. SetStored(m, [Stored(m) EXCEPT !.marks = k, !.payload = op.payload]) \/ UNCHANGED rows
      BY <1>3 DEF WriteReactions
    <3> HIDE DEF k
    <3> QED
      BY <1>0, <3>3, <3>4, Puts DEF rows, Typed
  <2> QED
    BY <1>0, <1>3, <2>2, <2>3 DEF WriteReactions, DbFails, Typed, sends, apart, tasks, ackVars, life, imports
<1>4. CASE ApplyEdit(m)
  <2>1. Served(m)
    BY <1>4 DEF ApplyEdit, Dequeue, Served
  <2>2. chain' \in ChainMap /\ \A x \in Msgs : Len(chain'[x]) <= MaxChain[x]
    BY <1>0, <2>1, ServedIs
  <2>3. own' \in RowMap /\ event' \in RowMap
    <3>1. Head(chain[m]).text \in Texts
      BY <1>0, <1>4, Shorter, OpTypes DEF ApplyEdit, Texts
    <3>2. [Stored(m) EXCEPT !.text = Head(chain[m]).text] \in RowType
      BY <1>0, <3>1, Puts, RowUpdates
    <3> QED
      BY <1>0, <1>4, <3>2, Puts DEF ApplyEdit, rows, Typed
  <2> QED
    BY <1>0, <1>4, <2>2, <2>3 DEF ApplyEdit, DbFails, Typed, sends, apart, tasks, ackVars, life, imports
<1> QED
  BY <1>0, <1>1, <1>2, <1>3, <1>4, Sorts DEF Touch

LEMMA TypedRevoke == ASSUME Typed, NEW m \in Msgs, Revoke(m) PROVE Typed'
<1>1. own' \in RowMap /\ event' \in RowMap
  <2>1. [Stored(m) EXCEPT !.text = ""] \in RowType
    BY Puts, RowUpdates DEF Texts
  <2> QED
    BY <2>1, Puts DEF Revoke, rows, Typed
<1> QED
  BY <1>1 DEF Revoke, DbFails, Typed, sends, apart, tasks, ackVars, life, imports

LEMMA TypedStep == ASSUME Typed, [Next]_vars PROVE Typed'
<1>1. CASE UNCHANGED vars
  BY <1>1 DEF vars, rows, sends, apart, tasks, ackVars, muts, life, imports, Typed
<1> QED
  BY <1>1, TypedSend, TypedReport, TypedReceipt, TypedImport, TypedReaper, TypedSession, TypedTouch, TypedRevoke, Sorts
     DEF Next

LEMMA TypedInit == Init => Typed
<1> SUFFICES ASSUME Init PROVE Typed
  OBVIOUS
<1>1. own \in RowMap /\ event \in RowMap
  BY RowTypes DEF Init, RowMap
<1>2. pc \in PcMap /\ task \in TaskMap /\ fanned \in [Msgs -> Nat]
  BY DEF Init, PcMap, TaskMap, Calls
<1>3. chain \in ChainMap /\ \A m \in Msgs : Len(chain[m]) <= MaxChain[m]
  <2>1. <<>> \in Seq(OpsType) /\ Len(<<>>) = 0 /\ \A m \in Msgs : MaxChain[m] \in Nat
    BY Bounds
  <2> QED
    BY <2>1 DEF Init, ChainMap
<1>4. wanted \in WantedMap /\ index \in IndexMap
  BY RowTypes DEF Init, WantedMap, IndexMap, Copies, Texts
<1>5. usage \in 0..Limit /\ crashes \in 0..MaxUpsets
  BY Bounds DEF Init
<1> QED
  BY <1>1, <1>2, <1>3, <1>4, <1>5 DEF Init, Typed

LEMMA TypeFollows == ASSUME Typed PROVE TypeOK
BY DEF Typed, TypeOK, RowMap, PcMap, TaskMap, AckType, WantedMap, IndexMap, MarkType

\* Expanded in every step: the variables that are functions.
LEMMA Maps ==
  ASSUME Typed
  PROVE  /\ own \in [Msgs -> RowType] /\ event \in [Msgs -> RowType] /\ pc \in [Sends -> Calls]
         /\ task \in [Reports -> {"none", "hook", "stored", "fan", "done", "dropped"}]
         /\ fanned \in [Msgs -> Nat] /\ chain \in [Msgs -> Seq(OpsType)]
         /\ wanted \in [Msgs -> [marks : MarkType, text : Texts]]
         /\ index \in [Msgs -> [own : Copies, event : Copies]]
BY DEF Typed, RowMap, PcMap, TaskMap, ChainMap, WantedMap, IndexMap

-----------------------------------------------------------------------------
(* Updates by id *)

\* What a step may do to the delivery state of a row with an id.
Advances(x) ==
  Taken(x) /\ Taken(x)' => Stored(x)'.status \in After(Stored(x).status) \/ (x \in Sends /\ pc[x] = "merge")

LEMMA StayIsAfter == \A s \in Statuses : s \in After(s)
BY DEF After, Statuses

\* Both rows keep the id; a row without one stays as it is.
Like(x) ==
  /\ Advances(x)
  /\ own'[x].wa = own[x].wa /\ event'[x].wa = event[x].wa
  /\ IF own[x].wa
     THEN /\ own'[x].status \notin {"none", "pending"}
          /\ own'[x].status = "failed" => own[x].status = "failed" \/ <<x, "failed">> \in receipts
     ELSE own'[x] = own[x]
  /\ IF event[x].wa
     THEN /\ event'[x].status \notin {"none", "pending"}
          /\ event'[x].status = "failed" => event[x].status = "failed" \/ <<x, "failed">> \in receipts
     ELSE event'[x] = event[x]

\* The payload stays, unless a merge has set it against a reaction's reading.
Pays(x) == (own'[x].payload = own[x].payload /\ event'[x].payload = event[x].payload) \/ <<x, "payload">> \in lost

LEMMA SameIsLike ==
  ASSUME Typed, Shape, UNCHANGED rows
  PROVE  \A x \in Msgs : Like(x)
<1>1. \A x \in Msgs : Advances(x)
  BY Maps, StayIsAfter DEF Shape, rows, Exists, Advances, Taken, Stored, RowType
<1> QED
  BY <1>1, Maps DEF Shape, Like, rows, Exists

LEMMA SetIsLike ==
  ASSUME Typed, Shape, NEW m \in Msgs, Taken(m), NEW r \in RowType, SetStored(m, r),
         r.wa = Stored(m).wa, r.status \notin {"none", "pending"},
         r.status = "failed" => Stored(m).status = "failed" \/ <<m, "failed">> \in receipts,
         r.status \in After(Stored(m).status)
  PROVE  \A x \in Msgs : Like(x)
<1>0. own \in [Msgs -> RowType] /\ event \in [Msgs -> RowType]
  BY Maps
<1>1. CASE own[m].wa
  <2>1. own' = [own EXCEPT ![m] = r] /\ event' = event /\ Stored(m) = own[m]
    BY <1>1 DEF SetStored, Stored
  <2>2. \A x \in Msgs : Advances(x)
    BY <1>0, <1>1, <2>1, StayIsAfter DEF Shape, Exists, Advances, Taken, Stored, RowType
  <2> QED
    BY <1>0, <1>1, <2>1, <2>2 DEF Shape, Like, Exists
<1>2. CASE ~own[m].wa
  <2>1. event' = [event EXCEPT ![m] = r] /\ own' = own /\ Stored(m) = event[m]
    BY <1>2 DEF SetStored, Stored
  <2>2. \A x \in Msgs : Advances(x)
    BY <1>0, <1>2, <2>1, StayIsAfter DEF Shape, Exists, Advances, Taken, Stored, RowType
  <2> QED
    BY <1>0, <1>2, <2>1, <2>2 DEF Shape, Like, Exists, Taken
<1> QED
  BY <1>1, <1>2

LEMMA StoredStatus ==
  ASSUME Typed, Shape, NEW m \in Msgs, Taken(m)
  PROVE  Stored(m).status \notin {"none", "pending"} /\ Stored(m).wa /\ Stored(m) \in RowType
BY Maps DEF Shape, Taken, Stored, Exists

(* Receipts, reactions, edits and revokes. *)
LEMMA TouchIsLike ==
  ASSUME Typed, Shape, Failures, NEW m \in Msgs, (m \in Touched /\ Touch(m)) \/ Revoke(m)
  PROVE  /\ \A x \in Msgs : Like(x)
         /\ UNCHANGED <<sends, accepted, tasks, ackVars, index, life, imports>> /\ hurt \subseteq hurt'
<1>1. UNCHANGED <<sends, accepted, tasks, ackVars, index, life, imports>> /\ hurt \subseteq hurt'
  BY DEF Touch, MutationArrives, ReadReactions, WriteReactions, ApplyEdit, Revoke, DbFails
<1>2. CASE UNCHANGED rows
  BY <1>1, <1>2, SameIsLike
<1>3. ASSUME Taken(m), NEW k \in MarkType, NEW l \in BOOLEAN, SetStored(m, [Stored(m) EXCEPT !.marks = k, !.payload = l])
      PROVE  \A x \in Msgs : Like(x)
  <2>1. Stored(m) \in RowType /\ Stored(m).status \notin {"none", "pending"}
    BY <1>3, StoredStatus
  <2> DEFINE r == [Stored(m) EXCEPT !.marks = k, !.payload = l]
  <2>2. r \in RowType /\ r.wa = Stored(m).wa /\ r.status = Stored(m).status
    BY <1>3, <2>1 DEF RowType, MarkType
  <2>3. r.status \in After(Stored(m).status)
    BY <2>1, <2>2, StayIsAfter DEF RowType
  <2> QED
    BY <1>3, <2>1, <2>2, <2>3, SetIsLike
<1>4. ASSUME Taken(m), NEW t \in Texts, SetStored(m, [Stored(m) EXCEPT !.text = t])
      PROVE  \A x \in Msgs : Like(x)
  <2>1. Stored(m) \in RowType /\ Stored(m).status \notin {"none", "pending"}
    BY <1>4, StoredStatus
  <2> DEFINE r == [Stored(m) EXCEPT !.text = t]
  <2>2. r \in RowType /\ r.wa = Stored(m).wa /\ r.status = Stored(m).status
    BY <1>4, <2>1 DEF RowType
  <2>3. r.status \in After(Stored(m).status)
    BY <2>1, <2>2, StayIsAfter DEF RowType
  <2> QED
    BY <1>4, <2>1, <2>2, <2>3, SetIsLike
<1>5. CASE (\E op \in Ops[m] : MutationArrives(m, op)) \/ ReadReactions(m)
  BY <1>2, <1>5, <1>1 DEF MutationArrives, ReadReactions
<1>6. CASE WriteReactions(m)
  <2>1. chain[m] \in Seq(OpsType) /\ chain[m] # <<>> /\ Head(chain[m]).kind = "reaction"
    BY <1>6, Puts DEF WriteReactions
  <2>2. [Head(chain[m]).marks EXCEPT ![Head(chain[m]).who] = Head(chain[m]).on] \in MarkType
        /\ Head(chain[m]).payload \in BOOLEAN
    BY <2>1, Shorter, OpTypes DEF MarkType
  <2> QED
    BY <1>1, <1>2, <1>3, <1>6, <2>2 DEF WriteReactions
<1>7. CASE ApplyEdit(m)
  <2>1. chain[m] \in Seq(OpsType) /\ chain[m] # <<>> /\ Head(chain[m]).kind = "edit"
    BY <1>7, Puts DEF ApplyEdit
  <2>2. Head(chain[m]).text \in Texts
    BY <2>1, Shorter, OpTypes DEF Texts
  <2> QED
    BY <1>1, <1>2, <1>4, <1>7, <2>2 DEF ApplyEdit
<1>8. CASE Revoke(m)
  <2>1. "" \in Texts
    BY DEF Texts
  <2> QED
    BY <1>1, <1>2, <1>4, <1>8, <2>1 DEF Revoke
<1> QED
  BY <1>1, <1>5, <1>6, <1>7, <1>8 DEF Touch

LEMMA AdvanceIsLike ==
  ASSUME Typed, Shape, Failures, NEW a \in acks, Advance(a)
  PROVE  /\ \A x \in Msgs : Like(x)
         /\ UNCHANGED <<sends, accepted, tasks, receipts, muts, index, life, imports>> /\ hurt \subseteq hurt'
<1>0. a.msg \in Msgs /\ a.to \in Receipts
  BY Sorts DEF Typed, AckType
<1>1. UNCHANGED <<sends, accepted, tasks, receipts, muts, index, life, imports>> /\ hurt \subseteq hurt'
  BY DEF Advance, DbFails
<1>2. CASE UNCHANGED rows
  BY <1>1, <1>2, SameIsLike
<1>3. CASE Taken(a.msg) /\ Stored(a.msg).status \in TransitionFrom(a.to) /\ SetStored(a.msg, [Stored(a.msg) EXCEPT !.status = a.to])
  <2>1. Stored(a.msg) \in RowType /\ a.to \in Statuses \ {"pending"} /\ (a.to = "failed" => <<a.msg, "failed">> \in receipts)
    BY <1>0, <1>3, StoredStatus DEF Receipts, Statuses, Failures
  <2> DEFINE r == [Stored(a.msg) EXCEPT !.status = a.to]
  <2>2. r \in RowType /\ r.wa = Stored(a.msg).wa /\ r.status = a.to
    BY <2>1 DEF RowType
  <2>4. r.status \in After(Stored(a.msg).status)
    BY <1>0, <1>3, <2>2, StoredStatus DEF TransitionFrom, Receipts, After
  <2> HIDE DEF r
  <2>3. \A x \in Msgs : Like(x)
    BY <1>0, <1>3, <2>1, <2>2, <2>4, SetIsLike DEF r, Statuses
  <2> QED
    BY <1>1, <2>3
<1> QED
  BY <1>2, <1>3 DEF Advance

(* The payload *)
LEMMA SetPays ==
  ASSUME Typed, NEW m \in Msgs, Taken(m), NEW r \in RowType, SetStored(m, r),
         r.payload = Stored(m).payload \/ <<m, "payload">> \in lost, r.payload => m \in Media,
         \A x \in Msgs : event[x].payload \/ own[x].payload => x \in Media
  PROVE  /\ \A x \in Msgs : Pays(x)
         /\ \A x \in Msgs : event'[x].payload \/ own'[x].payload => x \in Media
<1>0. own \in [Msgs -> RowType] /\ event \in [Msgs -> RowType]
  BY Maps
<1>1. CASE own[m].wa
  <2>1. own' = [own EXCEPT ![m] = r] /\ event' = event /\ Stored(m) = own[m]
    BY <1>1 DEF SetStored, Stored
  <2> QED
    BY <1>0, <2>1 DEF Pays
<1>2. CASE ~own[m].wa
  <2>1. event' = [event EXCEPT ![m] = r] /\ own' = own /\ Stored(m) = event[m]
    BY <1>2 DEF SetStored, Stored
  <2> QED
    BY <1>0, <2>1 DEF Pays
<1> QED
  BY <1>1, <1>2

LEMMA SamePays ==
  ASSUME UNCHANGED rows, \A x \in Msgs : event[x].payload \/ own[x].payload => x \in Media
  PROVE  /\ \A x \in Msgs : Pays(x)
         /\ \A x \in Msgs : event'[x].payload \/ own'[x].payload => x \in Media
BY DEF rows, Pays

LEMMA StoredPays ==
  ASSUME NEW m \in Msgs, \A x \in Msgs : event[x].payload \/ own[x].payload => x \in Media
  PROVE  Stored(m).payload => m \in Media
BY DEF Stored

LEMMA TextPays ==
  ASSUME Typed, Shape, Carries, ~deleted, NEW m \in Msgs, NEW t \in Texts, Taken(m), SetStored(m, [Stored(m) EXCEPT !.text = t])
  PROVE  /\ \A x \in Msgs : Pays(x)
         /\ \A x \in Msgs : event'[x].payload \/ own'[x].payload => x \in Media
<1>1. Stored(m) \in RowType /\ \A x \in Msgs : event[x].payload \/ own[x].payload => x \in Media
  BY StoredStatus DEF Carries
<1>2. PICK r : r = [Stored(m) EXCEPT !.text = t]
  OBVIOUS
<1>3. r \in RowType /\ r.payload = Stored(m).payload
  BY <1>1, <1>2 DEF RowType
<1> QED
  BY <1>1, <1>2, <1>3, SetPays, StoredPays

LEMMA TouchPays ==
  ASSUME Typed, Shape, Carries, ~deleted, NEW m \in Touched, Touch(m)
  PROVE  /\ \A x \in Msgs : Pays(x)
         /\ \A x \in Msgs : event'[x].payload \/ own'[x].payload => x \in Media
<1>0. m \in Msgs /\ chain[m] \in Seq(OpsType) /\ \A x \in Msgs : event[x].payload \/ own[x].payload => x \in Media
  BY Sorts, Maps DEF Carries
<1>1. CASE UNCHANGED rows
  BY <1>0, <1>1, SamePays
<1>2. CASE WriteReactions(m) /\ Taken(m)
  <2>1. PICK op : op = Head(chain[m])
    OBVIOUS
  <2>2. chain[m] # <<>> /\ op = chain[m][1] /\ op \in OpsType /\ op.kind = "reaction" /\ op.read /\ 1 \in DOMAIN chain[m]
    BY <1>0, <1>2, <2>1, Shorter, LenProperties DEF WriteReactions
  <2>3. (op.payload => m \in Media) /\ ((op.payload <=> Stored(m).payload) \/ <<m, "payload">> \in lost)
    BY <2>2 DEF Carries, Carried
  <2>4. PICK k \in MarkType : k = [op.marks EXCEPT ![op.who] = op.on]
    BY <2>2, OpTypes DEF MarkType
  <2>5. PICK r : r = [Stored(m) EXCEPT !.marks = k, !.payload = op.payload]
    OBVIOUS
  <2>6. SetStored(m, r) \/ UNCHANGED rows
    BY <1>2, <2>1, <2>4, <2>5 DEF WriteReactions
  <2>7. Stored(m) \in RowType /\ Stored(m).payload \in BOOLEAN /\ op.payload \in BOOLEAN
    BY <1>0, <1>2, <2>2, StoredStatus, OpTypes, RowUpdates
  <2>8. r \in RowType /\ r.payload = op.payload
    BY <2>5, <2>7 DEF RowType, MarkType
  <2>9. r.payload = Stored(m).payload \/ <<m, "payload">> \in lost
    BY <2>3, <2>7, <2>8
  <2> QED
    BY <1>0, <1>1, <1>2, <2>3, <2>6, <2>8, <2>9, SetPays
<1>3. CASE ApplyEdit(m) /\ Taken(m)
  <2>1. SetStored(m, [Stored(m) EXCEPT !.text = Head(chain[m]).text]) \/ UNCHANGED rows
    BY <1>3 DEF ApplyEdit
  <2>2. Head(chain[m]).text \in Texts
    BY <1>0, <1>3, Shorter, OpTypes DEF ApplyEdit, Texts
  <2> QED
    BY <1>0, <1>1, <1>3, <2>1, <2>2, TextPays
<1> QED
  BY <1>1, <1>2, <1>3 DEF Touch, MutationArrives, ReadReactions, WriteReactions, ApplyEdit

LEMMA RevokePays ==
  ASSUME Typed, Shape, Carries, ~deleted, NEW m \in Msgs, Revoke(m)
  PROVE  /\ \A x \in Msgs : Pays(x)
         /\ \A x \in Msgs : event'[x].payload \/ own'[x].payload => x \in Media
<1>1. \/ UNCHANGED rows
      \/ Taken(m) /\ SetStored(m, [Stored(m) EXCEPT !.text = ""])
  BY DEF Revoke
<1>2. "" \in Texts
  BY DEF Texts
<1> QED
  BY <1>1, <1>2, SamePays, TextPays DEF Carries

LEMMA AdvancePays ==
  ASSUME Typed, Shape, Carries, ~deleted, NEW a \in acks, Advance(a)
  PROVE  /\ \A x \in Msgs : Pays(x)
         /\ \A x \in Msgs : event'[x].payload \/ own'[x].payload => x \in Media
<1>0. a.msg \in Msgs /\ a.to \in Statuses /\ \A x \in Msgs : event[x].payload \/ own[x].payload => x \in Media
  BY Sorts DEF Typed, AckType, Receipts, Statuses, Carries
<1>1. CASE UNCHANGED rows
  BY <1>0, <1>1, SamePays
<1>2. CASE Taken(a.msg) /\ SetStored(a.msg, [Stored(a.msg) EXCEPT !.status = a.to])
  <2>1. Stored(a.msg) \in RowType
    BY <1>0, <1>2, StoredStatus
  <2>2. PICK r : r = [Stored(a.msg) EXCEPT !.status = a.to]
    OBVIOUS
  <2>3. r \in RowType /\ r.payload = Stored(a.msg).payload
    BY <1>0, <2>1, <2>2 DEF RowType
  <2> QED
    BY <1>0, <1>2, <2>2, <2>3, SetPays, StoredPays
<1> QED
  BY <1>1, <1>2 DEF Advance

\* A session that was deleted stays so.
LEMMA DeletedStays == ASSUME [Next]_vars, deleted PROVE deleted'
<1>1. CASE UNCHANGED vars
  BY <1>1 DEF vars, life
<1>2. ASSUME NEW m \in Sends, Send(m) PROVE deleted'
  BY <1>2 DEF Send, Request, Gate, FindSession, FindUser, Reserve, Insert, Undo, EngineAnswers, SaveSent, Merge, Drop, AnnounceSurvivor, SaveFailed,
     Release, life
<1>3. ASSUME NEW e \in Reports, Report(e) \/ Project(e) \/ FanOut(e) PROVE deleted'
  BY <1>3 DEF Report, Project, FanOut, life
<1>4. ASSUME NEW r \in Acked, Ack(r[1], r[2]) PROVE deleted'
  BY <1>4 DEF Ack, life
<1>5. ASSUME NEW a \in acks, Advance(a) PROVE deleted'
  BY <1>5 DEF Advance, life
<1>6. ASSUME NEW m, Touch(m) \/ Revoke(m) PROVE deleted'
  BY <1>6 DEF Touch, MutationArrives, ReadReactions, WriteReactions, ApplyEdit, Revoke, life
<1>7. ASSUME NEW m \in Imports, ImportSelect(m) \/ ImportInsert(m) PROVE deleted'
  BY <1>7 DEF ImportSelect, ImportInsert, life
<1>8. CASE SweepStart \/ (\E m \in Sends : Reap(m)) \/ Retire \/ Revive \/ Delete \/ Crash
  BY <1>8 DEF SweepStart, Reap, Retire, Revive, Delete, Crash, life
<1> QED
  BY <1>1, <1>2, <1>3, <1>4, <1>5, <1>6, <1>7, <1>8 DEF Next

-----------------------------------------------------------------------------
(* The two rows of a message *)

LEMMA ShapeLike ==
  ASSUME Typed, Shape, \A x \in Msgs : Like(x), UNCHANGED pc
  PROVE  Shape'
BY Maps DEF Shape, Like, Exists

(* A send's own row, or its place, is all that a step changes for m. *)
LEMMA ShapeOwn ==
  ASSUME Typed, Shape, NEW m \in Sends, pc[m] # "over", NEW l \in Calls, pc' = [pc EXCEPT ![m] = l], UNCHANGED event,
         NEW r \in RowType, own' = [own EXCEPT ![m] = r],
         r.wa => l = "over" /\ ~event[m].wa /\ r.status \notin {"none", "pending"},
         Exists(r) /\ ~r.wa => r.marks = NoMarks /\ r.text = "first"
  PROVE  Shape'
<1>0. own \in [Msgs -> RowType] /\ pc \in [Sends -> Calls] /\ m \in Msgs
  BY Maps, Sorts
<1>1. \A x \in Msgs : own'[x] = (IF x = m THEN r ELSE own[x]) /\ event'[x] = event[x]
  BY <1>0
<1>2. \A x \in Sends : pc'[x] = IF x = m THEN l ELSE pc[x]
  BY <1>0
<1> QED
  BY <1>0, <1>1, <1>2 DEF Shape, Exists

LEMMA ShapeSend == ASSUME Typed, Shape, NEW m \in Sends, Send(m) PROVE Shape'
<1>0. /\ own \in [Msgs -> RowType] /\ event \in [Msgs -> RowType] /\ pc \in [Sends -> Calls] /\ m \in Msgs
      /\ own[m] \in RowType /\ own = [own EXCEPT ![m] = own[m]]
  BY Maps, Sorts
<1>1. pc[m] # "over" /\ \E l \in Calls : pc' = [pc EXCEPT ![m] = l]
  BY DEF Send, Request, Gate, FindSession, FindUser, Reserve, Insert, Undo, EngineAnswers, SaveSent, Merge, Drop, AnnounceSurvivor, SaveFailed, Release,
         Goto, Calls
<1>2. PICK l \in Calls : pc' = [pc EXCEPT ![m] = l]
  BY <1>1
<1>3. ~own[m].wa /\ (Exists(own[m]) => own[m].marks = NoMarks /\ own[m].text = "first")
  BY <1>0, <1>1 DEF Shape
<1>4. CASE UNCHANGED rows
  BY <1>0, <1>1, <1>2, <1>3, <1>4, ShapeOwn DEF rows
<1>5. CASE Request(m) \/ Gate(m) \/ FindSession(m) \/ FindUser(m) \/ Reserve(m) \/ Undo(m) \/ EngineAnswers(m) \/ AnnounceSurvivor(m) \/ Release(m)
  BY <1>4, <1>5 DEF Request, Gate, FindSession, FindUser, Reserve, Undo, EngineAnswers, AnnounceSurvivor, Release
<1>6. CASE Insert(m)
  <2>1. (own' = [own EXCEPT ![m] = PendingRow(m)] /\ UNCHANGED event) \/ UNCHANGED rows
    BY <1>6 DEF Insert, rows
  <2>2. /\ PendingRow(m) \in RowType /\ PendingRow(m).wa = FALSE
        /\ PendingRow(m).marks = NoMarks /\ PendingRow(m).text = "first"
    BY RowTypes
  <2> QED
    BY <1>1, <1>2, <1>4, <2>1, <2>2, ShapeOwn
<1>7. CASE SaveSent(m)
  <2>1. \/ UNCHANGED rows
        \/ /\ own' = [own EXCEPT ![m] = SentRow(m)] /\ UNCHANGED event /\ (m \in nameless \/ ~event[m].wa)
           /\ pc' = [pc EXCEPT ![m] = "over"]
    BY <1>7 DEF SaveSent, rows, Goto
  <2>2. /\ SentRow(m) \in RowType /\ SentRow(m).status = "sent" /\ (SentRow(m).wa <=> m \notin nameless)
        /\ SentRow(m).marks = NoMarks /\ SentRow(m).text = "first"
    BY <1>0, <1>3, SentRowIs, RowTypes
  <2>3. "over" \in Calls
    BY DEF Calls
  <2> QED
    BY <1>1, <1>4, <2>1, <2>2, <2>3, ShapeOwn
<1>8. CASE Merge(m)
  <2>1. /\ \A x \in Msgs \ {m} : event'[x] = event[x]
        /\ event'[m] = event[m] \/ (event[m].wa /\ event'[m].wa /\ event'[m].status = "sent")
    BY <1>8, MergedIs
  <2>2. own' = own
    BY <1>8 DEF Merge
  <2> QED
    BY <1>0, <1>1, <1>2, <1>3, <2>1, <2>2 DEF Shape, Exists
<1>9. CASE Drop(m)
  <2>1. (own' = [own EXCEPT ![m] = NoRow] /\ UNCHANGED event) \/ UNCHANGED rows
    BY <1>9 DEF Drop, rows
  <2>2. NoRow \in RowType /\ NoRow.wa = FALSE /\ NoRow.status = "none"
    BY RowTypes
  <2> QED
    BY <1>1, <1>2, <1>4, <2>1, <2>2, ShapeOwn DEF Exists
<1>10. CASE SaveFailed(m)
  <2>1. /\ own' \in RowMap /\ (\A x \in Msgs \ {m} : own'[x] = own[x]) /\ event' = event
        /\ \/ own'[m] = own[m]
           \/ own'[m].wa = FALSE /\ own'[m].marks = NoMarks /\ own'[m].text = "first"
    BY <1>3, <1>10, FailedIs DEF SaveFailed
  <2> QED
    BY <1>0, <1>1, <1>2, <1>3, <2>1 DEF Shape, Exists
<1> QED
  BY <1>5, <1>6, <1>7, <1>8, <1>9, <1>10 DEF Send

(* A row of an event, where no row carries the id. *)
LEMMA ShapeStores ==
  ASSUME Typed, Shape, NEW m \in Msgs, ~Taken(m), event' = [event EXCEPT ![m] = EventRow], UNCHANGED <<own, pc>>
  PROVE  Shape'
<1>0. event \in [Msgs -> RowType] /\ EventRow.wa = TRUE /\ EventRow.status = "sent"
  BY Maps, RowTypes
<1>1. \A x \in Msgs : event'[x] = (IF x = m THEN EventRow ELSE event[x]) /\ own'[x] = own[x]
  BY <1>0
<1> QED
  BY <1>0, <1>1 DEF Shape, Exists, Taken

LEMMA ShapeStep == ASSUME Typed, Shape, Failures, [Next]_vars PROVE Shape'
<1>1. CASE UNCHANGED <<rows, pc>>
  BY <1>1, SameIsLike, ShapeLike
<1>2. ASSUME NEW m \in Sends, Send(m) PROVE Shape'
  BY <1>2, ShapeSend
<1>3. ASSUME NEW e \in Reports, Report(e) \/ Project(e) \/ FanOut(e) PROVE Shape'
  <2>1. Of[e] \in Msgs
    BY Sorts
  <2>2. UNCHANGED <<rows, pc>> \/ (~Taken(Of[e]) /\ event' = [event EXCEPT ![Of[e]] = EventRow] /\ UNCHANGED <<own, pc>>)
    BY <1>3 DEF Report, Project, FanOut, rows, sends, apart
  <2> QED
    BY <1>1, <2>1, <2>2, ShapeStores
<1>4. ASSUME NEW r \in Acked, Ack(r[1], r[2]) PROVE Shape'
  BY <1>1, <1>4 DEF Ack, sends, apart
<1>5. ASSUME NEW a \in acks, Advance(a) PROVE Shape'
  BY <1>5, AdvanceIsLike, ShapeLike DEF sends, apart
<1>6. ASSUME NEW m, (m \in Touched /\ Touch(m)) \/ (m \in Revocable /\ Revoke(m)) PROVE Shape'
  BY <1>6, TouchIsLike, ShapeLike, Sorts DEF sends
<1>7. ASSUME NEW m \in Imports, ImportSelect(m) \/ ImportInsert(m) PROVE Shape'
  <2>1. m \in Msgs
    BY Sorts
  <2>2. UNCHANGED <<rows, pc>> \/ (~Taken(m) /\ event' = [event EXCEPT ![m] = EventRow] /\ UNCHANGED <<own, pc>>)
    BY <1>7 DEF ImportSelect, ImportInsert, rows, sends, apart
  <2> QED
    BY <1>1, <2>1, <2>2, ShapeStores
<1>8. ASSUME NEW m \in Sends, Reap(m) PROVE Shape'
  <2>1. event' = event /\ pc' = pc /\ m \in Msgs
    BY <1>8, Sorts DEF Reap, sends, apart
  <2>2. /\ \A x \in Msgs \ {m} : own'[x] = own[x]
        /\ \/ own'[m] = own[m]
           \/ /\ own[m].status = "pending" /\ own'[m].status = "failed" /\ own'[m].wa = own[m].wa
              /\ own'[m].marks = own[m].marks /\ own'[m].text = own[m].text
    BY <1>8, ReapIs
  <2>3. CASE own'[m] = own[m]
    BY <2>1, <2>2, <2>3 DEF Shape, Exists
  <2>4. CASE own'[m] # own[m]
    <3>1. ~own[m].wa /\ own[m].marks = NoMarks /\ own[m].text = "first"
      BY <2>1, <2>2, <2>4 DEF Shape, Exists
    <3> QED
      BY <2>1, <2>2, <2>4, <3>1 DEF Shape, Exists
  <2> QED
    BY <2>3, <2>4
<1>9. CASE SweepStart \/ Retire \/ Revive \/ UNCHANGED vars
  BY <1>1, <1>9 DEF SweepStart, Retire, Revive, sends, apart, vars, rows
<1>10. CASE Delete
  <2>1. (\A x \in Msgs : own'[x] = NoRow /\ event'[x] = NoRow) /\ pc' = pc
    BY <1>10 DEF Delete, sends, apart
  <2> QED
    BY <2>1, RowTypes DEF Shape, Exists
<1>11. CASE Crash
  <2>1. own' = own /\ event' = event /\ \A x \in Sends : pc[x] = "over" => pc'[x] = "over"
    BY <1>11 DEF Crash, rows
  <2> QED
    BY <2>1 DEF Shape
<1> QED
  BY <1>2, <1>3, <1>4, <1>5, <1>6, <1>7, <1>8, <1>9, <1>10, <1>11 DEF Next

-----------------------------------------------------------------------------
(* The allowance *)

Places ==
  \A m \in Sends :
    /\ pc[m] \notin Storing \cup {"over"} => m \notin accepted /\ m \notin leaked
    /\ pc[m] \in Storing => m \in accepted

LEMMA HeldFinite == IsFiniteSet(Held) /\ Cardinality(Held) \in Nat
<1>1. Held \in SUBSET Sends
  BY DEF Held
<1> QED
  BY <1>1, Sorts, FS_Subset, FS_CardinalityType

LEMMA AccountStays ==
  ASSUME Account, Places', UNCHANGED usage, Held' = Held
  PROVE  Account'
BY DEF Account, Places

\* One send's call goes on; nothing else of the account changes.
LEMMA AccountGoes ==
  ASSUME Typed, Account, NEW m \in Sends, NEW l \in Calls, pc' = [pc EXCEPT ![m] = l], UNCHANGED <<usage, leaked, unmetered>>,
         accepted' = accepted \/ accepted' = accepted \cup {m},
         l \in Storing => m \in accepted',
         l \notin Storing \cup {"over"} => m \notin accepted' /\ m \notin leaked',
         (pc[m] \in Holding \/ m \in accepted \/ m \in leaked) <=> (l \in Holding \/ m \in accepted' \/ m \in leaked')
  PROVE  Account'
<1>0. pc \in [Sends -> Calls]
  BY Maps
<1>1. \A x \in Sends : pc'[x] = IF x = m THEN l ELSE pc[x]
  BY <1>0
<1>2. Places'
  BY <1>1 DEF Places, Account
<1>3. Held' = Held
  BY <1>1 DEF Held
<1> QED
  BY <1>2, <1>3, AccountStays

LEMMA AccountReturns ==
  ASSUME Typed, Account, Metered, NEW m \in Sends, pc[m] \in {"undo", "release"}, pc' = [pc EXCEPT ![m] = "over"],
         ReturnReservation(m), UNCHANGED <<accepted, unmetered>>
  PROVE  Account'
<1>0. pc \in [Sends -> Calls] /\ m \notin accepted /\ m \notin leaked
  BY Maps DEF Account, Storing
<1>1. \A x \in Sends : pc'[x] = IF x = m THEN "over" ELSE pc[x]
  BY <1>0
<1>2. leaked' = leaked \/ leaked' = leaked \cup {m}
  BY DEF ReturnReservation, Leak
<1>3. Places'
  BY <1>1, <1>2 DEF Places, Account, Storing
<1>4. CASE leaked' = leaked \cup {m} /\ usage' = usage
  <2>1. Held' = Held
    BY <1>0, <1>1, <1>4 DEF Held, Holding
  <2> QED
    BY <1>3, <1>4, <2>1, AccountStays
<1>5. CASE ~deleted /\ leaked' = leaked /\ usage' = IF usage > 0 THEN usage - 1 ELSE 0
  <2>0. m \in Held
    BY <1>5 DEF Held, Holding, Metered
  <2>1. Held' = Held \ {m}
    BY <1>0, <1>1, <1>5 DEF Held, Holding
  <2>2. Cardinality(Held \ {m}) = Cardinality(Held) - 1
    BY <2>0, HeldFinite, FS_RemoveElement
  <2>3. IsFiniteSet(Held \ {m}) /\ Cardinality(Held \ {m}) \in Nat
    BY HeldFinite, FS_RemoveElement, FS_CardinalityType
  <2>4. usage = Cardinality(Held)
    BY DEF Account
  <2>5. usage' = Cardinality(Held \ {m})
    BY <1>5, <2>2, <2>3, <2>4, HeldFinite
  <2> QED
    BY <1>3, <2>1, <2>5 DEF Account, Places
<1> QED
  BY <1>4, <1>5 DEF ReturnReservation, Leak

LEMMA AccountSend == ASSUME Typed, Account, Metered, NEW m \in Sends, Send(m) PROVE Account'
<1>0. /\ \A l \in {"gate", "find", "user", "reserve", "over", "engine", "undo", "insert", "saveSent", "saveFailed", "merge", "drop", "surviving",
                   "release"} : l \in Calls
      /\ pc \in [Sends -> Calls]
  BY Maps DEF Calls
<1>1. CASE Request(m) \/ Gate(m) \/ FindSession(m)
  <2>1. PICK l \in {"gate", "find", "user", "over"} : pc' = [pc EXCEPT ![m] = l]
    BY <1>1 DEF Request, Gate, FindSession, Goto
  <2>2. UNCHANGED <<usage, leaked, unmetered, accepted>> /\ m \notin accepted /\ m \notin leaked /\ pc[m] \notin Holding
    BY <1>1 DEF Request, Gate, FindSession, apart, Account, Storing, Holding
  <2> QED
    BY <1>0, <2>1, <2>2, AccountGoes DEF Storing, Holding
<1>8. CASE FindUser(m)
  <2>0. m \notin accepted /\ m \notin leaked /\ UNCHANGED <<usage, leaked, accepted>> /\ pc[m] = "user"
    BY <1>8 DEF FindUser, Account, Storing
  <2>1. CASE unmetered' = unmetered
    <3>1. PICK l \in {"reserve", "over"} : pc' = [pc EXCEPT ![m] = l]
      <4>1. m \notin unmetered
        BY <2>0 DEF Metered, Asking
      <4> QED
        BY <1>8, <2>1, <4>1 DEF FindUser, Goto
    <3> QED
      BY <1>0, <2>0, <2>1, <3>1, AccountGoes DEF Storing, Holding
  <2>2. CASE unmetered' = unmetered \cup {m} /\ pc' = [pc EXCEPT ![m] = "insert"]
    <3>1. \A x \in Sends : pc'[x] = IF x = m THEN "insert" ELSE pc[x]
      BY <1>0, <2>2
    <3>2. Places'
      BY <2>0, <3>1 DEF Places, Account, Storing
    <3>3. Held' = Held
      BY <2>0, <2>2, <3>1 DEF Held, Holding
    <3> QED
      BY <2>0, <3>2, <3>3, AccountStays
  <2> QED
    BY <1>8, <2>1, <2>2 DEF FindUser, Goto
<1>2. CASE Reserve(m)
  <2>0. m \notin accepted /\ m \notin leaked /\ UNCHANGED <<leaked, unmetered, accepted>> /\ pc[m] = "reserve" /\ m \notin unmetered
    BY <1>2 DEF Reserve, Account, Storing, apart, Metered, Asking
  <2>1. CASE pc' = [pc EXCEPT ![m] = "over"] /\ usage' = usage
    BY <1>0, <2>0, <2>1, AccountGoes DEF Storing, Holding
  <2>2. CASE pc' = [pc EXCEPT ![m] = "insert"] /\ usage' = usage + 1
    <3>1. \A x \in Sends : pc'[x] = IF x = m THEN "insert" ELSE pc[x]
      BY <1>0, <2>2
    <3>2. Places'
      BY <2>0, <3>1 DEF Places, Account, Storing
    <3>3. Held' = Held \cup {m} /\ m \notin Held
      BY <2>0, <3>1 DEF Held, Holding
    <3>4. Cardinality(Held \cup {m}) = Cardinality(Held) + 1
      BY <3>3, HeldFinite, FS_AddElement
    <3>5. usage' = Cardinality(Held \cup {m})
      BY <2>2, <3>4 DEF Account
    <3> QED
      BY <3>2, <3>3, <3>5 DEF Account, Places
  <2> QED
    BY <1>2, <2>1, <2>2 DEF Reserve, Goto
<1>3. CASE Insert(m)
  <2>1. PICK l \in {"engine", "undo"} : pc' = [pc EXCEPT ![m] = l]
    BY <1>3 DEF Insert, Goto
  <2>2. UNCHANGED <<usage, leaked, unmetered, accepted>> /\ m \notin accepted /\ m \notin leaked /\ pc[m] \in Holding
    BY <1>3 DEF Insert, apart, Account, Storing, Holding
  <2> QED
    BY <1>0, <2>1, <2>2, AccountGoes DEF Storing, Holding
<1>4. CASE Undo(m) \/ Release(m)
  BY <1>4, AccountReturns DEF Undo, Release, Goto, apart
<1>5. CASE EngineAnswers(m)
  <2>1. UNCHANGED <<usage, leaked, unmetered>> /\ m \notin accepted /\ m \notin leaked /\ pc[m] \in Holding
    BY <1>5 DEF EngineAnswers, Account, Storing, Holding
  <2>2. \/ accepted' = accepted \cup {m} /\ pc' = [pc EXCEPT ![m] = "saveSent"]
        \/ accepted' = accepted /\ pc' = [pc EXCEPT ![m] = "saveFailed"]
    BY <1>5 DEF EngineAnswers, Goto
  <2> QED
    BY <1>0, <2>1, <2>2, AccountGoes DEF Storing, Holding
<1>6. CASE SaveSent(m) \/ Merge(m) \/ Drop(m) \/ AnnounceSurvivor(m)
  <2>1. PICK l \in {"over", "merge", "drop", "surviving"} : pc' = [pc EXCEPT ![m] = l]
    BY <1>6 DEF SaveSent, Merge, Drop, AnnounceSurvivor, Goto
  <2>2. UNCHANGED <<usage, leaked, unmetered, accepted>> /\ m \in accepted
    BY <1>6 DEF SaveSent, Merge, Drop, AnnounceSurvivor, apart, Account, Storing
  <2> QED
    BY <1>0, <2>1, <2>2, AccountGoes DEF Storing
<1>7. CASE SaveFailed(m)
  <2>0. m \notin accepted /\ m \notin leaked /\ UNCHANGED <<usage, unmetered, accepted>> /\ pc[m] = "saveFailed"
    BY <1>7 DEF SaveFailed, apart, Account, Storing
  <2>1. CASE pc' = [pc EXCEPT ![m] = "release"] /\ leaked' = leaked
    BY <1>0, <2>0, <2>1, AccountGoes DEF Storing, Holding
  <2>2. CASE pc' = [pc EXCEPT ![m] = "over"] /\ leaked' = leaked \cup {m}
    <3>1. \A x \in Sends : pc'[x] = IF x = m THEN "over" ELSE pc[x]
      BY <1>0, <2>2
    <3>2. Places'
      BY <2>0, <2>2, <3>1 DEF Places, Account, Storing
    <3>3. Held' = Held
      BY <2>0, <2>2, <3>1 DEF Held, Holding
    <3> QED
      BY <2>0, <3>2, <3>3, AccountStays
  <2> QED
    BY <1>7, <2>1, <2>2 DEF SaveFailed, Goto, Leak
<1> QED
  BY <1>1, <1>2, <1>3, <1>4, <1>5, <1>6, <1>7, <1>8 DEF Send

(* Nothing but the sends themselves tells the account of an acceptance. *)
LEMMA AccountLike ==
  ASSUME Account, UNCHANGED sends, \A x \in Sends : x \in accepted' <=> x \in accepted
  PROVE  Account'
<1>1. Places' /\ usage' = usage
  BY DEF Account, Places, sends
<1>2. Held' = Held
  BY DEF Held, sends, apart
<1> QED
  BY <1>1, <1>2, AccountStays

LEMMA AccountStep == ASSUME Typed, Shape, Failures, Account, Metered, [Next]_vars PROVE Account'
<1>1. CASE UNCHANGED <<sends, accepted>>
  BY <1>1, AccountLike
<1>2. ASSUME NEW m \in Sends, Send(m) PROVE Account'
  BY <1>2, AccountSend
<1>3. ASSUME NEW e \in Reports, Report(e) \/ Project(e) \/ FanOut(e) PROVE Account'
  <2>1. UNCHANGED sends /\ \A x \in Sends : x \in accepted' <=> x \in accepted
    BY <1>3 DEF Report, Project, FanOut
  <2> QED
    BY <2>1, AccountLike
<1>4. ASSUME NEW r \in Acked, Ack(r[1], r[2]) PROVE Account'
  BY <1>1, <1>4 DEF Ack
<1>5. ASSUME NEW a \in acks, Advance(a) PROVE Account'
  BY <1>1, <1>5, AdvanceIsLike
<1>6. ASSUME NEW m, (m \in Touched /\ Touch(m)) \/ (m \in Revocable /\ Revoke(m)) PROVE Account'
  BY <1>1, <1>6, TouchIsLike, Sorts
<1>7. ASSUME NEW m \in Imports, ImportSelect(m) \/ ImportInsert(m) PROVE Account'
  <2>1. UNCHANGED sends /\ \A x \in Sends : x \in accepted' <=> x \in accepted
    BY <1>7 DEF ImportSelect, ImportInsert
  <2> QED
    BY <2>1, AccountLike
<1>8. CASE SweepStart \/ (\E m \in Sends : Reap(m)) \/ Retire \/ Revive \/ Delete \/ UNCHANGED vars
  BY <1>1, <1>8 DEF SweepStart, Reap, Retire, Revive, Delete, vars
<1>9. CASE Crash
  <2>1. /\ \A x \in Sends : pc'[x] = IF pc[x] = "new" THEN "new" ELSE "over"
        /\ leaked' = leaked \cup {x \in Sends : pc[x] \in Holding} /\ UNCHANGED <<accepted, usage, unmetered>>
    BY <1>9 DEF Crash, apart
  <2>2. Places'
    BY <2>1 DEF Places, Account, Storing, Holding
  <2>3. Held' = Held
    BY <2>1 DEF Held, Holding
  <2> QED
    BY <2>1, <2>2, <2>3, AccountStays
<1> QED
  BY <1>2, <1>3, <1>4, <1>5, <1>6, <1>7, <1>8, <1>9 DEF Next

LEMMA MeteredSend == ASSUME Typed, Metered, NEW m \in Sends, Send(m) PROVE Metered'
<1>0. pc \in [Sends -> Calls] /\ unmetered \subseteq Sends
  BY Maps DEF Typed
<1>1. deleted' = deleted
  BY DEF Send, Request, Gate, FindSession, FindUser, Reserve, Insert, Undo, EngineAnswers, SaveSent, Merge, Drop, AnnounceSurvivor, SaveFailed, Release,
     life
<1>2. PICK l : pc' = [pc EXCEPT ![m] = l]
  BY DEF Send, Request, Gate, FindSession, FindUser, Reserve, Insert, Undo, EngineAnswers, SaveSent, Merge, Drop, AnnounceSurvivor, SaveFailed, Release,
     Goto
<1>3. \A x \in Sends : pc'[x] = IF x = m THEN l ELSE pc[x]
  BY <1>0, <1>2
<1>4. CASE unmetered' = unmetered
  <2>1. m \in unmetered => l \notin Asking
    <3>1. m \in unmetered => pc[m] \notin Asking
      BY DEF Metered
    <3>2. pc[m] \notin Asking => pc'[m] \notin Asking
      BY <1>0, <1>3 DEF Send, Request, Gate, FindSession, FindUser, Reserve, Insert, Undo, EngineAnswers, SaveSent, Merge, Drop, AnnounceSurvivor,
         SaveFailed, Release, Goto, Asking
    <3> QED
      BY <1>3, <3>1, <3>2
  <2> QED
    BY <1>0, <1>1, <1>3, <1>4, <2>1 DEF Metered
<1>5. CASE unmetered' # unmetered
  <2>1. FindUser(m) /\ deleted /\ pc' = [pc EXCEPT ![m] = "insert"] /\ unmetered' = unmetered \cup {m}
    BY <1>5 DEF Send, Request, Gate, FindSession, FindUser, Reserve, Insert, Undo, EngineAnswers, SaveSent, Merge, Drop, AnnounceSurvivor, SaveFailed,
       Release, Goto, apart
  <2>2. \A x \in Sends : pc'[x] = IF x = m THEN "insert" ELSE pc[x]
    BY <1>0, <2>1
  <2> QED
    BY <1>0, <1>1, <2>1, <2>2 DEF Metered, Asking
<1> QED
  BY <1>4, <1>5

LEMMA MeteredStays ==
  ASSUME Metered, unmetered' = unmetered, deleted => deleted', \A m \in unmetered : pc[m] \notin Asking => pc'[m] \notin Asking
  PROVE  Metered'
BY DEF Metered

LEMMA MeteredStep == ASSUME Typed, Shape, Failures, Metered, [Next]_vars PROVE Metered'
<1>0. deleted => deleted'
  BY DeletedStays
<1>1. CASE UNCHANGED sends
  BY <1>0, <1>1, MeteredStays DEF sends, apart
<1>2. ASSUME NEW m \in Sends, Send(m) PROVE Metered'
  BY <1>2, MeteredSend
<1>3. CASE Crash
  <2>1. unmetered \subseteq Sends /\ unmetered' = unmetered /\ \A x \in Sends : pc'[x] = IF pc[x] = "new" THEN "new" ELSE "over"
    BY <1>3 DEF Crash, apart, Typed
  <2>2. \A x \in unmetered : pc[x] \notin Asking => pc'[x] \notin Asking
    BY <2>1 DEF Asking
  <2> QED
    BY <1>0, <2>1, <2>2, MeteredStays
<1>4. ASSUME NEW m, (m \in Touched /\ Touch(m)) \/ (m \in Revocable /\ Revoke(m)) PROVE UNCHANGED sends
  BY <1>4 DEF Touch, MutationArrives, ReadReactions, WriteReactions, ApplyEdit, Revoke
<1>5. ASSUME ~(\E m \in Sends : Send(m)), ~Crash PROVE UNCHANGED sends
  BY <1>4, <1>5 DEF Next, Report, Project, FanOut, Ack, Advance, ImportSelect, ImportInsert, SweepStart, Reap, Retire, Revive, Delete, vars
<1> QED
  BY <1>1, <1>2, <1>3, <1>5

LEMMA AccountInit == Init => Account
<1> SUFFICES ASSUME Init PROVE Account
  OBVIOUS
<1>1. Held = {} /\ usage = 0
  BY DEF Init, Held, Holding
<1>2. Places
  BY DEF Init, Places, Storing
<1> QED
  BY <1>1, <1>2, FS_EmptySet DEF Account, Places

-----------------------------------------------------------------------------
(* Failures *)

LEMMA FailuresLike ==
  ASSUME Typed, Failures, \A x \in Msgs : Like(x), UNCHANGED <<sends, accepted>>, hurt \subseteq hurt', receipts \subseteq receipts',
         \A a \in acks' : <<a.msg, a.to>> \in receipts'
  PROVE  Failures'
<1>0. Sends \subseteq Msgs
  BY Sorts
<1>1. \A m \in Sends \ hurt' : pc[m] = "surviving" => own'[m] = NoRow
  BY <1>0, RowTypes DEF Failures, Like
<1>2. \A m \in Sends \ hurt' : pc[m] = "over" /\ m \in accepted =>
            own'[m].status # "pending" /\ (own'[m].status = "failed" => own'[m].wa)
  BY <1>0 DEF Failures, Like
<1>3. \A m \in Msgs : /\ event'[m].status = "failed" => <<m, "failed">> \in receipts'
                      /\ own'[m].wa /\ own'[m].status = "failed" => <<m, "failed">> \in receipts'
  BY <1>0 DEF Failures, Like
<1> QED
  BY <1>1, <1>2, <1>3 DEF Failures, sends, apart

LEMMA FailuresSend == ASSUME Typed, Shape, Account, Failures, NEW m \in Sends, Send(m) PROVE Failures'
<1>0. /\ own \in [Msgs -> RowType] /\ event \in [Msgs -> RowType] /\ pc \in [Sends -> Calls] /\ m \in Msgs
      /\ own[m] \in RowType
  BY Maps, Sorts
<1>1. UNCHANGED ackVars /\ hurt \subseteq hurt'
  BY DEF Send, Request, Gate, FindSession, FindUser, Reserve, Insert, Undo, EngineAnswers, SaveSent, Merge, Drop, AnnounceSurvivor, SaveFailed, Release,
         ReturnReservation, DbFails
\* What is left to show of the send's own row, its place and the acceptance.
<1>2. ASSUME NEW l \in Calls, pc' = [pc EXCEPT ![m] = l], \A x \in Sends \ {m} : x \in accepted' => x \in accepted,
             \A x \in Msgs \ {m} : own'[x] = own[x] /\ event'[x] = event[x],
             event'[m] = event[m] \/ event'[m].status = "sent",
             ~own'[m].wa \/ own'[m].status = "sent",
             m \in hurt' \/ (/\ l = "surviving" => own'[m] = NoRow
                             /\ l = "over" /\ m \in accepted' => own'[m].status \notin {"pending", "failed"})
      PROVE  Failures'
  <2>1. \A x \in Sends : pc'[x] = IF x = m THEN l ELSE pc[x]
    BY <1>0, <1>2
  <2>2. \A a \in acks' : <<a.msg, a.to>> \in receipts'
    BY <1>1 DEF Failures, ackVars
  <2>3. \A x \in Msgs : /\ event'[x].status = "failed" => <<x, "failed">> \in receipts'
                        /\ own'[x].wa /\ own'[x].status = "failed" => <<x, "failed">> \in receipts'
    BY <1>1, <1>2 DEF Failures, ackVars
  <2>4. ASSUME NEW x \in Sends \ hurt'
        PROVE  /\ pc'[x] = "surviving" => own'[x] = NoRow
               /\ pc'[x] = "over" /\ x \in accepted' =>
                    own'[x].status # "pending" /\ (own'[x].status = "failed" => own'[x].wa)
    <3>1. CASE x = m
      BY <1>2, <2>1, <3>1
    <3>2. CASE x # m
      <4>1. pc'[x] = pc[x] /\ own'[x] = own[x] /\ x \notin hurt /\ (x \in accepted' => x \in accepted)
        BY <1>1, <1>2, <2>1, <3>2, Sorts
      <4> QED
        BY <4>1 DEF Failures
    <3> QED
      BY <3>1, <3>2
  <2> QED
    BY <2>2, <2>3, <2>4 DEF Failures
<1>3. ~own[m].wa
  BY <1>0 DEF Send, Request, Gate, FindSession, FindUser, Reserve, Insert, Undo, EngineAnswers, SaveSent, Merge, Drop, AnnounceSurvivor, SaveFailed, Release, Shape
<1>4. CASE Request(m) \/ Gate(m) \/ FindSession(m) \/ FindUser(m) \/ Reserve(m) \/ Undo(m) \/ EngineAnswers(m) \/ Release(m)
  <2>1. PICK l \in {"gate", "find", "user", "reserve", "insert", "over", "saveSent", "saveFailed"} : pc' = [pc EXCEPT ![m] = l]
    BY <1>4 DEF Request, Gate, FindSession, FindUser, Reserve, Undo, EngineAnswers, Release, Goto
  <2>2. l = "over" => m \notin accepted'
    BY <1>0, <1>4, <2>1 DEF Request, Gate, FindSession, FindUser, Reserve, Undo, EngineAnswers, Release, Goto, Account, Storing
  <2>3. UNCHANGED rows /\ (accepted' = accepted \/ accepted' = accepted \cup {m})
    BY <1>4 DEF Request, Gate, FindSession, FindUser, Reserve, Undo, EngineAnswers, Release
  <2>4. l \in Calls
    BY <2>1 DEF Calls
  <2> QED
    BY <1>2, <1>3, <2>1, <2>2, <2>3, <2>4 DEF rows
<1>5. CASE Insert(m)
  <2>1. PICK l \in {"engine", "undo"} : pc' = [pc EXCEPT ![m] = l]
    BY <1>5 DEF Insert, Goto
  <2>2. (own' = [own EXCEPT ![m] = PendingRow(m)] \/ own' = own) /\ UNCHANGED <<event, accepted>>
    BY <1>5 DEF Insert
  <2>3. ~own'[m].wa /\ \A x \in Msgs \ {m} : own'[x] = own[x]
    <3>1. PendingRow(m).wa = FALSE
      BY RowTypes
    <3> QED
      BY <1>0, <1>3, <2>2, <3>1
  <2>4. l \in Calls
    BY <2>1 DEF Calls
  <2> QED
    BY <1>2, <2>1, <2>2, <2>3, <2>4
<1>6. CASE SaveSent(m)
  <2>1. SentRow(m) \in RowType /\ SentRow(m).status = "sent"
    BY <1>0, SentRowIs
  <2>2. UNCHANGED <<event, accepted>> /\ "over" \in Calls /\ "merge" \in Calls
    BY <1>6 DEF SaveSent, Calls
  <2>3. \/ own' = [own EXCEPT ![m] = SentRow(m)] /\ pc' = [pc EXCEPT ![m] = "over"]
        \/ own' = own /\ pc' = [pc EXCEPT ![m] = "merge"]
        \/ own' = own /\ pc' = [pc EXCEPT ![m] = "over"] /\ m \in hurt'
    BY <1>6 DEF SaveSent, Goto, DbFails
  <2> QED
    BY <1>0, <1>2, <1>3, <2>1, <2>2, <2>3
<1>7. CASE Merge(m)
  <2>1. own' = own /\ accepted' = accepted /\ pc' = [pc EXCEPT ![m] = "drop"] /\ "drop" \in Calls
    BY <1>7 DEF Merge, Goto, Calls
  <2>2. (\A x \in Msgs \ {m} : event'[x] = event[x]) /\ (event'[m] = event[m] \/ event'[m].status = "sent")
    BY <1>7, MergedIs
  <2> QED
    BY <1>2, <1>3, <2>1, <2>2
<1>8. CASE Drop(m)
  <2>1. UNCHANGED <<event, accepted>> /\ pc' = [pc EXCEPT ![m] = "surviving"] /\ "surviving" \in Calls
    BY <1>8 DEF Drop, Goto, Calls
  <2>2. own' = [own EXCEPT ![m] = NoRow] \/ (own' = own /\ m \in hurt')
    BY <1>8 DEF Drop, DbFails
  <2> QED
    BY <1>0, <1>2, <1>3, <2>1, <2>2, RowTypes
<1>9. CASE AnnounceSurvivor(m)
  <2>1. UNCHANGED <<rows, accepted>> /\ pc' = [pc EXCEPT ![m] = "over"] /\ "over" \in Calls /\ pc[m] = "surviving"
    BY <1>9 DEF AnnounceSurvivor, Goto, Calls
  <2>2. m \notin hurt' => own[m] = NoRow
    BY <1>1, <2>1 DEF Failures
  <2>3. NoRow.status = "none"
    BY RowTypes
  <2> QED
    BY <1>2, <1>3, <2>1, <2>2, <2>3 DEF rows
<1>10. CASE SaveFailed(m)
  <2>1. PICK l \in {"release", "over"} : pc' = [pc EXCEPT ![m] = l]
    BY <1>10 DEF SaveFailed, Goto
  <2>2. UNCHANGED <<event, accepted>> /\ m \notin accepted /\ l \in Calls
    BY <1>10, <2>1 DEF SaveFailed, Account, Storing, Calls
  <2>3. ~own'[m].wa /\ \A x \in Msgs \ {m} : own'[x] = own[x]
    BY <1>3, <1>10, FailedIs
  <2> QED
    BY <1>2, <2>1, <2>2, <2>3
<1> QED
  BY <1>4, <1>5, <1>6, <1>7, <1>8, <1>9, <1>10 DEF Send

(* A row of an event is stored, which says that the message was sent. *)
LEMMA FailuresStores ==
  ASSUME Typed, Failures, NEW m \in Msgs, event' = [event EXCEPT ![m] = EventRow], UNCHANGED <<own, pc, ackVars>>,
         hurt \subseteq hurt', accepted' = accepted
  PROVE  Failures'
<1>0. event \in [Msgs -> RowType] /\ EventRow.status = "sent"
  BY Maps, RowTypes
<1>1. \A x \in Msgs : event'[x] = IF x = m THEN EventRow ELSE event[x]
  BY <1>0
<1> QED
  BY <1>0, <1>1 DEF Failures, ackVars

LEMMA FailuresStays ==
  ASSUME Failures, UNCHANGED <<rows, pc, ackVars>>, hurt \subseteq hurt', \A x \in Sends : x \in accepted' => x \in accepted
  PROVE  Failures'
BY DEF Failures, rows, ackVars

LEMMA FailuresStep == ASSUME Typed, Shape, Account, Failures, [Next]_vars PROVE Failures'
<1>2. ASSUME NEW m \in Sends, Send(m) PROVE Failures'
  BY <1>2, FailuresSend
<1>3. ASSUME NEW e \in Reports, Report(e) \/ Project(e) \/ FanOut(e) PROVE Failures'
  <2>1. Of[e] \in Msgs /\ hurt \subseteq hurt' /\ UNCHANGED <<own, pc, ackVars>>
    BY <1>3, Sorts DEF Report, Project, FanOut, DbFails, rows, sends, apart
  <2>2. CASE event' = [event EXCEPT ![Of[e]] = EventRow] /\ accepted' = accepted
    BY <2>1, <2>2, FailuresStores
  <2>3. CASE UNCHANGED rows /\ \A x \in Sends : x \in accepted' => x \in accepted
    BY <2>1, <2>3, FailuresStays
  <2> QED
    BY <1>3, <2>2, <2>3 DEF Report, Project, FanOut, rows
<1>4. ASSUME NEW r \in Acked, Ack(r[1], r[2]) PROVE Failures'
  <2>1. /\ receipts' = receipts \cup {<<r[1], r[2]>>} /\ acks' = acks \cup {[msg |-> r[1], to |-> r[2], try |-> 1]}
        /\ UNCHANGED <<rows, pc, accepted, hurt>>
    BY <1>4 DEF Ack, sends, apart
  <2> QED
    BY <2>1 DEF Failures, rows
<1>5. ASSUME NEW a \in acks, Advance(a) PROVE Failures'
  <2>0. a \in AckType
    BY DEF Typed
  <2>1. [a EXCEPT !.try = 2].msg = a.msg /\ [a EXCEPT !.try = 2].to = a.to
    BY <2>0 DEF AckType
  <2>2. acks' \subseteq acks \cup {[a EXCEPT !.try = 2]} /\ receipts' = receipts
    BY <1>5 DEF Advance
  <2>3. \A b \in acks' : <<b.msg, b.to>> \in receipts'
    BY <2>1, <2>2 DEF Failures
  <2> QED
    BY <1>5, <2>2, <2>3, AdvanceIsLike, FailuresLike
<1>6. ASSUME NEW m, (m \in Touched /\ Touch(m)) \/ (m \in Revocable /\ Revoke(m)) PROVE Failures'
  <2>0. m \in Msgs
    BY <1>6, Sorts
  <2>1. UNCHANGED ackVars /\ \A a \in acks : <<a.msg, a.to>> \in receipts
    BY <1>6, <2>0, TouchIsLike DEF Failures
  <2> QED
    BY <1>6, <2>0, <2>1, TouchIsLike, FailuresLike DEF ackVars
<1>7. ASSUME NEW m \in Imports, ImportSelect(m) \/ ImportInsert(m) PROVE Failures'
  <2>1. m \in Msgs /\ hurt' = hurt /\ UNCHANGED <<own, pc, ackVars>>
    BY <1>7, Sorts DEF ImportSelect, ImportInsert, rows, sends, apart
  <2>2. CASE event' = [event EXCEPT ![m] = EventRow] /\ accepted' = accepted
    BY <2>1, <2>2, FailuresStores
  <2>3. CASE UNCHANGED rows /\ \A x \in Sends : x \in accepted' => x \in accepted
    BY <2>1, <2>3, FailuresStays
  <2> QED
    BY <1>7, <2>2, <2>3 DEF ImportSelect, ImportInsert, rows
<1>8. ASSUME NEW m \in Sends, Reap(m) PROVE Failures'
  <2>1. UNCHANGED <<event, pc, accepted, ackVars>> /\ hurt \subseteq hurt' /\ m \in Msgs
    BY <1>8, Sorts DEF Reap, sends, apart, DbFails
  <2>2. /\ \A x \in Msgs \ {m} : own'[x] = own[x]
        /\ own'[m] = own[m] \/ (own[m].status = "pending" /\ own'[m].wa = own[m].wa)
    BY <1>8, ReapIs
  <2>3. CASE own'[m] = own[m]
    BY <2>1, <2>2, <2>3, Sorts DEF Failures, ackVars
  <2>4. CASE own[m].status = "pending" /\ own'[m].wa = own[m].wa
    <3>1. ~own[m].wa /\ own[m] # NoRow
      BY <2>1, <2>4, RowTypes DEF Shape
    <3> QED
      BY <2>1, <2>2, <2>4, <3>1, Sorts DEF Failures, ackVars
  <2> QED
    BY <2>2, <2>3, <2>4
<1>9. CASE SweepStart \/ Retire \/ Revive \/ UNCHANGED vars
  <2>1. UNCHANGED <<rows, pc, ackVars, hurt, accepted>>
    BY <1>9 DEF SweepStart, Retire, Revive, sends, apart, vars
  <2> QED
    BY <2>1, FailuresStays
<1>10. CASE Delete
  <2>1. (\A x \in Msgs : own'[x] = NoRow /\ event'[x] = NoRow) /\ UNCHANGED <<pc, ackVars, hurt, accepted>>
    BY <1>10 DEF Delete, sends, apart
  <2>2. NoRow.status = "none" /\ NoRow.wa = FALSE
    BY RowTypes
  <2> QED
    BY <2>1, <2>2, Sorts DEF Failures, ackVars
<1>11. CASE Crash
  <2>1. /\ UNCHANGED <<rows, accepted, receipts>> /\ acks' = {} /\ hurt \subseteq hurt'
        /\ \A x \in Sends : /\ pc'[x] = IF pc[x] = "new" THEN "new" ELSE "over"
                            /\ pc[x] \notin {"new", "over"} => x \in hurt'
    BY <1>11 DEF Crash
  <2> QED
    BY <2>1 DEF Failures, rows
<1> QED
  BY <1>2, <1>3, <1>4, <1>5, <1>6, <1>7, <1>8, <1>9, <1>10, <1>11 DEF Next

-----------------------------------------------------------------------------
(* The purge *)

LEMMA PurgedKept ==
  ASSUME Purged, UNCHANGED <<stale, outliving, deleted>>, imported \subseteq imported',
         \A e \in Reports : task'[e] = "hook" => task[e] = "hook",
         \A m \in Msgs : Exists(event'[m]) => Exists(event[m]) \/ m \in imported' \/ Again(m) \/ ~deleted
  PROVE  Purged'
BY DEF Purged, Again, Exists

LEMMA PurgedStep == ASSUME Typed, Shape, Failures, Purged, [Next]_vars PROVE Purged'
<1>0. event \in [Msgs -> RowType] /\ task \in [Reports -> {"none", "hook", "stored", "fan", "done", "dropped"}]
      /\ stale \subseteq Reports /\ outliving \subseteq Reports
  BY Maps DEF Typed
<1>1. CASE UNCHANGED <<event, task, stale, outliving, deleted, imported>>
  BY <1>1, PurgedKept
<1>2. CASE (\A x \in Msgs : Like(x)) /\ UNCHANGED <<task, stale, outliving, deleted, imported>>
  <2>1. \A x \in Msgs : Exists(event'[x]) => Exists(event[x])
    BY <1>2 DEF Like, Shape
  <2> QED
    BY <1>2, <2>1, PurgedKept
<1>3. ASSUME NEW m \in Sends, Send(m) PROVE Purged'
  <2>1. CASE Merge(m)
    <3>1. \A x \in Msgs : Exists(event'[x]) => Exists(event[x])
      BY <2>1, MergedIs DEF Shape
    <3>2. UNCHANGED <<task, stale, outliving, deleted, imported>>
      BY <2>1 DEF Merge, tasks, life, imports
    <3> QED
      BY <3>1, <3>2, PurgedKept
  <2>2. CASE ~Merge(m)
    BY <1>1, <1>3, <2>2 DEF Send, Request, Gate, FindSession, FindUser, Reserve, Insert, Undo, EngineAnswers, SaveSent, Drop, AnnounceSurvivor, SaveFailed,
       Release, rows, tasks, life, imports
  <2> QED
    BY <2>1, <2>2
<1>4. ASSUME NEW e \in Reports, Report(e) PROVE Purged'
  <2>1. task' = [task EXCEPT ![e] = "hook"] /\ UNCHANGED <<event, stale, deleted, imported>>
        /\ outliving' = IF deleted THEN outliving \cup {e} ELSE outliving
    BY <1>4 DEF Report, rows, life, imports
  <2>2. \A x \in Reports : task'[x] = IF x = e THEN "hook" ELSE task[x]
    BY <1>0, <2>1
  <2>3. CASE ~deleted
    BY <2>1, <2>3 DEF Purged
  <2>4. CASE deleted
    <3>1. outliving' = outliving \cup {e}
      BY <2>1, <2>4
    <3>2. \A m \in Msgs : Again(m) => Again(m)'
      BY <3>1 DEF Again
    <3>3. \A m \in Msgs : Exists(event[m])' => m \in imported' \/ Again(m)'
      BY <2>1, <2>4, <3>2 DEF Purged, Exists
    <3>4. \A x \in Reports : task'[x] = "hook" /\ x \notin stale' => x \in outliving'
      BY <2>1, <2>2, <2>4, <3>1 DEF Purged
    <3> QED
      BY <2>1, <2>4, <3>3, <3>4 DEF Purged
  <2> QED
    BY <2>3, <2>4
<1>5. ASSUME NEW e \in Reports, Project(e) \/ FanOut(e) PROVE Purged'
  <2>1. PICK l \in {"dropped", "done", "fan", "stored"} : task' = [task EXCEPT ![e] = l]
    BY <1>5 DEF Project, FanOut
  <2>2. UNCHANGED <<stale, outliving, deleted, imported>>
    BY <1>5 DEF Project, FanOut, life, imports
  <2>3. \A x \in Reports : task'[x] = "hook" => task[x] = "hook"
    BY <1>0, <2>1
  <2>4. event' = event \/ (event' = [event EXCEPT ![Of[e]] = EventRow] /\ task[e] = "hook" /\ e \notin stale)
    BY <1>5 DEF Project, FanOut, rows
  <2>5. \A m \in Msgs : Exists(event'[m]) => Exists(event[m]) \/ m \in imported' \/ Again(m) \/ ~deleted
    <3>1. CASE event' = event
      BY <3>1
    <3>2. CASE event' = [event EXCEPT ![Of[e]] = EventRow] /\ task[e] = "hook" /\ e \notin stale
      <4>1. deleted => Again(Of[e])
        BY <3>2 DEF Purged, Again
      <4>2. \A m \in Msgs : m # Of[e] => event'[m] = event[m]
        BY <1>0, <3>2
      <4> QED
        BY <4>1, <4>2
    <3> QED
      BY <2>4, <3>1, <3>2
  <2> QED
    BY <2>2, <2>3, <2>5, PurgedKept
<1>6. ASSUME NEW r \in Acked, Ack(r[1], r[2]) PROVE Purged'
  BY <1>1, <1>6 DEF Ack, rows, tasks, life, imports
<1>7. ASSUME NEW a \in acks, Advance(a) PROVE Purged'
  BY <1>2, <1>7, AdvanceIsLike DEF tasks, life, imports
<1>8. ASSUME NEW m, (m \in Touched /\ Touch(m)) \/ (m \in Revocable /\ Revoke(m)) PROVE Purged'
  BY <1>2, <1>8, TouchIsLike, Sorts DEF tasks, life, imports
<1>9. ASSUME NEW m \in Imports, ImportSelect(m) \/ ImportInsert(m) PROVE Purged'
  <2>1. UNCHANGED <<task, stale, outliving, deleted>>
    BY <1>9 DEF ImportSelect, ImportInsert, tasks, life
  <2>2. CASE UNCHANGED <<event, imported>>
    BY <1>1, <2>1, <2>2
  <2>3. CASE event' = [event EXCEPT ![m] = EventRow] /\ imported' = imported \cup {m}
    <3>1. \A x \in Msgs : x # m => event'[x] = event[x]
      BY <1>0, <2>3
    <3>2. imported \subseteq imported' /\ \A x \in Msgs : Exists(event'[x]) => Exists(event[x]) \/ x \in imported'
      BY <2>3, <3>1
    <3> QED
      BY <2>1, <3>2, PurgedKept
  <2> QED
    BY <1>9, <2>2, <2>3 DEF ImportSelect, ImportInsert, rows
<1>10. CASE SweepStart \/ (\E m \in Sends : Reap(m)) \/ Revive \/ UNCHANGED vars
  BY <1>1, <1>10 DEF SweepStart, Reap, Revive, rows, tasks, life, imports, vars
<1>11. CASE Retire
  <2>1. UNCHANGED <<event, task, outliving, deleted, imported>> /\ stale \subseteq stale'
    BY <1>11 DEF Retire, rows, imports
  <2> QED
    BY <2>1 DEF Purged, Again, Exists
<1>13. CASE Delete
  <2>1. /\ deleted' /\ (\A x \in Msgs : event'[x] = NoRow) /\ UNCHANGED <<task, stale>>
        /\ outliving' = {e \in Reports : task[e] = "hook" /\ e \notin stale}
    BY <1>13 DEF Delete
  <2> QED
    BY <2>1, RowTypes DEF Purged, Exists
<1>14. CASE Crash
  <2>1. UNCHANGED <<event, stale, outliving, deleted, imported>> /\ \A e \in Reports : task'[e] # "hook"
    BY <1>0, <1>14 DEF Crash, rows
  <2> QED
    BY <2>1, PurgedKept
<1> QED
  BY <1>3, <1>4, <1>5, <1>6, <1>7, <1>8, <1>9, <1>10, <1>11, <1>13, <1>14 DEF Next

-----------------------------------------------------------------------------
(* One copy *)

LEMMA CopyStays ==
  ASSUME Copy, UNCHANGED <<rows, pc, index, deleted, lost>>, hurt \subseteq hurt', nameless' = nameless,
         \A x \in Sends : x \in accepted' => x \in accepted,
         \A e \in Reports : task'[e] = "stored" => task[e] = "stored"
  PROVE  Copy'
BY DEF Copy, Copied, rows, Taken, Stored

LEMMA CopyLike ==
  ASSUME Typed, Shape, Copy, \A x \in Msgs : Like(x) /\ Pays(x), UNCHANGED <<sends, accepted, task, index, deleted, lost>>, hurt \subseteq hurt'
  PROVE  Copy'
<1>1. \A x \in Msgs : /\ own'[x].wa = own[x].wa /\ event'[x].wa = event[x].wa
                      /\ (Exists(own'[x]) <=> Exists(own[x])) /\ (Exists(event'[x]) <=> Exists(event[x]))
                      /\ ~own[x].wa => own'[x] = own[x]
  BY DEF Like, Shape, Exists
<1>2. \A x \in Msgs : own[x] = NoRow => own'[x] = NoRow
  BY <1>1, RowTypes
<1>3. ASSUME NEW m \in Sends, Copied(m) PROVE Copied(m)'
  BY <1>1, <1>2, <1>3, Sorts DEF Copied, sends, Taken, Stored, Exists, Pays
<1> QED
  BY <1>1, <1>3, Sorts DEF Copy, sends, apart

\* What is left to show of a step of m's call.
LEMMA CopyGoes ==
  ASSUME Typed, Copy, NEW m \in Sends, ~deleted, NEW l \in Calls, pc' = [pc EXCEPT ![m] = l],
         UNCHANGED <<task, deleted>>, hurt \subseteq hurt', nameless \subseteq nameless', lost \subseteq lost',
         \A x \in Sends \ {m} : x \in accepted' => x \in accepted,
         \A x \in Msgs \ {m} : own'[x] = own[x] /\ event'[x] = event[x] /\ index'[x] = index[x],
         event'[m].wa = event[m].wa, index'[m].event # "none" => event[m].wa,
         m \in hurt' \cup nameless' \/ Copied(m)'
  PROVE  Copy'
<1>0. pc \in [Sends -> Calls] /\ m \in Msgs /\ Sends \subseteq Msgs /\ Of \in [Reports -> Msgs]
  BY Maps, Sorts
<1>1. \A x \in Msgs : index'[x].event # "none" => event'[x].wa
  BY DEF Copy
<1>2. \A e \in Reports : task'[e] = "stored" => event'[Of[e]].wa
  BY <1>0 DEF Copy
<1>3. ASSUME NEW x \in Sends \ (hurt' \cup nameless') PROVE Copied(x)'
  <2>1. CASE x = m
    BY <2>1
  <2>2. CASE x # m
    <3>1. /\ pc'[x] = pc[x] /\ own'[x] = own[x] /\ event'[x] = event[x] /\ index'[x] = index[x]
          /\ (x \in accepted' => x \in accepted) /\ Copied(x)
      BY <1>0, <2>2 DEF Copy
    <3> QED
      BY <3>1 DEF Copied, Taken, Stored
  <2> QED
    BY <2>1, <2>2
<1> QED
  BY <1>1, <1>2, <1>3 DEF Copy

LEMMA CopySend == ASSUME Typed, Shape, Account, Copy, NEW m \in Sends, Send(m) PROVE Copy'
<1>0. /\ own \in [Msgs -> RowType] /\ event \in [Msgs -> RowType] /\ pc \in [Sends -> Calls] /\ m \in Msgs
      /\ own[m] \in RowType /\ index \in [Msgs -> [own : Copies, event : Copies]]
  BY Maps, Sorts
<1>1. UNCHANGED <<task, deleted>> /\ hurt \subseteq hurt' /\ nameless \subseteq nameless' /\ lost \subseteq lost'
  BY DEF Send, Request, Gate, FindSession, FindUser, Reserve, Insert, Undo, EngineAnswers, SaveSent, Merge, Drop, AnnounceSurvivor, SaveFailed, Release,
         ReturnReservation, DbFails, tasks, life, muts, apart
<1>2. CASE deleted
  BY <1>1, <1>2 DEF Copy
<1>3. SUFFICES ASSUME ~deleted PROVE Copy'
  BY <1>2
<1>4. index[m].event # "none" => event[m].wa
  BY <1>0, <1>3 DEF Copy
<1>5. m \notin hurt' \cup nameless' => Copied(m)
  BY <1>1, <1>3 DEF Copy
<1>6. CASE Request(m) \/ Gate(m) \/ FindSession(m) \/ FindUser(m) \/ Reserve(m) \/ Undo(m) \/ EngineAnswers(m) \/ Release(m)
  <2>1. PICK l \in {"gate", "find", "user", "reserve", "insert", "over", "saveSent", "saveFailed"} : pc' = [pc EXCEPT ![m] = l]
    BY <1>6 DEF Request, Gate, FindSession, FindUser, Reserve, Undo, EngineAnswers, Release, Goto
  <2>2. l = "over" => m \notin accepted'
    BY <1>0, <1>6, <2>1 DEF Request, Gate, FindSession, FindUser, Reserve, Undo, EngineAnswers, Release, Goto, Account, Storing
  <2>3. UNCHANGED <<rows, index>> /\ (accepted' = accepted \/ accepted' = accepted \cup {m})
    BY <1>6 DEF Request, Gate, FindSession, FindUser, Reserve, Undo, EngineAnswers, Release
  <2>4. l \in Calls /\ pc'[m] = l
    BY <1>0, <2>1 DEF Calls
  <2>5. Copied(m)'
    BY <2>1, <2>2, <2>4 DEF Copied
  <2> QED
    BY <1>0, <1>1, <1>3, <1>4, <2>1, <2>3, <2>4, <2>5, CopyGoes DEF rows
<1>7. CASE Insert(m) \/ SaveFailed(m)
  <2>1. PICK l \in {"engine", "undo", "release", "over"} : pc' = [pc EXCEPT ![m] = l]
    BY <1>7 DEF Insert, SaveFailed, Goto
  <2>2. l = "over" => m \notin accepted'
    BY <1>0, <1>7, <2>1 DEF Insert, SaveFailed, Goto, Account, Storing
  <2>3. UNCHANGED <<event, accepted>> /\ l \in Calls /\ pc'[m] = l
    BY <1>0, <1>7, <2>1 DEF Insert, SaveFailed, Calls
  <2>4. \A x \in Msgs \ {m} : own'[x] = own[x]
    BY <1>0, <1>7, FailedIs DEF Insert
  <2>5. (\A x \in Msgs \ {m} : index'[x] = index[x]) /\ index'[m].event = index[m].event
    BY <1>0, <1>7 DEF Insert, SaveFailed, Emit
  <2>6. Copied(m)'
    BY <2>1, <2>2, <2>3 DEF Copied
  <2> QED
    BY <1>0, <1>1, <1>3, <1>4, <2>1, <2>3, <2>4, <2>5, <2>6, CopyGoes
<1>8. CASE SaveSent(m)
  <2>1. /\ SentRow(m) \in RowType /\ SentRow(m).status = "sent" /\ (SentRow(m).wa <=> m \notin nameless)
        /\ (SentRow(m).payload <=> m \in Media)
    BY <1>0, SentRowIs
  <2>2. UNCHANGED <<event, accepted, nameless>> /\ "over" \in Calls /\ "merge" \in Calls
    BY <1>8 DEF SaveSent, Calls, apart
  <2>3. CASE /\ own' = [own EXCEPT ![m] = SentRow(m)] /\ pc' = [pc EXCEPT ![m] = "over"]
             /\ index' = [index EXCEPT ![m].own = "sent"] /\ (m \in nameless \/ ~event[m].wa)
    <3>1. /\ own'[m] = SentRow(m) /\ (\A x \in Msgs \ {m} : own'[x] = own[x] /\ index'[x] = index[x])
          /\ index'[m] = [own |-> "sent", event |-> index[m].event] /\ pc'[m] = "over"
      BY <1>0, <2>3
    <3>2. ASSUME m \notin nameless PROVE Copied(m)'
      <4>1. ~event[m].wa /\ ~Exists(event[m]) /\ index[m].event = "none"
        BY <1>0, <1>4, <2>3, <3>2 DEF Shape
      <4> QED
        BY <2>1, <2>2, <3>1, <3>2, <4>1 DEF Copied, Taken, Stored, Exists
    <3>3. m \in hurt' \cup nameless' \/ Copied(m)'
      BY <2>2, <3>2
    <3>4. index'[m].event # "none" => event[m].wa
      BY <1>4, <3>1
    <3>5. event' = event /\ accepted' = accepted /\ pc' = [pc EXCEPT ![m] = "over"]
      BY <2>2, <2>3
    <3>6. \A x \in Msgs \ {m} : own'[x] = own[x] /\ event'[x] = event[x] /\ index'[x] = index[x]
      BY <3>1, <3>5
    <3> QED
      BY <1>1, <1>3, <2>2, <3>3, <3>4, <3>5, <3>6, CopyGoes
  <2>4. CASE own' = own /\ index' = index /\ pc' = [pc EXCEPT ![m] = "merge"] /\ event[m].wa
    <3>1. pc'[m] = "merge"
      BY <1>0, <2>4
    <3>2. Copied(m)'
      BY <2>2, <2>4, <3>1 DEF Copied
    <3> QED
      BY <1>0, <1>1, <1>3, <1>4, <2>2, <2>4, <3>2, CopyGoes
  <2>5. CASE own' = own /\ index' = index /\ pc' = [pc EXCEPT ![m] = "over"] /\ m \in hurt'
    BY <1>0, <1>1, <1>3, <1>4, <2>2, <2>5, CopyGoes
  <2> QED
    BY <1>8, <2>3, <2>4, <2>5 DEF SaveSent, Goto, Emit, DbFails
<1>9. CASE Merge(m)
  <2>1. UNCHANGED <<own, index, accepted>> /\ pc' = [pc EXCEPT ![m] = "drop"] /\ "drop" \in Calls /\ pc[m] = "merge"
    BY <1>9 DEF Merge, Goto, Calls
  <2>2. /\ \A x \in Msgs \ {m} : event'[x] = event[x]
        /\ \/ event'[m] = event[m] /\ (event[m].wa => m \in hurt')
           \/ event[m].wa /\ event'[m].wa /\ (event'[m].payload <=> m \in Media)
    BY <1>9, MergedIs
  <2>3. event'[m].wa = event[m].wa
    <3>1. event' \in [Msgs -> RowType]
      BY <1>9, MergedIs DEF RowMap
    <3>2. event'[m].wa \in BOOLEAN /\ event[m].wa \in BOOLEAN
      BY <1>0, <3>1 DEF RowType
    <3> QED
      BY <2>2, <3>2
  <2>4. ASSUME m \notin hurt' \cup nameless' PROVE Copied(m)'
    <3>1. event[m].wa /\ pc'[m] = "drop"
      BY <1>0, <1>5, <2>1, <2>4 DEF Copied
    <3> QED
      BY <2>2, <2>3, <2>4, <3>1 DEF Copied
  <2> QED
    BY <1>0, <1>1, <1>3, <1>4, <2>1, <2>2, <2>3, <2>4, CopyGoes
<1>10. CASE Drop(m)
  <2>1. UNCHANGED <<event, index, accepted>> /\ pc' = [pc EXCEPT ![m] = "surviving"] /\ "surviving" \in Calls /\ pc[m] = "drop"
    BY <1>10 DEF Drop, Goto, Calls
  <2>2. own' = [own EXCEPT ![m] = NoRow] \/ (own' = own /\ m \in hurt')
    BY <1>10 DEF Drop, DbFails
  <2>3. ASSUME m \notin hurt' \cup nameless' PROVE Copied(m)'
    <3>1. pc'[m] = "surviving" /\ own'[m] = NoRow
      BY <1>0, <2>1, <2>2, <2>3
    <3>2. m \notin hurt /\ m \notin nameless /\ lost \subseteq lost' /\ event' = event /\ pc[m] = "drop"
      BY <1>1, <2>1, <2>3
    <3>3. event[m].wa /\ ((event[m].payload <=> m \in Media) \/ <<m, "payload">> \in lost')
      <4>1. Copied(m)
        BY <1>5, <2>3
      <4> QED
        BY <3>2, <4>1 DEF Copied
    <3> QED
      BY <3>1, <3>2, <3>3 DEF Copied
  <2> QED
    BY <1>0, <1>1, <1>3, <1>4, <2>1, <2>2, <2>3, CopyGoes
<1>11. CASE AnnounceSurvivor(m)
  <2>1. UNCHANGED <<rows, accepted>> /\ pc' = [pc EXCEPT ![m] = "over"] /\ "over" \in Calls /\ pc[m] = "surviving"
    BY <1>11 DEF AnnounceSurvivor, Goto, Calls
  <2> DEFINE k == IF event[m].wa THEN "sent" ELSE index[m].event
  <2>2. \/ index' = [index EXCEPT ![m].own = "none", ![m].event = k]
        \/ index' = [index EXCEPT ![m].own = "none"] /\ m \in hurt'
    BY <1>11 DEF AnnounceSurvivor, Emit, DbFails
  <2>3. (k # "none" => event[m].wa) /\ (event[m].wa => k = "sent")
    BY <1>4
  <2> HIDE DEF k
  <2>4. /\ \A x \in Msgs \ {m} : index'[x] = index[x]
        /\ index'[m].event \in {k, index[m].event}
        /\ m \notin hurt' => index'[m] = [own |-> "none", event |-> k]
    BY <1>0, <2>2
  <2>5. ASSUME m \notin hurt' \cup nameless' PROVE Copied(m)'
    <3>1. /\ pc'[m] = "over" /\ own[m] = NoRow /\ event[m].wa
          /\ (event[m].payload <=> m \in Media) \/ <<m, "payload">> \in lost
          /\ index'[m] = [own |-> "none", event |-> "sent"]
      BY <1>0, <1>5, <2>1, <2>3, <2>4, <2>5 DEF Copied
    <3>2. ~Exists(own[m]) /\ ~own[m].wa /\ Exists(event[m])
      BY <1>0, <3>1, RowTypes DEF Exists, Shape
    <3>3. own' = own /\ event' = event /\ lost \subseteq lost'
      BY <1>1, <2>1 DEF rows
    <3>4. Taken(m)' /\ Stored(m)' = event[m] /\ ~Exists(own'[m]) /\ Exists(event'[m])
      BY <3>1, <3>2, <3>3 DEF Taken, Stored
    <3> QED
      BY <3>1, <3>3, <3>4 DEF Copied
  <2> QED
    BY <1>0, <1>1, <1>3, <1>4, <2>1, <2>3, <2>4, <2>5, CopyGoes DEF rows
<1> QED
  BY <1>6, <1>7, <1>8, <1>9, <1>10, <1>11 DEF Send

(* A row of an event is stored where no row carries the id. *)
LEMMA CopyStores ==
  ASSUME Typed, Copy, ~deleted, NEW m \in Msgs, ~Taken(m), event' = [event EXCEPT ![m] = EventRow],
         UNCHANGED <<own, sends, index, deleted, accepted, lost>>, hurt \subseteq hurt',
         \A e \in Reports : task'[e] = "stored" => task[e] = "stored" \/ Of[e] = m
  PROVE  Copy'
<1>0. event \in [Msgs -> RowType] /\ EventRow.wa = TRUE /\ Of \in [Reports -> Msgs] /\ Sends \subseteq Msgs
  BY Maps, RowTypes, Sorts
<1>1. \A x \in Msgs : event'[x] = IF x = m THEN EventRow ELSE event[x]
  BY <1>0
<1>2. \A x \in Msgs : event[x].wa => event'[x].wa
  BY <1>0, <1>1
<1>3. event'[m].wa
  BY <1>0, <1>1
<1>4. \A x \in Msgs : index'[x].event # "none" => event'[x].wa
  BY <1>2 DEF Copy
<1>5. \A e \in Reports : task'[e] = "stored" => event'[Of[e]].wa
  BY <1>0, <1>2, <1>3 DEF Copy
<1>6. ASSUME NEW x \in Sends \ (hurt' \cup nameless') PROVE Copied(x)'
  <2>1. Copied(x)
    BY <1>6 DEF Copy, sends, apart
  <2>2. CASE x = m
    <3>1. ~event[x].wa /\ ~own[x].wa
      BY <2>2 DEF Taken
    <3>2. pc[x] \notin {"merge", "drop", "surviving"} /\ ~(pc[x] = "over" /\ x \in accepted)
      BY <2>1, <3>1 DEF Copied, Taken
    <3> QED
      BY <3>2 DEF Copied, sends, apart
  <2>3. CASE x # m
    <3>1. event'[x] = event[x]
      BY <1>0, <1>1, <1>6, <2>3
    <3> QED
      BY <2>1, <3>1 DEF Copied, sends, apart, Taken, Stored
  <2> QED
    BY <2>2, <2>3
<1> QED
  BY <1>4, <1>5, <1>6 DEF Copy

LEMMA CopyReport ==
  ASSUME Typed, Shape, Copy, ~deleted, NEW e \in Reports, Report(e) \/ Project(e) \/ FanOut(e)
  PROVE  Copy'
<1>0. /\ task \in [Reports -> {"none", "hook", "stored", "fan", "done", "dropped"}] /\ Of[e] \in Msgs
      /\ index \in [Msgs -> [own : Copies, event : Copies]] /\ event \in [Msgs -> RowType]
  BY Maps, Sorts
<1>1. UNCHANGED <<own, sends, deleted, lost>> /\ hurt \subseteq hurt' /\ \A x \in Sends : x \in accepted' => x \in accepted
  BY DEF Report, Project, FanOut, DbFails, rows, life, muts
<1>2. CASE /\ UNCHANGED <<rows, index>>
           /\ \A x \in Reports : task'[x] = "stored" => task[x] = "stored"
  BY <1>1, <1>2, CopyStays DEF sends, apart
<1>3. CASE Report(e)
  <2>1. UNCHANGED <<rows, index>> /\ task' = [task EXCEPT ![e] = "hook"]
    BY <1>3 DEF Report
  <2> QED
    BY <1>0, <1>2, <2>1
<1>4. CASE Project(e)
  <2>1. \/ UNCHANGED rows /\ \E l \in {"dropped", "done", "fan"} : task' = [task EXCEPT ![e] = l]
        \/ ~Taken(Of[e]) /\ event' = [event EXCEPT ![Of[e]] = EventRow] /\ task' = [task EXCEPT ![e] = "stored"]
    BY <1>4 DEF Project, rows
  <2>2. UNCHANGED <<index, accepted>>
    BY <1>4 DEF Project
  <2>3. CASE UNCHANGED rows /\ \E l \in {"dropped", "done", "fan"} : task' = [task EXCEPT ![e] = l]
    BY <1>0, <1>2, <2>2, <2>3
  <2>4. CASE ~Taken(Of[e]) /\ event' = [event EXCEPT ![Of[e]] = EventRow] /\ task' = [task EXCEPT ![e] = "stored"]
    <3>1. \A x \in Reports : task'[x] = "stored" => task[x] = "stored" \/ Of[x] = Of[e]
      BY <1>0, <2>4
    <3> QED
      BY <1>0, <1>1, <2>2, <2>4, <3>1, CopyStores
  <2> QED
    BY <2>1, <2>3, <2>4
<1>5. CASE FanOut(e)
  <2>1. UNCHANGED <<rows, accepted, hurt>> /\ task' = [task EXCEPT ![e] = "done"]
        /\ index' = IF task[e] = "stored" THEN [index EXCEPT ![Of[e]].event = "sent"] ELSE index
    BY <1>5 DEF FanOut
  <2>2. \A x \in Reports : task'[x] = "stored" => task[x] = "stored"
    BY <1>0, <2>1
  <2>3. CASE task[e] # "stored"
    BY <1>2, <2>1, <2>2, <2>3
  <2>4. CASE task[e] = "stored"
    <3>1. event[Of[e]].wa /\ Exists(event[Of[e]])
      BY <1>0, <2>4 DEF Copy, Shape
    <3>2. \A x \in Msgs : /\ index'[x].own = index[x].own
                          /\ index'[x].event = IF x = Of[e] THEN "sent" ELSE index[x].event
      BY <1>0, <2>1, <2>4
    <3>3. \A x \in Msgs : index'[x].event # "none" => event[x].wa
      BY <3>1, <3>2 DEF Copy
    <3>4. ASSUME NEW x \in Sends \ (hurt' \cup nameless') PROVE Copied(x)'
      <4>1. Copied(x) /\ x \in Msgs
        BY <1>1, <3>4, Sorts DEF Copy, sends, apart
      <4>2. ASSUME pc[x] = "over", x \in accepted PROVE index'[x] = index[x]
        <5>1. CASE x = Of[e]
          <6>1. index[x] = [own |-> IF Exists(own[x]) THEN "sent" ELSE "none",
                            event |-> IF Exists(own[x]) THEN "none" ELSE "sent"]
            BY <4>1, <4>2 DEF Copied
          <6>2. ~Exists(own[x])
            BY <3>1, <4>1, <4>2, <5>1 DEF Copied
          <6>3. index[x].event = "sent"
            BY <6>1, <6>2
          <6> QED
            BY <1>0, <2>1, <2>4, <4>1, <5>1, <6>3
        <5>2. CASE x # Of[e]
          BY <1>0, <2>1, <2>4, <4>1, <5>2
        <5> QED
          BY <5>1, <5>2
      <4> QED
        BY <1>1, <2>1, <4>1, <4>2 DEF Copied, sends, apart, rows, Taken, Stored
    <3> QED
      BY <1>1, <2>1, <2>2, <3>3, <3>4 DEF Copy, rows
  <2> QED
    BY <2>3, <2>4
<1> QED
  BY <1>3, <1>4, <1>5

(* The reaper's row is one of a send that is not known to have ended well. *)
LEMMA CopyReap == ASSUME Typed, Shape, Copy, ~deleted, NEW m \in Sends, Reap(m) PROVE Copy'
<1>0. /\ own \in [Msgs -> RowType] /\ m \in Msgs /\ Sends \subseteq Msgs
      /\ index \in [Msgs -> [own : Copies, event : Copies]]
  BY Maps, Sorts
<1>1. UNCHANGED <<event, sends, accepted, task, deleted, lost>> /\ hurt \subseteq hurt'
  BY DEF Reap, DbFails, tasks, life, muts
<1>2. /\ \A x \in Msgs \ {m} : own'[x] = own[x]
      /\ \/ own'[m] = own[m] /\ index' = index
         \/ own[m].status = "pending" /\ index' = [index EXCEPT ![m].own = "failed"]
  BY ReapIs
<1>3. \A x \in Msgs : index'[x].event = index[x].event
  BY <1>0, <1>2
<1>4. ASSUME NEW x \in Sends \ (hurt' \cup nameless') PROVE Copied(x)'
  <2>1. Copied(x) /\ x \in Msgs
    BY <1>0, <1>1, <1>4 DEF Copy, sends, apart
  <2>2. CASE own'[x] = own[x] /\ index'[x] = index[x]
    BY <1>1, <2>1, <2>2 DEF Copied, sends, apart, Taken, Stored
  <2>3. CASE x = m /\ own[m].status = "pending"
    <3>1. ~own[x].wa /\ Exists(own[x]) /\ own[x] # NoRow /\ (event[x].wa <=> Exists(event[x]))
      BY <1>0, <2>3, RowTypes DEF Shape, Exists
    <3>2. pc[x] # "surviving" /\ ~(pc[x] = "over" /\ x \in accepted)
      BY <2>1, <3>1 DEF Copied, Taken
    <3> QED
      BY <1>1, <2>1, <3>2 DEF Copied, sends, apart
  <2>4. x # m => own'[x] = own[x] /\ index'[x] = index[x]
    BY <1>0, <1>2, <2>1
  <2> QED
    BY <1>2, <2>2, <2>3, <2>4
<1> QED
  BY <1>1, <1>3, <1>4 DEF Copy, sends, apart

LEMMA CopyStep == ASSUME Typed, Shape, Account, Failures, Copy, Carries, [Next]_vars PROVE Copy'
<1>1. SUFFICES ASSUME ~deleted PROVE Copy'
  BY DeletedStays DEF Copy
<1>2. ASSUME NEW m \in Sends, Send(m) PROVE Copy'
  BY <1>2, CopySend
<1>3. ASSUME NEW e \in Reports, Report(e) \/ Project(e) \/ FanOut(e) PROVE Copy'
  BY <1>1, <1>3, CopyReport
<1>4. ASSUME NEW r \in Acked, Ack(r[1], r[2]) PROVE Copy'
  BY <1>4, CopyStays DEF Ack, sends, apart, tasks, life, muts
<1>5. ASSUME NEW a \in acks, Advance(a) PROVE Copy'
  BY <1>1, <1>5, AdvanceIsLike, AdvancePays, CopyLike DEF tasks, life, muts
<1>6. ASSUME NEW m, (m \in Touched /\ Touch(m)) \/ (m \in Revocable /\ Revoke(m)) PROVE Copy'
  <2>1. m \in Msgs
    BY <1>6, Sorts
  <2>2. lost' = lost
    BY <1>6 DEF Touch, MutationArrives, ReadReactions, WriteReactions, ApplyEdit, Revoke
  <2> QED
    BY <1>1, <1>6, <2>1, <2>2, TouchIsLike, TouchPays, RevokePays, CopyLike DEF tasks, life
<1>7. ASSUME NEW m \in Imports, ImportSelect(m) \/ ImportInsert(m) PROVE Copy'
  <2>1. m \in Msgs /\ UNCHANGED <<own, sends, index, deleted, hurt, task, lost>> /\ \A x \in Sends : x \in accepted' => x \in accepted
    BY <1>7, Sorts DEF ImportSelect, ImportInsert, rows, tasks, life, muts
  <2>2. (event' = [event EXCEPT ![m] = EventRow] /\ ~Taken(m) /\ accepted' = accepted) \/ event' = event
    BY <1>7 DEF ImportSelect, ImportInsert, rows
  <2> QED
    BY <1>1, <2>1, <2>2, CopyStores, CopyStays DEF rows, sends, apart
<1>8. ASSUME NEW m \in Sends, Reap(m) PROVE Copy'
  BY <1>1, <1>8, CopyReap
<1>9. CASE SweepStart \/ Retire \/ Revive \/ UNCHANGED vars
  BY <1>9, CopyStays DEF SweepStart, Retire, Revive, sends, apart, tasks, life, muts, vars
<1>10. CASE Delete
  BY <1>10 DEF Delete, Copy
<1>11. CASE Crash
  <2>1. /\ UNCHANGED <<rows, accepted, nameless, index, deleted, lost>> /\ hurt \subseteq hurt'
        /\ \A x \in Sends : /\ pc'[x] = IF pc[x] = "new" THEN "new" ELSE "over"
                            /\ pc[x] \notin {"new", "over"} => x \in hurt'
    BY <1>11 DEF Crash, apart
  <2>2. \A e \in Reports : task'[e] = "stored" => task[e] = "stored"
    BY <1>11 DEF Crash
  <2>3. ASSUME NEW x \in Sends \ (hurt' \cup nameless') PROVE Copied(x)'
    <3>1. Copied(x) /\ pc[x] \in {"new", "over"} /\ pc'[x] = pc[x]
      BY <1>1, <2>1, <2>3 DEF Copy
    <3> QED
      BY <2>1, <3>1 DEF Copied, rows, Taken, Stored
  <2> QED
    BY <2>1, <2>2, <2>3 DEF Copy, rows
<1> QED
  BY <1>2, <1>3, <1>4, <1>5, <1>6, <1>7, <1>8, <1>9, <1>10, <1>11 DEF Next

-----------------------------------------------------------------------------
(* Arrivals *)

LEMMA ArrivalsLike ==
  ASSUME Arrivals, UNCHANGED <<fanned, deleted>>, outliving \subseteq outliving', hurt \subseteq hurt', imported \subseteq imported',
         \A e \in Reports : Of[e] \in hurt' \/ task'[e] = task[e] \/ (task[e] = "none" /\ task'[e] = "hook")
                              \/ (task[e] = "hook" /\ task'[e] = "dropped"),
         \A x \in Inbound : event'[x].wa = event[x].wa \/ (~event[x].wa /\ event'[x].wa /\ x \in imported')
  PROVE  Arrivals'
<1> SUFFICES ASSUME NEW m \in Inbound \ hurt' PROVE Arrived(m)'
  BY DEF Arrivals
<1>1. Arrived(m)
  BY DEF Arrivals
<1>2. \A e \in Reports : Of[e] = m => /\ task'[e] = "stored" <=> task[e] = "stored"
                                      /\ task'[e] = "done" <=> task[e] = "done"
                                      /\ task'[e] = "fan" <=> task[e] = "fan"
  OBVIOUS
<1>3. (Going(m)' <=> Going(m)) /\ (Again(m) => Again(m)')
  BY <1>2 DEF Going, Again
<1> QED
  BY <1>1, <1>2, <1>3 DEF Arrived

LEMMA ArrivalsProject ==
  ASSUME Typed, Shape, Purged, Arrivals, NEW e \in Reports, Project(e)
  PROVE  Arrivals'
<1>0. /\ event \in [Msgs -> RowType] /\ fanned \in [Msgs -> Nat] /\ Of[e] \in Msgs /\ Inbound \subseteq Msgs
      /\ task \in [Reports -> {"none", "hook", "stored", "fan", "done", "dropped"}]
      /\ EventRow.wa = TRUE
  BY Maps, Sorts, RowTypes
<1>1. UNCHANGED <<fanned, deleted, outliving, imported>> /\ hurt \subseteq hurt' /\ task[e] = "hook"
  BY DEF Project, DbFails, life, imports
<1>9. \A m : Again(m)' <=> Again(m)
  BY <1>1 DEF Again
<1>2. CASE event' = event /\ (task' = [task EXCEPT ![e] = "dropped"] \/ Of[e] \in hurt' \/ Of[e] \notin Inbound)
           /\ \E l \in {"dropped", "done", "fan"} : task' = [task EXCEPT ![e] = l]
  <2> SUFFICES ASSUME NEW m \in Inbound \ hurt' PROVE Arrived(m)'
    BY DEF Arrivals
  <2>1. Arrived(m)
    BY <1>1 DEF Arrivals
  <2>2. \A x \in Reports : Of[x] = m => /\ task'[x] = "stored" <=> task[x] = "stored"
                                        /\ task'[x] = "done" <=> task[x] = "done"
                                        /\ task'[x] = "fan" <=> task[x] = "fan"
    BY <1>0, <1>1, <1>2
  <2>3. Going(m)' <=> Going(m)
    BY <2>2 DEF Going
  <2> QED
    BY <1>1, <1>2, <1>9, <2>1, <2>2, <2>3 DEF Arrived
<1>3. CASE /\ event' = event /\ Of[e] \in Inbound /\ Taken(Of[e]) /\ e \notin stale
           /\ task' = [task EXCEPT ![e] = "done"]
  <2>1. event[Of[e]].wa
    BY <1>0, <1>3, Sorts DEF Taken, Shape
  <2> SUFFICES ASSUME NEW m \in Inbound \ hurt' PROVE Arrived(m)'
    BY DEF Arrivals
  <2>2. Arrived(m)
    BY <1>1 DEF Arrivals
  <2>3. \A x \in Reports : /\ task'[x] = "stored" <=> task[x] = "stored"
                           /\ task'[x] = "done" <=> task[x] = "done" \/ x = e
                           /\ task'[x] = "fan" <=> task[x] = "fan"
    BY <1>0, <1>1, <1>3
  <2>4. Going(m)' <=> Going(m)
    BY <2>3 DEF Going
  <2>5. Of[e] = m /\ m \notin imported => fanned[m] >= 1 \/ Going(m)
    BY <2>1, <2>2 DEF Arrived
  <2> QED
    BY <1>1, <1>3, <1>9, <2>2, <2>3, <2>4, <2>5 DEF Arrived
<1>4. CASE /\ event' = [event EXCEPT ![Of[e]] = EventRow] /\ ~Taken(Of[e]) /\ e \notin stale
           /\ task' = [task EXCEPT ![e] = "stored"]
  <2>1. ~event[Of[e]].wa /\ (deleted => Again(Of[e]))
    BY <1>1, <1>4 DEF Taken, Purged, Again
  <2>2. \A x \in Msgs : event'[x] = IF x = Of[e] THEN EventRow ELSE event[x]
    BY <1>0, <1>4
  <2>3. \A x \in Reports : task'[x] = IF x = e THEN "stored" ELSE task[x]
    BY <1>0, <1>4
  <2> SUFFICES ASSUME NEW m \in Inbound \ hurt' PROVE Arrived(m)'
    BY DEF Arrivals
  <2>4. Arrived(m) /\ fanned[m] \in Nat
    BY <1>0, <1>1 DEF Arrivals
  <2>5. CASE m = Of[e]
    <3>1. (fanned[m] = 0 /\ ~Going(m)) \/ Again(m)
      BY <2>1, <2>4, <2>5 DEF Arrived
    <3>2. Going(m)'
      BY <2>3, <2>5 DEF Going
    <3>3. event'[m].wa
      BY <1>0, <2>2, <2>5
    <3>4. \A x \in Reports : Of[x] = m =>
            /\ task'[x] # "fan"
            /\ task'[x] = "stored" => (fanned[m] = 0 /\ x = e) \/ Again(m)
      BY <2>3, <2>4, <2>5, <3>1 DEF Arrived, Going
    <3>5. fanned[m] <= 1 \/ Again(m)
      BY <2>4 DEF Arrived
    <3>6. fanned[m] = 0 \/ Again(m)
      BY <3>1
    <3>7. \A x \in Reports : Of[x] = m => task'[x] # "fan" /\ (task'[x] = "stored" => x = e \/ Again(m))
      BY <3>4
    <3>8. CASE Again(m)
      <4>1. Again(m)' /\ fanned' = fanned
        BY <1>1, <1>9, <3>8
      <4> QED
        BY <3>2, <3>3, <3>7, <4>1 DEF Arrived
    <3>9. CASE ~Again(m)
      <4>1. fanned'[m] <= 1 /\ event'[m].wa
        BY <1>1, <3>3, <3>5, <3>9
      <4>2. \A x \in Reports : Of[x] = m =>
              /\ task'[x] # "fan"
              /\ task'[x] = "stored" => fanned'[m] = 0 /\ \A y \in Reports : Of[y] = m /\ task'[y] = "stored" => y = x
        BY <1>1, <3>6, <3>7, <3>9
      <4> QED
        BY <3>2, <4>1, <4>2 DEF Arrived
    <3> QED
      BY <3>8, <3>9
  <2>6. CASE m # Of[e]
    <3>1. event'[m] = event[m] /\ (\A x \in Reports : Of[x] = m => task'[x] = task[x])
      BY <1>0, <2>2, <2>3, <2>6
    <3>2. Going(m)' <=> Going(m)
      BY <3>1 DEF Going
    <3> QED
      BY <1>1, <1>9, <2>4, <3>1, <3>2 DEF Arrived
  <2> QED
    BY <2>5, <2>6
<1> QED
  BY <1>2, <1>3, <1>4 DEF Project, DbFails

LEMMA ArrivalsFanOut == ASSUME Typed, Arrivals, NEW e \in Reports, FanOut(e) PROVE Arrivals'
<1>0. /\ fanned \in [Msgs -> Nat] /\ Of[e] \in Msgs /\ Inbound \subseteq Msgs
      /\ task \in [Reports -> {"none", "hook", "stored", "fan", "done", "dropped"}]
  BY Maps, Sorts
<1>1. /\ UNCHANGED <<event, deleted, outliving, imported, hurt>> /\ task[e] \in {"stored", "fan"}
      /\ fanned' = [fanned EXCEPT ![Of[e]] = fanned[Of[e]] + 1] /\ task' = [task EXCEPT ![e] = "done"]
  BY DEF FanOut, rows, life, imports
<1>2. \A x \in Reports : task'[x] = IF x = e THEN "done" ELSE task[x]
  BY <1>0, <1>1
<1> SUFFICES ASSUME NEW m \in Inbound \ hurt' PROVE Arrived(m)'
  BY DEF Arrivals
<1>3. Arrived(m)
  BY <1>1 DEF Arrivals
<1>4. CASE m = Of[e]
  <2>1. task[e] = "stored" /\ Going(m)
    BY <1>1, <1>3, <1>4 DEF Arrived, Going
  <2>2. fanned'[m] = fanned[m] + 1 /\ fanned[m] \in Nat /\ fanned'[m] >= 1
    BY <1>0, <1>1, <1>4
  <2>3. (fanned[m] = 0 /\ \A x \in Reports : Of[x] = m /\ task[x] = "stored" => x = e) \/ Again(m)
    BY <1>3, <1>4, <2>1 DEF Arrived
  <2>4. (fanned'[m] <= 1 /\ \A x \in Reports : Of[x] = m => task'[x] # "stored") \/ Again(m)
    BY <1>2, <2>2, <2>3
  <2>5. \A x \in Reports : Of[x] = m => task'[x] # "fan"
    BY <1>2, <1>3 DEF Arrived
  <2>6. (Again(m)' <=> Again(m)) /\ (~deleted => event[m].wa)
    BY <1>1, <1>3, <2>1 DEF Arrived, Again
  <2> QED
    BY <1>1, <2>2, <2>4, <2>5, <2>6 DEF Arrived
<1>5. CASE m # Of[e]
  <2>1. fanned'[m] = fanned[m] /\ \A x \in Reports : Of[x] = m => task'[x] = task[x]
    BY <1>0, <1>1, <1>2, <1>5
  <2>2. (Going(m)' <=> Going(m)) /\ (Again(m)' <=> Again(m))
    BY <1>1, <2>1 DEF Going, Again
  <2> QED
    BY <1>1, <1>3, <2>1, <2>2 DEF Arrived
<1> QED
  BY <1>4, <1>5

LEMMA ArrivalsStep == ASSUME Typed, Shape, Failures, Purged, Arrivals, [Next]_vars PROVE Arrivals'
<1>0. /\ event \in [Msgs -> RowType] /\ Inbound \subseteq Msgs
      /\ task \in [Reports -> {"none", "hook", "stored", "fan", "done", "dropped"}]
  BY Maps, Sorts
<1>1. CASE UNCHANGED <<fanned, deleted, outliving, imported, task, event>> /\ hurt \subseteq hurt'
  BY <1>1, ArrivalsLike
<1>2. CASE UNCHANGED <<fanned, deleted, outliving, imported, task>> /\ hurt \subseteq hurt' /\ \A x \in Msgs : Like(x)
  BY <1>0, <1>2, ArrivalsLike DEF Like
<1>3. ASSUME NEW m \in Sends, Send(m) PROVE Arrivals'
  <2>1. UNCHANGED <<fanned, deleted, outliving, imported, task>> /\ hurt \subseteq hurt'
    BY <1>3 DEF Send, Request, Gate, FindSession, FindUser, Reserve, Insert, Undo, EngineAnswers, SaveSent, Merge, Drop, AnnounceSurvivor, SaveFailed,
       Release, ReturnReservation, DbFails, tasks, life, imports
  <2>2. CASE Merge(m)
    <3>1. \A x \in Inbound : event'[x] = event[x]
      BY <2>2, MergedIs, Sorts
    <3> QED
      BY <2>1, <3>1, ArrivalsLike
  <2>3. CASE ~Merge(m)
    <3>1. event' = event
      BY <1>3, <2>3 DEF Send, Request, Gate, FindSession, FindUser, Reserve, Insert, Undo, EngineAnswers, SaveSent, Drop, AnnounceSurvivor, SaveFailed,
         Release, rows
    <3> QED
      BY <1>1, <2>1, <3>1
  <2> QED
    BY <2>2, <2>3
<1>4. ASSUME NEW e \in Reports, Report(e) PROVE Arrivals'
  <2>1. /\ UNCHANGED <<event, fanned, deleted, imported, hurt>> /\ outliving \subseteq outliving'
        /\ task[e] = "none" /\ task' = [task EXCEPT ![e] = "hook"]
    BY <1>4 DEF Report, rows, life, imports
  <2>2. \A x \in Reports : task'[x] = task[x] \/ (task[x] = "none" /\ task'[x] = "hook")
    BY <1>0, <2>1
  <2> QED
    BY <2>1, <2>2, ArrivalsLike
<1>5. ASSUME NEW e \in Reports, Project(e) \/ FanOut(e) PROVE Arrivals'
  BY <1>5, ArrivalsProject, ArrivalsFanOut
<1>6. ASSUME NEW r \in Acked, Ack(r[1], r[2]) PROVE Arrivals'
  BY <1>1, <1>6 DEF Ack, rows, tasks, life, imports
<1>7. ASSUME NEW a \in acks, Advance(a) PROVE Arrivals'
  BY <1>2, <1>7, AdvanceIsLike DEF tasks, life, imports
<1>8. ASSUME NEW m, (m \in Touched /\ Touch(m)) \/ (m \in Revocable /\ Revoke(m)) PROVE Arrivals'
  BY <1>2, <1>8, TouchIsLike, Sorts DEF tasks, life, imports
<1>9. ASSUME NEW m \in Imports, ImportSelect(m) \/ ImportInsert(m) PROVE Arrivals'
  <2>1. UNCHANGED <<fanned, deleted, outliving, hurt, task>> /\ m \in Msgs
    BY <1>9, Sorts DEF ImportSelect, ImportInsert, tasks, life
  <2>2. CASE UNCHANGED <<event, imported>>
    BY <1>1, <2>1, <2>2
  <2>3. CASE event' = [event EXCEPT ![m] = EventRow] /\ imported' = imported \cup {m}
    <3>1. EventRow.wa = TRUE /\ \A x \in Msgs : event[x].wa \in BOOLEAN
      BY <1>0, RowTypes DEF RowType
    <3>2. \A x \in Inbound : event'[x].wa = event[x].wa \/ (~event[x].wa /\ event'[x].wa /\ x \in imported')
      BY <1>0, <2>1, <2>3, <3>1
    <3> QED
      BY <2>1, <2>3, <3>2, ArrivalsLike
  <2> QED
    BY <1>9, <2>2, <2>3 DEF ImportSelect, ImportInsert, rows
<1>10. CASE SweepStart \/ (\E m \in Sends : Reap(m)) \/ Retire \/ Revive \/ UNCHANGED vars
  BY <1>1, <1>10 DEF SweepStart, Reap, DbFails, Retire, Revive, rows, tasks, life, imports, vars
<1>11. CASE Delete
  <2>1. deleted' /\ ~deleted /\ UNCHANGED <<fanned, imported, task, hurt>> /\ \A x \in Msgs : event'[x] = NoRow
    BY <1>11 DEF Delete, imports
  <2>2. \A m : ~Again(m)
    BY <2>1 DEF Purged, Again
  <2>3. \A x \in Msgs : ~event'[x].wa
    BY <2>1, RowTypes
  <2> SUFFICES ASSUME NEW m \in Inbound \ hurt' PROVE Arrived(m)'
    BY DEF Arrivals
  <2>4. Arrived(m) /\ m \in Msgs
    BY <1>0, <2>1 DEF Arrivals
  <2>5. Going(m)' <=> Going(m)
    BY <2>1 DEF Going
  <2> QED
    BY <2>1, <2>2, <2>3, <2>4, <2>5 DEF Arrived
<1>12. CASE Crash
  <2>1. UNCHANGED <<event, fanned, deleted, outliving, imported>> /\ hurt \subseteq hurt'
        /\ \A e \in Reports : task'[e] = task[e] \/ Of[e] \in hurt'
    BY <1>0, <1>12 DEF Crash, rows
  <2> QED
    BY <2>1, ArrivalsLike
<1> QED
  BY <1>3, <1>4, <1>5, <1>6, <1>7, <1>8, <1>9, <1>10, <1>11, <1>12 DEF Next

-----------------------------------------------------------------------------
(* What a queue leaves *)

LEMMA QueueDomain == \A c \in Seq(OpsType) : Len(c) \in Nat /\ DOMAIN c = 1..Len(c)
BY LenProperties

LEMMA LeftEmpty ==
  ASSUME NEW w, NEW r
  PROVE  /\ MarksLeft(<<>>, w, r) <=> \A s \in Senders : r.marks[s] = w.marks[s]
         /\ TextLeft(<<>>, w, r) <=> r.text = w.text
<1>1. DOMAIN <<>> = {}
  OBVIOUS
<1>2. (\A s : MarksAt(<<>>, s) = {}) /\ EditsAt(<<>>) = {}
  BY <1>1 DEF MarksAt, EditsAt
<1> QED
  BY <1>1, <1>2 DEF MarksLeft, TextLeft

LEMMA LeftAppended ==
  ASSUME NEW c \in Seq(OpsType), NEW op \in Mutations, NEW w \in [marks : MarkType, text : Texts], NEW r, NEW v,
         v = IF op.kind = "edit" THEN [w EXCEPT !.text = op.text] ELSE [w EXCEPT !.marks[op.who] = op.on]
  PROVE  /\ MarksLeft(c, w, r) => MarksLeft(Append(c, op), v, r)
         /\ TextLeft(c, w, r) => TextLeft(Append(c, op), v, r)
<1> DEFINE d == Append(c, op)
<1>1. op \in OpsType /\ op.kind \in {"reaction", "edit"} /\ (op.kind = "reaction" => ~op.read)
  BY OpTypes
<1>2. Len(c) \in Nat /\ DOMAIN c = 1..Len(c) /\ d \in Seq(OpsType) /\ DOMAIN d = 1..(Len(c) + 1)
  BY <1>1, Longer, QueueDomain
<1>3. d[Len(c) + 1] = op /\ \A n \in 1..Len(c) : d[n] = c[n]
  BY <1>1, Longer
<1>4. /\ op.kind = "edit" => v.marks = w.marks /\ v.text = op.text
      /\ op.kind = "reaction" => v.text = w.text /\ v.marks = [w.marks EXCEPT ![op.who] = op.on]
  BY <1>1 DEF MarkType
<1> HIDE DEF d
<1>5. ASSUME MarksLeft(c, w, r) PROVE MarksLeft(d, v, r)
  <2> SUFFICES ASSUME NEW s \in Senders
               PROVE  \/ MarksAt(d, s) = {} /\ r.marks[s] = v.marks[s]
                      \/ \E n \in MarksAt(d, s) : d[n].on = v.marks[s] /\ \A i \in MarksAt(d, s) : i <= n
    BY DEF MarksLeft
  <2>1. CASE op.kind = "reaction" /\ op.who = s
    <3>1. Len(c) + 1 \in MarksAt(d, s) /\ \A i \in MarksAt(d, s) : i <= Len(c) + 1
      BY <1>2, <1>3, <2>1 DEF MarksAt
    <3>2. d[Len(c) + 1].on = v.marks[s]
      BY <1>3, <1>4, <2>1 DEF MarkType
    <3> QED
      BY <3>1, <3>2
  <2>2. CASE ~(op.kind = "reaction" /\ op.who = s)
    <3>1. MarksAt(d, s) = MarksAt(c, s)
      BY <1>2, <1>3, <2>2 DEF MarksAt
    <3>2. v.marks[s] = w.marks[s]
      BY <1>1, <1>4, <2>2 DEF MarkType
    <3>3. \A n \in MarksAt(c, s) : d[n] = c[n]
      BY <1>2, <1>3 DEF MarksAt
    <3> QED
      BY <1>5, <3>1, <3>2, <3>3 DEF MarksLeft
  <2> QED
    BY <2>1, <2>2
<1>6. ASSUME TextLeft(c, w, r) PROVE TextLeft(d, v, r)
  <2>1. CASE op.kind = "edit"
    <3>1. Len(c) + 1 \in EditsAt(d) /\ \A i \in EditsAt(d) : i <= Len(c) + 1
      BY <1>2, <1>3, <2>1 DEF EditsAt
    <3> QED
      BY <1>3, <1>4, <2>1, <3>1 DEF TextLeft
  <2>2. CASE op.kind = "reaction"
    <3>1. EditsAt(d) = EditsAt(c)
      BY <1>2, <1>3, <2>2 DEF EditsAt
    <3>2. \A n \in EditsAt(c) : d[n] = c[n]
      BY <1>2, <1>3 DEF EditsAt
    <3> QED
      BY <1>4, <1>6, <2>2, <3>1, <3>2 DEF TextLeft
  <2> QED
    BY <1>1, <2>1, <2>2
<1> QED
  BY <1>5, <1>6 DEF d

\* The first reaction has read the row.
LEMMA LeftRead ==
  ASSUME NEW c \in Seq(OpsType), c # <<>>, Head(c).kind = "reaction", NEW w, NEW r, NEW d \in Seq(OpsType),
         Len(d) = Len(c), d[1].kind = "reaction", d[1].who = c[1].who, d[1].on = c[1].on,
         \A n \in 2..Len(c) : d[n] = c[n]
  PROVE  /\ MarksLeft(c, w, r) => MarksLeft(d, w, r)
         /\ TextLeft(c, w, r) => TextLeft(d, w, r)
<1>2. Len(c) \in Nat \ {0} /\ DOMAIN c = 1..Len(c) /\ DOMAIN d = 1..Len(c) /\ c[1].kind = "reaction"
  BY Shorter, QueueDomain
<1>3. \A n \in 1..Len(c) :
        /\ d[n].kind = c[n].kind
        /\ c[n].kind = "reaction" => d[n].who = c[n].who /\ d[n].on = c[n].on
        /\ c[n].kind = "edit" => d[n] = c[n]
  <2> TAKE n \in 1..Len(c)
  <2>1. n = 1 \/ n \in 2..Len(c)
    BY <1>2
  <2> QED
    BY <1>2, <2>1
<1>4. EditsAt(d) = EditsAt(c) /\ \A s : MarksAt(d, s) = MarksAt(c, s)
  BY <1>2, <1>3 DEF EditsAt, MarksAt
<1>5. MarksLeft(c, w, r) => MarksLeft(d, w, r)
  <2>1. \A s, n : n \in MarksAt(c, s) => d[n].on = c[n].on
    BY <1>2, <1>3 DEF MarksAt
  <2> QED
    BY <1>4, <2>1 DEF MarksLeft
<1>6. TextLeft(c, w, r) => TextLeft(d, w, r)
  <2>1. \A n \in EditsAt(c) : d[n] = c[n]
    BY <1>2, <1>3 DEF EditsAt
  <2> QED
    BY <1>4, <2>1 DEF TextLeft
<1> QED
  BY <1>5, <1>6

(* The places in a queue whose first operation is done. *)
Behind(c, t) == t = Tail(c)

LEMMA PlacesShift ==
  ASSUME NEW c \in Seq(OpsType), c # <<>>, NEW t, Behind(c, t)
  PROVE  /\ c[1] \in OpsType /\ Head(c) = c[1]
         /\ \A s : \A n \in MarksAt(c, s) : n \in Nat /\ (n = 1 \/ (n - 1 \in MarksAt(t, s) /\ t[n - 1] = c[n]))
         /\ \A s : \A n \in MarksAt(t, s) : n \in Nat /\ n >= 1 /\ n + 1 \in MarksAt(c, s)
         /\ \A n \in EditsAt(c) : n \in Nat /\ (n = 1 \/ (n - 1 \in EditsAt(t) /\ t[n - 1] = c[n]))
         /\ \A n \in EditsAt(t) : n \in Nat /\ n >= 1 /\ n + 1 \in EditsAt(c)
<1>1. /\ t \in Seq(OpsType) /\ Len(c) \in Nat \ {0} /\ Len(t) = Len(c) - 1 /\ Head(c) = c[1] /\ c[1] \in OpsType
      /\ \A n \in 1..Len(c) - 1 : t[n] = c[n + 1]
  BY Shorter DEF Behind
<1>2. DOMAIN c = 1..Len(c) /\ DOMAIN t = 1..(Len(c) - 1)
  BY <1>1, QueueDomain
<1>3. \A n \in DOMAIN c : n \in Nat /\ (n = 1 \/ (n - 1 \in DOMAIN t /\ t[n - 1] = c[n]))
  <2> TAKE n \in DOMAIN c
  <2>1. n \in Nat /\ (n = 1 \/ n - 1 \in 1..(Len(c) - 1)) /\ (n - 1) + 1 = n
    BY <1>1, <1>2
  <2> QED
    BY <1>1, <1>2, <2>1
<1>4. \A n \in DOMAIN t : n \in Nat /\ n >= 1 /\ n + 1 \in DOMAIN c /\ n + 1 # 1 /\ t[n] = c[n + 1]
  BY <1>1, <1>2
<1>5. /\ \A s : \A n \in MarksAt(c, s) : n \in Nat /\ (n = 1 \/ (n - 1 \in MarksAt(t, s) /\ t[n - 1] = c[n]))
      /\ \A n \in EditsAt(c) : n \in Nat /\ (n = 1 \/ (n - 1 \in EditsAt(t) /\ t[n - 1] = c[n]))
  BY <1>3 DEF MarksAt, EditsAt
<1>6. /\ \A s : \A n \in MarksAt(t, s) : n \in Nat /\ n >= 1 /\ n + 1 \in MarksAt(c, s)
      /\ \A n \in EditsAt(t) : n \in Nat /\ n >= 1 /\ n + 1 \in EditsAt(c)
  BY <1>4 DEF MarksAt, EditsAt
<1> QED
  BY <1>1, <1>5, <1>6

\* The first reaction is written to a row v, as it found the row r.
LEMMA LeftWritten ==
  ASSUME NEW c \in Seq(OpsType), c # <<>>, Head(c).kind = "reaction", NEW w, NEW r, NEW v, r.marks \in MarkType,
         v.marks = [r.marks EXCEPT ![c[1].who] = c[1].on], v.text = r.text,
         NEW t, Behind(c, t)
  PROVE  /\ MarksLeft(c, w, r) => MarksLeft(t, w, v)
         /\ TextLeft(c, w, r) => TextLeft(t, w, v)
<1>1. /\ c[1] \in OpsType /\ Head(c) = c[1]
      /\ \A s : \A n \in MarksAt(c, s) : n \in Nat /\ (n = 1 \/ (n - 1 \in MarksAt(t, s) /\ t[n - 1] = c[n]))
      /\ \A s : \A n \in MarksAt(t, s) : n \in Nat /\ n >= 1 /\ n + 1 \in MarksAt(c, s)
      /\ \A n \in EditsAt(c) : n \in Nat /\ (n = 1 \/ (n - 1 \in EditsAt(t) /\ t[n - 1] = c[n]))
      /\ \A n \in EditsAt(t) : n \in Nat /\ n >= 1 /\ n + 1 \in EditsAt(c)
  BY PlacesShift
<1>2. c[1].who \in Senders /\ 1 \notin EditsAt(c) /\ (\A s : 1 \in MarksAt(c, s) => s = c[1].who)
      /\ 1 \in MarksAt(c, c[1].who)
  BY <1>1, OpTypes, Shorter, QueueDomain DEF EditsAt, MarksAt
<1>3. \A s \in Senders : v.marks[s] = IF s = c[1].who THEN c[1].on ELSE r.marks[s]
  BY DEF MarkType
<1>4. ASSUME MarksLeft(c, w, r) PROVE MarksLeft(t, w, v)
  <2> SUFFICES ASSUME NEW s \in Senders
               PROVE  \/ MarksAt(t, s) = {} /\ v.marks[s] = w.marks[s]
                      \/ \E n \in MarksAt(t, s) : t[n].on = w.marks[s] /\ \A i \in MarksAt(t, s) : i <= n
    BY DEF MarksLeft
  <2>1. CASE MarksAt(c, s) = {} /\ r.marks[s] = w.marks[s]
    <3>1. MarksAt(t, s) = {} /\ s # c[1].who
      BY <1>1, <1>2, <2>1
    <3> QED
      BY <1>3, <2>1, <3>1
  <2>2. ASSUME NEW n \in MarksAt(c, s), c[n].on = w.marks[s], \A i \in MarksAt(c, s) : i <= n
        PROVE  \/ MarksAt(t, s) = {} /\ v.marks[s] = w.marks[s]
               \/ \E k \in MarksAt(t, s) : t[k].on = w.marks[s] /\ \A i \in MarksAt(t, s) : i <= k
    <3>1. CASE n = 1
      <4>1. \A i \in MarksAt(t, s) : FALSE
        BY <1>1, <2>2, <3>1
      <4> QED
        BY <1>2, <1>3, <2>2, <3>1, <4>1
    <3>2. CASE n # 1
      <4>1. n \in Nat /\ n - 1 \in MarksAt(t, s) /\ t[n - 1] = c[n]
        BY <1>1, <2>2, <3>2
      <4>2. \A i \in MarksAt(t, s) : i <= n - 1
        BY <1>1, <2>2, <4>1
      <4> QED
        BY <2>2, <4>1, <4>2
    <3> QED
      BY <3>1, <3>2
  <2> QED
    BY <1>4, <2>1, <2>2 DEF MarksLeft
<1>5. ASSUME TextLeft(c, w, r) PROVE TextLeft(t, w, v)
  <2>1. CASE EditsAt(c) = {} /\ r.text = w.text
    <3>1. EditsAt(t) = {}
      BY <1>1, <2>1
    <3> QED
      BY <2>1, <3>1 DEF TextLeft
  <2>2. ASSUME NEW n \in EditsAt(c), c[n].text = w.text, \A i \in EditsAt(c) : i <= n PROVE TextLeft(t, w, v)
    <3>1. n \in Nat /\ n - 1 \in EditsAt(t) /\ t[n - 1] = c[n]
      BY <1>1, <1>2, <2>2
    <3>2. \A i \in EditsAt(t) : i <= n - 1
      <4> TAKE i \in EditsAt(t)
      <4>1. i \in Nat /\ i + 1 \in EditsAt(c)
        BY <1>1
      <4>2. i + 1 <= n
        BY <2>2, <4>1
      <4> QED
        BY <3>1, <4>1, <4>2
    <3> QED
      BY <2>2, <3>1, <3>2 DEF TextLeft
  <2> QED
    BY <1>5, <2>1, <2>2 DEF TextLeft
<1> QED
  BY <1>4, <1>5

\* The first edit is written to a row v, which was r.
LEMMA LeftEdited ==
  ASSUME NEW c \in Seq(OpsType), c # <<>>, Head(c).kind = "edit", NEW w, NEW r, NEW v,
         v.marks = r.marks, v.text = c[1].text, NEW t, Behind(c, t)
  PROVE  /\ MarksLeft(c, w, r) => MarksLeft(t, w, v)
         /\ TextLeft(c, w, r) => TextLeft(t, w, v)
<1>1. /\ c[1] \in OpsType /\ Head(c) = c[1]
      /\ \A s : \A n \in MarksAt(c, s) : n \in Nat /\ (n = 1 \/ (n - 1 \in MarksAt(t, s) /\ t[n - 1] = c[n]))
      /\ \A s : \A n \in MarksAt(t, s) : n \in Nat /\ n >= 1 /\ n + 1 \in MarksAt(c, s)
      /\ \A n \in EditsAt(c) : n \in Nat /\ (n = 1 \/ (n - 1 \in EditsAt(t) /\ t[n - 1] = c[n]))
      /\ \A n \in EditsAt(t) : n \in Nat /\ n >= 1 /\ n + 1 \in EditsAt(c)
  BY PlacesShift
<1>2. 1 \in EditsAt(c) /\ \A s : 1 \notin MarksAt(c, s)
  BY <1>1, Shorter, QueueDomain DEF EditsAt, MarksAt
<1>4. ASSUME MarksLeft(c, w, r) PROVE MarksLeft(t, w, v)
  <2> SUFFICES ASSUME NEW s \in Senders
               PROVE  \/ MarksAt(t, s) = {} /\ v.marks[s] = w.marks[s]
                      \/ \E n \in MarksAt(t, s) : t[n].on = w.marks[s] /\ \A i \in MarksAt(t, s) : i <= n
    BY DEF MarksLeft
  <2>1. CASE MarksAt(c, s) = {} /\ r.marks[s] = w.marks[s]
    <3>1. MarksAt(t, s) = {}
      BY <1>1, <2>1
    <3> QED
      BY <2>1, <3>1
  <2>2. ASSUME NEW n \in MarksAt(c, s), c[n].on = w.marks[s], \A i \in MarksAt(c, s) : i <= n
        PROVE  \E k \in MarksAt(t, s) : t[k].on = w.marks[s] /\ \A i \in MarksAt(t, s) : i <= k
    <3>1. n \in Nat /\ n - 1 \in MarksAt(t, s) /\ t[n - 1] = c[n]
      BY <1>1, <1>2, <2>2
    <3>2. \A i \in MarksAt(t, s) : i <= n - 1
      BY <1>1, <2>2, <3>1
    <3> QED
      BY <2>2, <3>1, <3>2
  <2> QED
    BY <1>4, <2>1, <2>2 DEF MarksLeft
<1>5. ASSUME TextLeft(c, w, r) PROVE TextLeft(t, w, v)
  <2>1. PICK n \in EditsAt(c) : c[n].text = w.text /\ \A i \in EditsAt(c) : i <= n
    BY <1>2, <1>5 DEF TextLeft
  <2>2. CASE n = 1
    <3>1. \A i \in EditsAt(t) : FALSE
      BY <1>1, <2>1, <2>2
    <3> QED
      BY <2>1, <2>2, <3>1 DEF TextLeft
  <2>3. CASE n # 1
    <3>1. n \in Nat /\ n - 1 \in EditsAt(t) /\ t[n - 1] = c[n]
      BY <1>1, <2>1, <2>3
    <3>2. \A i \in EditsAt(t) : i <= n - 1
      BY <1>1, <2>1, <3>1
    <3> QED
      BY <2>1, <3>1, <3>2 DEF TextLeft
  <2> QED
    BY <2>2, <2>3
<1> QED
  BY <1>4, <1>5

\* The row changes otherwise: a receipt, a merge, a revoke.
LEMMA LeftRow ==
  ASSUME NEW c, NEW w, NEW r, NEW v, v.marks = r.marks
  PROVE  /\ MarksLeft(c, w, r) => MarksLeft(c, w, v)
         /\ v.text = r.text => (TextLeft(c, w, r) => TextLeft(c, w, v))
BY DEF MarksLeft, TextLeft

\* What a queue that nothing has read is laid on is the row.
LEMMA Bases ==
  /\ \A c, r : Base(c, r).text = r.text /\ (Ahead(c) => Base(c, r).marks = c[1].marks)
                                      /\ (~Ahead(c) => Base(c, r).marks = r.marks)
  /\ ~Ahead(<<>>)
BY DEF Base, Ahead

\* Another operation at the end changes nothing of it.
LEMMA AheadAppended ==
  ASSUME NEW c \in Seq(OpsType), NEW op \in Mutations
  PROVE  \A r : Base(Append(c, op), r) = Base(c, r)
<1>1. op \in OpsType /\ (op.kind = "reaction" => ~op.read)
  BY OpTypes
<1>2. /\ Len(c) \in Nat /\ Append(c, op) # <<>> /\ Append(c, op)[Len(c) + 1] = op
      /\ \A n \in 1..Len(c) : Append(c, op)[n] = c[n]
  BY <1>1, Longer, QueueDomain, EmptySeq
<1>3. c # <<>> => Append(c, op)[1] = c[1]
  BY <1>2, EmptySeq
<1>4. c = <<>> => Append(c, op)[1] = op
  BY <1>2
<1>5. Ahead(Append(c, op)) <=> Ahead(c)
  BY <1>1, <1>2, <1>3, <1>4 DEF Ahead
<1>6. Ahead(c) => Append(c, op)[1] = c[1]
  BY <1>3 DEF Ahead
<1> QED
  BY <1>5, <1>6 DEF Base

-----------------------------------------------------------------------------
(* Reactions and edits *)

\* The stored row of a message keeps its reactions and its text, or there was
\* none and it has neither, or it is merged into.
Kept(x)   == (Taken(x)' <=> Taken(x)) /\ (Taken(x) => Stored(x)'.marks = Stored(x).marks /\ Stored(x)'.text = Stored(x).text)
Opens(x)  == ~Taken(x) /\ Stored(x)'.marks = NoMarks /\ Stored(x)'.text = "first"
Merged(x) == /\ Taken(x) /\ Taken(x)' /\ Stored(x)'.text = Stored(x).text
             /\ Stored(x)'.marks = Stored(x).marks \/ Ahead(chain[x]) \/ <<x, "marks">> \in lost'
Rests(x)  == Kept(x) \/ Opens(x) \/ Merged(x)

\* Its payload is the one a waiting reaction has read.
Steady(x) ==
  Taken(x) => /\ Taken(x)'
              /\ Ahead(chain[x]) => \/ Stored(x)'.payload = Stored(x).payload
                                    \/ <<x, "payload">> \in lost'
                                    \/ ~Stored(x)'.payload /\ x \notin Media

LEMMA SetIs ==
  ASSUME Typed, NEW m \in Msgs, Taken(m), NEW r \in RowType, SetStored(m, r), r.wa
  PROVE  Stored(m)' = r /\ Taken(m)' /\ \A x \in Msgs \ {m} : Kept(x) /\ Steady(x)
<1>0. own \in [Msgs -> RowType] /\ event \in [Msgs -> RowType]
  BY Maps
<1>1. CASE own[m].wa
  <2>1. own' = [own EXCEPT ![m] = r] /\ event' = event
    BY <1>1 DEF SetStored
  <2> QED
    BY <1>0, <1>1, <2>1 DEF Stored, Taken, Kept, Steady
<1>2. CASE ~own[m].wa
  <2>1. event' = [event EXCEPT ![m] = r] /\ own' = own
    BY <1>2 DEF SetStored
  <2> QED
    BY <1>0, <1>2, <2>1 DEF Stored, Taken, Kept, Steady
<1> QED
  BY <1>1, <1>2

LEMMA SameIsKept == ASSUME UNCHANGED rows PROVE \A x : Kept(x) /\ Steady(x)
BY DEF rows, Kept, Steady, Taken, Stored

LEMMA QueuedStays ==
  ASSUME Typed, NEW m \in Touched, Queued(m), Rests(m), lost \subseteq lost',
         chain'[m] = chain[m], wanted'[m] = wanted[m], m \in revoked => m \in revoked'
  PROVE  Queued(m)'
<1>1. CASE Kept(m) \/ Merged(m)
  <2>1. CASE ~Taken(m)
    BY <1>1, <2>1 DEF Kept, Merged, Queued
  <2>2. CASE Taken(m)
    <3>1. PICK c, w, r, v : c = chain[m] /\ w = wanted[m] /\ r = Stored(m) /\ v = Stored(m)'
      OBVIOUS
    <3>2. Taken(m)' /\ v.text = r.text /\ (v.marks = r.marks \/ Ahead(c) \/ <<m, "marks">> \in lost')
      BY <1>1, <2>2, <3>1 DEF Kept, Merged
    <3>3. Base(c, v).text = Base(c, r).text /\ (<<m, "marks">> \in lost' \/ Base(c, v).marks = Base(c, r).marks)
      BY <3>2, Bases
    <3>4. /\ <<m, "marks">> \in lost' \/ (MarksLeft(c, w, Base(c, r)) => MarksLeft(c, w, Base(c, v)))
          /\ TextLeft(c, w, Base(c, r)) => TextLeft(c, w, Base(c, v))
      BY <3>3 DEF MarksLeft, TextLeft
    <3>5. /\ <<m, "marks">> \in lost \/ MarksLeft(c, w, Base(c, r))
          /\ m \in revoked \/ TextLeft(c, w, Base(c, r))
      BY <2>2, <3>1 DEF Queued
    <3>6. /\ <<m, "marks">> \in lost' \/ MarksLeft(c, w, Base(c, v))
          /\ m \in revoked' \/ TextLeft(c, w, Base(c, v))
      BY <3>4, <3>5
    <3> QED
      BY <3>1, <3>2, <3>6 DEF Queued
  <2> QED
    BY <2>1, <2>2
<1>2. CASE Opens(m)
  <2>1. chain[m] = <<>> /\ wanted[m].marks = NoMarks /\ wanted[m].text = "first"
    BY <1>2 DEF Opens, Queued
  <2>2. PICK v : v = Stored(m)'
    OBVIOUS
  <2>3. Base(<<>>, v).marks = NoMarks /\ Base(<<>>, v).text = "first"
    BY <1>2, <2>2, Bases DEF Opens
  <2>4. MarksLeft(<<>>, wanted[m], Base(<<>>, v)) /\ TextLeft(<<>>, wanted[m], Base(<<>>, v))
    BY <2>1, <2>3, LeftEmpty
  <2>5. Taken(m)' => /\ MarksLeft(chain'[m], wanted'[m], Base(chain'[m], Stored(m)'))
                     /\ TextLeft(chain'[m], wanted'[m], Base(chain'[m], Stored(m)'))
    BY <2>1, <2>2, <2>4
  <2> QED
    BY <2>1, <2>5 DEF Queued
<1> QED
  BY <1>1, <1>2 DEF Rests

(* Steps that leave the queues alone, and a step of one message's. *)
LEMMA QueuesRest ==
  ASSUME Typed, Queues, ~deleted, UNCHANGED <<wanted, revoked, early>>, hurt \subseteq hurt', lost \subseteq lost',
         \A x \in Touched : x \in hurt' \/ chain'[x] = chain[x], \A x \in Touched : Rests(x)
  PROVE  Queues'
<1> SUFFICES ASSUME NEW x \in Touched \ (hurt' \cup early') PROVE Queued(x)'
  BY DEF Queues
<1>1. Queued(x) /\ chain'[x] = chain[x] /\ wanted'[x] = wanted[x] /\ revoked' = revoked /\ Rests(x)
  BY DEF Queues
<1> QED
  BY <1>1, QueuedStays

LEMMA QueuesOne ==
  ASSUME Typed, Queues, ~deleted, NEW m, hurt \subseteq hurt', early \subseteq early', lost \subseteq lost',
         \A x \in Touched \ {m} : chain'[x] = chain[x] /\ wanted'[x] = wanted[x] /\ Kept(x),
         revoked \subseteq revoked', m \in hurt' \cup early' \/ m \notin Touched \/ Queued(m)'
  PROVE  Queues'
<1> SUFFICES ASSUME NEW x \in Touched \ (hurt' \cup early') PROVE Queued(x)'
  BY DEF Queues
<1>1. CASE x = m
  BY <1>1
<1>2. CASE x # m
  <2>1. Queued(x) /\ chain'[x] = chain[x] /\ wanted'[x] = wanted[x] /\ (x \in revoked => x \in revoked') /\ Rests(x)
    BY <1>2 DEF Queues, Rests
  <2> QED
    BY <2>1, QueuedStays
<1> QED
  BY <1>1, <1>2

LEMMA QueuesArrive ==
  ASSUME Typed, Queues, ~deleted, NEW m \in Touched, NEW op \in Mutations, MutationArrives(m, op)
  PROVE  Queues'
<1>0. m \in Msgs /\ Touched \subseteq Msgs /\ chain \in [Msgs -> Seq(OpsType)] /\ chain[m] \in Seq(OpsType)
      /\ wanted \in [Msgs -> [marks : MarkType, text : Texts]] /\ wanted[m] \in [marks : MarkType, text : Texts]
  BY Maps, Sorts
<1>1. /\ chain' = [chain EXCEPT ![m] = Append(chain[m], op)]
      /\ wanted' = IF op.kind = "edit" THEN [wanted EXCEPT ![m].text = op.text] ELSE [wanted EXCEPT ![m].marks[op.who] = op.on]
      /\ early' = IF Taken(m) THEN early ELSE early \cup {m}
      /\ UNCHANGED <<rows, revoked, lost, deleted, hurt>>
  BY DEF MutationArrives, Enqueue, life
<1>2. \A x \in Touched \ {m} : chain'[x] = chain[x] /\ wanted'[x] = wanted[x] /\ Kept(x)
  <2>1. \A x \in Touched : Kept(x)
    BY <1>1, SameIsKept
  <2> QED
    BY <1>0, <1>1, <2>1
<1>3. ASSUME m \notin hurt' \cup early' PROVE Queued(m)'
  <2>1. Taken(m) /\ Queued(m) /\ Taken(m)' /\ Stored(m)' = Stored(m)
    BY <1>1, <1>3 DEF Queues, rows, Taken, Stored
  <2>2. PICK v : v = IF op.kind = "edit" THEN [wanted[m] EXCEPT !.text = op.text] ELSE [wanted[m] EXCEPT !.marks[op.who] = op.on]
    OBVIOUS
  <2>3. wanted'[m] = v /\ chain'[m] = Append(chain[m], op)
    BY <1>0, <1>1, <2>2
  <2>4. PICK b : b = Base(chain[m], Stored(m))
    OBVIOUS
  <2>5. /\ MarksLeft(chain[m], wanted[m], b) => MarksLeft(Append(chain[m], op), v, b)
        /\ TextLeft(chain[m], wanted[m], b) => TextLeft(Append(chain[m], op), v, b)
    BY <1>0, <2>2, LeftAppended
  <2>6. Base(Append(chain[m], op), Stored(m)) = b
    BY <1>0, <2>4, AheadAppended
  <2> QED
    BY <1>1, <2>1, <2>3, <2>4, <2>5, <2>6 DEF Queued
<1> QED
  BY <1>1, <1>2, <1>3, QueuesOne

\* Only the first operation of a queue has read anything.
LEMMA TailUnread ==
  ASSUME NEW c \in Seq(OpsType), c # <<>>, \A n \in DOMAIN c : c[n].kind = "reaction" /\ c[n].read => n = 1,
         NEW t, Behind(c, t)
  PROVE  ~Ahead(t) /\ \A n \in DOMAIN t : ~(t[n].kind = "reaction" /\ t[n].read)
<1>1. /\ t \in Seq(OpsType) /\ Len(c) \in Nat \ {0} /\ Len(t) = Len(c) - 1
      /\ \A n \in 1..Len(c) - 1 : t[n] = c[n + 1]
  BY Shorter DEF Behind
<1>2. DOMAIN c = 1..Len(c) /\ DOMAIN t = 1..(Len(c) - 1)
  BY <1>1, QueueDomain
<1>3. \A n \in DOMAIN t : n + 1 \in DOMAIN c /\ n + 1 # 1 /\ t[n] = c[n + 1]
  BY <1>1, <1>2
<1>4. \A n \in DOMAIN t : ~(t[n].kind = "reaction" /\ t[n].read)
  BY <1>3
<1>5. t # <<>> => 1 \in DOMAIN t
  BY <1>1, <1>2, EmptySeq
<1> QED
  BY <1>4, <1>5 DEF Ahead

\* The first operation of m's queue is done, on a row or on none.
LEMMA QueuesServe ==
  ASSUME Typed, Shape, Queues, Carries, ~deleted, NEW m \in Touched, WriteReactions(m) \/ ApplyEdit(m)
  PROVE  Queues'
<1>0. m \in Msgs /\ Touched \subseteq Msgs /\ chain \in [Msgs -> Seq(OpsType)] /\ chain[m] \in Seq(OpsType)
  BY Maps, Sorts
<1>1. PICK t, b : t = Tail(chain[m]) /\ b = Base(chain[m], Stored(m))
  OBVIOUS
<1>2. /\ chain[m] # <<>> /\ chain' = [chain EXCEPT ![m] = t] /\ chain'[m] = t /\ Behind(chain[m], t)
      /\ UNCHANGED <<wanted, revoked, early, lost, deleted>> /\ hurt \subseteq hurt'
  BY <1>0, <1>1 DEF WriteReactions, ApplyEdit, Dequeue, DbFails, life, Behind
<1>3. chain[m][1] \in OpsType /\ Head(chain[m]) = chain[m][1]
  BY <1>0, <1>2, Shorter
<1>4. \A x \in Touched \ {m} : chain'[x] = chain[x] /\ wanted'[x] = wanted[x]
  BY <1>0, <1>2
<1>5. ASSUME m \notin hurt' \cup early' PROVE Queued(m) /\ Taken(m)
  BY <1>2, <1>5 DEF Queues, Queued
<1>6. CASE UNCHANGED rows /\ (m \in hurt' \/ ~Taken(m))
  <2>1. \A x \in Touched : Kept(x)
    BY <1>6, SameIsKept
  <2> QED
    BY <1>2, <1>4, <1>5, <1>6, <2>1, QueuesOne
<1>7. ASSUME Taken(m), NEW v \in RowType, SetStored(m, v), v.wa,
             /\ MarksLeft(chain[m], wanted[m], b) => MarksLeft(t, wanted[m], v)
             /\ TextLeft(chain[m], wanted[m], b) => TextLeft(t, wanted[m], v)
      PROVE  Queues'
  <2>1. Stored(m)' = v /\ Taken(m)' /\ \A x \in Msgs \ {m} : Kept(x)
    BY <1>0, <1>7, SetIs
  <2>2. ~Ahead(t)
    <3>1. \A n \in DOMAIN chain[m] : chain[m][n].kind = "reaction" /\ chain[m][n].read => n = 1
      BY DEF Carries, Carried
    <3> QED
      BY <1>0, <1>2, <3>1, TailUnread
  <2>3. Base(t, v).marks = v.marks /\ Base(t, v).text = v.text
    BY <2>2, Bases
  <2>4. /\ MarksLeft(t, wanted[m], v) => MarksLeft(t, wanted[m], Base(t, v))
        /\ TextLeft(t, wanted[m], v) => TextLeft(t, wanted[m], Base(t, v))
    BY <2>3, LeftRow
  <2>5. m \in hurt' \cup early' \/ Queued(m)'
    BY <1>1, <1>2, <1>5, <1>7, <2>1, <2>4 DEF Queued
  <2> QED
    BY <1>0, <1>2, <1>4, <2>1, <2>5, QueuesOne
<1>8. CASE WriteReactions(m)
  <2>1. chain[m][1].kind = "reaction" /\ chain[m][1].read /\ Head(chain[m]).kind = "reaction"
    BY <1>3, <1>8 DEF WriteReactions
  <2>2. CASE Taken(m) /\ SetStored(m, [Stored(m) EXCEPT !.marks = [chain[m][1].marks EXCEPT ![chain[m][1].who] = chain[m][1].on],
                                                        !.payload = chain[m][1].payload])
    <3>1. Stored(m) \in RowType /\ Stored(m).wa
      BY <1>0, <2>2, StoredStatus
    <3>2. PICK k : k = [chain[m][1].marks EXCEPT ![chain[m][1].who] = chain[m][1].on]
      OBVIOUS
    <3>3. k \in MarkType /\ chain[m][1].marks \in MarkType /\ chain[m][1].payload \in BOOLEAN
      BY <1>3, <2>1, <3>2, OpTypes DEF MarkType
    <3>4. PICK v : v = [Stored(m) EXCEPT !.marks = k, !.payload = chain[m][1].payload]
      OBVIOUS
    <3>5. v \in RowType /\ v.wa = Stored(m).wa /\ v.marks = k /\ v.text = Stored(m).text
      BY <3>1, <3>3, <3>4 DEF RowType, MarkType
    <3>6. SetStored(m, v)
      BY <2>2, <3>2, <3>4
    <3>7. b.marks = chain[m][1].marks /\ b.text = Stored(m).text
      BY <1>1, <1>2, <2>1, Bases DEF Ahead
    <3>8. /\ MarksLeft(chain[m], wanted[m], b) => MarksLeft(t, wanted[m], v)
          /\ TextLeft(chain[m], wanted[m], b) => TextLeft(t, wanted[m], v)
      BY <1>0, <1>2, <2>1, <3>2, <3>3, <3>5, <3>7, LeftWritten
    <3> QED
      BY <1>7, <2>2, <3>1, <3>5, <3>6, <3>8
  <2> QED
    BY <1>3, <1>6, <1>8, <2>2 DEF WriteReactions, DbFails
<1>9. CASE ApplyEdit(m)
  <2>1. chain[m][1].kind = "edit" /\ Head(chain[m]).kind = "edit" /\ chain[m][1].text \in Texts
    BY <1>3, <1>9, OpTypes DEF ApplyEdit, Texts
  <2>2. CASE Taken(m) /\ SetStored(m, [Stored(m) EXCEPT !.text = chain[m][1].text])
    <3>1. Stored(m) \in RowType /\ Stored(m).wa
      BY <1>0, <2>2, StoredStatus
    <3>2. PICK v : v = [Stored(m) EXCEPT !.text = chain[m][1].text]
      OBVIOUS
    <3>3. v \in RowType /\ v.wa = Stored(m).wa /\ v.marks = Stored(m).marks /\ v.text = chain[m][1].text
      BY <2>1, <3>1, <3>2 DEF RowType
    <3>4. SetStored(m, v)
      BY <2>2, <3>2
    <3>5. b.marks = v.marks
      BY <1>1, <2>1, <3>3, Bases DEF Ahead
    <3>6. /\ MarksLeft(chain[m], wanted[m], b) => MarksLeft(t, wanted[m], v)
          /\ TextLeft(chain[m], wanted[m], b) => TextLeft(t, wanted[m], v)
      BY <1>0, <1>2, <2>1, <3>3, <3>5, LeftEdited
    <3> QED
      BY <1>7, <2>2, <3>1, <3>3, <3>4, <3>6
  <2> QED
    BY <1>3, <1>6, <1>9, <2>2 DEF ApplyEdit, DbFails
<1> QED
  BY <1>8, <1>9

LEMMA QueuesRead ==
  ASSUME Typed, Shape, Queues, ~deleted, NEW m \in Touched, ReadReactions(m)
  PROVE  Queues'
<1>0. m \in Msgs /\ Touched \subseteq Msgs /\ chain \in [Msgs -> Seq(OpsType)] /\ chain[m] \in Seq(OpsType)
  BY Maps, Sorts
<1>1. /\ chain[m] # <<>> /\ Head(chain[m]).kind = "reaction" /\ ~Head(chain[m]).read
      /\ UNCHANGED <<rows, wanted, revoked, early, lost, deleted>> /\ hurt \subseteq hurt'
      /\ \/ ~Taken(m) \/ m \in hurt'
         \/ Taken(m) /\ chain' = [chain EXCEPT ![m][1].read = TRUE, ![m][1].marks = Stored(m).marks,
                                               ![m][1].payload = Stored(m).payload]
  BY DEF ReadReactions, DbFails, life
<1>2. \A x \in Touched \ {m} : chain'[x] = chain[x] /\ wanted'[x] = wanted[x] /\ Kept(x)
  <2>1. \A x \in Touched : Kept(x)
    BY <1>1, SameIsKept
  <2>2. \A x \in Touched \ {m} : chain'[x] = chain[x]
    BY <1>0 DEF ReadReactions, Dequeue
  <2> QED
    BY <1>1, <2>1, <2>2
<1>3. ASSUME m \notin hurt' \cup early' PROVE Queued(m)'
  <2>1. Taken(m) /\ Queued(m) /\ Taken(m)' /\ Stored(m)' = Stored(m)
    BY <1>1, <1>3 DEF Queues, Queued, rows, Taken, Stored
  <2>2. Stored(m).marks \in MarkType /\ Stored(m).payload \in BOOLEAN
    BY <1>0, <2>1, StoredStatus, RowUpdates
  <2>3. PICK c, k, l : c = chain[m] /\ k = Stored(m).marks /\ l = Stored(m).payload
    OBVIOUS
  <2>4. c \in Seq(OpsType) /\ c # <<>> /\ Head(c).kind = "reaction" /\ k \in MarkType /\ l \in BOOLEAN /\ ~Ahead(c)
    BY <1>0, <1>1, <2>2, <2>3, Shorter DEF Ahead
  <2>5. PICK d : d = ReadAs(c, k, l)
    OBVIOUS
  <2>6. /\ d \in Seq(OpsType) /\ Len(d) = Len(c) /\ d[1].kind = "reaction" /\ d[1].who = c[1].who /\ d # <<>>
        /\ d[1].on = c[1].on /\ d[1].marks = k /\ d[1].read /\ \A n \in 2..Len(c) : d[n] = c[n]
    BY <2>4, <2>5, ReadIs
  <2>7. chain'[m] = d
    <3>1. chain' = [chain EXCEPT ![m][1].read = TRUE, ![m][1].marks = Stored(m).marks,
                                 ![m][1].payload = Stored(m).payload]
      BY <1>1, <1>3, <2>1
    <3> QED
      BY <1>0, <2>3, <2>5, <3>1 DEF ReadAs
  <2>8. PICK b, e : b = Base(c, Stored(m)) /\ e = Base(d, Stored(m))
    OBVIOUS
  <2>9. e.marks = b.marks /\ e.text = b.text
    <3>1. Ahead(d)
      BY <2>6 DEF Ahead
    <3> QED
      BY <2>3, <2>4, <2>6, <2>8, <3>1, Bases
  <2>10. /\ MarksLeft(c, wanted[m], b) => MarksLeft(d, wanted[m], b)
         /\ TextLeft(c, wanted[m], b) => TextLeft(d, wanted[m], b)
    BY <2>4, <2>6, LeftRead
  <2>11. /\ MarksLeft(d, wanted[m], b) => MarksLeft(d, wanted[m], e)
         /\ TextLeft(d, wanted[m], b) => TextLeft(d, wanted[m], e)
    BY <2>9, LeftRow
  <2> QED
    BY <1>1, <2>1, <2>3, <2>7, <2>8, <2>10, <2>11 DEF Queued
<1> QED
  BY <1>1, <1>2, <1>3, QueuesOne

LEMMA QueuesRevoke ==
  ASSUME Typed, Shape, Queues, ~deleted, NEW m \in Msgs, Revoke(m)
  PROVE  Queues'
<1>0. Touched \subseteq Msgs
  BY Sorts
<1>1. /\ UNCHANGED <<chain, wanted, early, lost, deleted>> /\ revoked' = revoked \cup {m} /\ hurt \subseteq hurt'
      /\ UNCHANGED rows \/ (Taken(m) /\ SetStored(m, [Stored(m) EXCEPT !.text = ""]))
  BY DEF Revoke, DbFails, life
<1>2. CASE UNCHANGED rows
  <2>1. \A x \in Touched : Kept(x) /\ Rests(x)
    BY <1>2, SameIsKept DEF Rests
  <2>2. m \in hurt' \cup early' \/ m \notin Touched \/ Queued(m)'
    BY <1>1, <2>1, QueuedStays DEF Queues
  <2> QED
    BY <1>1, <2>1, <2>2, QueuesOne
<1>3. CASE Taken(m) /\ SetStored(m, [Stored(m) EXCEPT !.text = ""])
  <2>1. Stored(m) \in RowType /\ Stored(m).wa /\ "" \in Texts
    BY <1>3, StoredStatus DEF Texts
  <2>2. PICK v : v = [Stored(m) EXCEPT !.text = ""]
    OBVIOUS
  <2>3. v \in RowType /\ v.wa = Stored(m).wa /\ v.marks = Stored(m).marks
    BY <2>1, <2>2 DEF RowType
  <2>4. Stored(m)' = v /\ Taken(m)' /\ \A x \in Msgs \ {m} : Kept(x)
    BY <1>3, <2>1, <2>2, <2>3, SetIs
  <2>5. PICK c, b, e : c = chain[m] /\ b = Base(c, Stored(m)) /\ e = Base(c, v)
    OBVIOUS
  <2>6. e.marks = b.marks
    BY <2>3, <2>5, Bases
  <2>7. MarksLeft(c, wanted[m], b) => MarksLeft(c, wanted[m], e)
    BY <2>6, LeftRow
  <2>8. m \in hurt' \cup early' \/ m \notin Touched \/ Queued(m)'
    BY <1>1, <1>3, <2>4, <2>5, <2>7 DEF Queues, Queued
  <2> QED
    BY <1>0, <1>1, <2>4, <2>8, QueuesOne
<1> QED
  BY <1>1, <1>2, <1>3

(* A send's own row has no id until the call ends. *)
LEMMA KeptSend ==
  ASSUME Typed, Shape, NEW m \in Sends, Send(m)
  PROVE  (\A x \in Msgs : Rests(x) /\ Advances(x) /\ Steady(x)) /\ lost \subseteq lost'
<1>0. own \in [Msgs -> RowType] /\ event \in [Msgs -> RowType] /\ m \in Msgs /\ own[m] \in RowType
  BY Maps, Sorts
<1>1. pc[m] # "over"
  BY DEF Send, Request, Gate, FindSession, FindUser, Reserve, Insert, Undo, EngineAnswers, SaveSent, Merge, Drop, AnnounceSurvivor, SaveFailed, Release
<1>2. ~own[m].wa /\ (Exists(own[m]) => own[m].marks = NoMarks /\ own[m].text = "first")
  BY <1>0, <1>1 DEF Shape
<1>3. ASSUME event' = event, \A x \in Msgs \ {m} : own'[x] = own[x], ~own'[m].wa
      PROVE  \A x \in Msgs : Rests(x) /\ Advances(x) /\ Steady(x)
  <2>1. \A x \in Msgs : (Taken(x)' <=> Taken(x)) /\ (Taken(x) => Stored(x)' = Stored(x))
    BY <1>0, <1>2, <1>3 DEF Taken, Stored
  <2>2. \A x \in Msgs : Taken(x) => Stored(x).status \in Statuses
    BY StoredStatus DEF RowType
  <2> QED
    BY <2>1, <2>2, StayIsAfter DEF Rests, Kept, Advances, Steady
<1>4. ASSUME UNCHANGED rows PROVE \A x \in Msgs : Rests(x) /\ Advances(x) /\ Steady(x)
  <2>1. \A x \in Msgs : Rests(x) /\ Steady(x)
    BY <1>4, SameIsKept DEF Rests
  <2>2. \A x \in Msgs : Advances(x)
    BY <1>4, SameIsLike DEF Like
  <2> QED
    BY <2>1, <2>2
<1>5. CASE Insert(m)
  <2>1. (own' = [own EXCEPT ![m] = PendingRow(m)] /\ UNCHANGED event) \/ UNCHANGED rows
    BY <1>5 DEF Insert, rows
  <2>2. PendingRow(m).wa = FALSE
    BY RowTypes
  <2> QED
    BY <1>0, <1>3, <1>4, <1>5, <2>1, <2>2 DEF Insert, muts
<1>6. CASE SaveSent(m)
  <2>0. lost' = lost
    BY <1>6 DEF SaveSent, muts
  <2>1. \/ UNCHANGED rows
        \/ own' = [own EXCEPT ![m] = SentRow(m)] /\ UNCHANGED event /\ (m \in nameless \/ ~event[m].wa)
    BY <1>6 DEF SaveSent, rows
  <2>2. (SentRow(m).wa <=> m \notin nameless) /\ SentRow(m).marks = NoMarks /\ SentRow(m).text = "first"
    BY <1>0, <1>2, SentRowIs, RowTypes
  <2>3. CASE own' = [own EXCEPT ![m] = SentRow(m)] /\ UNCHANGED event /\ m \in nameless
    BY <1>0, <1>3, <2>0, <2>2, <2>3
  <2>4. CASE own' = [own EXCEPT ![m] = SentRow(m)] /\ UNCHANGED event /\ m \notin nameless /\ ~event[m].wa
    <3>1. own'[m] = SentRow(m) /\ \A x \in Msgs \ {m} : own'[x] = own[x]
      BY <1>0, <2>4
    <3>2. Opens(m)
      BY <1>2, <2>2, <2>4, <3>1 DEF Opens, Taken, Stored
    <3>3. \A x \in Msgs \ {m} : (Taken(x)' <=> Taken(x)) /\ Stored(x)' = Stored(x)
      BY <2>4, <3>1 DEF Taken, Stored
    <3>4. \A x \in Msgs : Taken(x) => Stored(x).status \in Statuses
      BY StoredStatus DEF RowType
    <3>5. \A x \in Msgs \ {m} : Rests(x) /\ Advances(x) /\ Steady(x)
      BY <3>3, <3>4, StayIsAfter DEF Rests, Kept, Advances, Steady
    <3>6. Rests(m) /\ Advances(m) /\ Steady(m)
      BY <3>2 DEF Rests, Opens, Advances, Steady
    <3> QED
      BY <2>0, <3>5, <3>6
  <2> QED
    BY <1>4, <2>0, <2>1, <2>3, <2>4
<1>7. CASE Merge(m)
  <2>1. (\A x \in Msgs \ {m} : event'[x] = event[x]) /\ own' = own /\ pc[m] = "merge" /\ lost \subseteq lost'
    BY <1>7, MergedIs DEF Merge
  <2>2. \/ event'[m] = event[m]
        \/ /\ event[m].wa /\ event'[m].wa /\ event'[m].text = event[m].text
           /\ (event'[m].payload <=> m \in Media) /\ event'[m].payload \in BOOLEAN
           /\ event'[m].marks = IF m \in Media \cup Replies THEN NoMarks ELSE event[m].marks
           /\ lost' = lost \cup Overwritten(m)
    <3>1. event' \in [Msgs -> RowType]
      BY <1>7, MergedIs DEF RowMap
    <3> QED
      BY <1>0, <1>7, <3>1, MergedIs, RowUpdates
  <2>3. \A x \in Msgs \ {m} : (Taken(x)' <=> Taken(x)) /\ Stored(x)' = Stored(x)
    BY <2>1 DEF Taken, Stored
  <2>4. \A x \in Msgs : Taken(x) => Stored(x).status \in Statuses
    BY StoredStatus DEF RowType
  <2>5. \A x \in Msgs : Advances(x)
    BY <2>1, <2>3, <2>4, StayIsAfter DEF Advances
  <2>6. \A x \in Msgs \ {m} : Rests(x) /\ Steady(x)
    BY <2>3 DEF Rests, Kept, Steady
  <2>7. CASE event'[m] = event[m]
    <3>1. (Taken(m)' <=> Taken(m)) /\ Stored(m)' = Stored(m)
      BY <2>1, <2>7 DEF Taken, Stored
    <3> QED
      BY <2>1, <2>5, <2>6, <3>1 DEF Rests, Kept, Steady
  <2>8. CASE /\ event[m].wa /\ event'[m].wa /\ event'[m].text = event[m].text
             /\ (event'[m].payload <=> m \in Media)
             /\ event'[m].marks = IF m \in Media \cup Replies THEN NoMarks ELSE event[m].marks
             /\ lost' = lost \cup Overwritten(m)
    <3>1. Taken(m) /\ Taken(m)' /\ Stored(m) = event[m] /\ Stored(m)' = event'[m]
      BY <1>2, <2>1, <2>8 DEF Taken, Stored
    <3>2. Ahead(chain[m]) <=> (chain[m] # <<>> /\ Head(chain[m]).kind = "reaction" /\ Head(chain[m]).read)
      <4>1. chain[m] \in Seq(OpsType)
        BY <1>0, Puts
      <4> QED
        BY <4>1, Shorter DEF Ahead
    <3>3. Ahead(chain[m]) /\ m \in Media => <<m, "payload">> \in lost'
      BY <2>8, <3>2 DEF Overwritten
    <3>4. ~Ahead(chain[m]) /\ m \in Media \cup Replies /\ event[m].marks # NoMarks => <<m, "marks">> \in lost'
      BY <2>8, <3>2 DEF Overwritten
    <3>5. Steady(m)
      BY <2>8, <3>1, <3>3 DEF Steady
    <3>6. Merged(m)
      BY <2>8, <3>1, <3>4 DEF Merged
    <3> QED
      BY <2>1, <2>5, <2>6, <3>5, <3>6 DEF Rests
  <2> QED
    BY <2>2, <2>7, <2>8
<1>8. CASE Drop(m)
  <2>1. (own' = [own EXCEPT ![m] = NoRow] /\ UNCHANGED event) \/ UNCHANGED rows
    BY <1>8 DEF Drop, rows
  <2>2. NoRow.wa = FALSE
    BY RowTypes
  <2> QED
    BY <1>0, <1>3, <1>4, <1>8, <2>1, <2>2 DEF Drop, muts
<1>9. CASE SaveFailed(m)
  <2>1. event' = event /\ (\A x \in Msgs \ {m} : own'[x] = own[x]) /\ ~own'[m].wa /\ lost' = lost
    BY <1>2, <1>9, FailedIs DEF SaveFailed, muts
  <2> QED
    BY <1>3, <2>1
<1>10. CASE Request(m) \/ Gate(m) \/ FindSession(m) \/ FindUser(m) \/ Reserve(m) \/ Undo(m) \/ EngineAnswers(m) \/ AnnounceSurvivor(m) \/ Release(m)
  <2>1. UNCHANGED rows /\ lost' = lost
    BY <1>10 DEF Request, Gate, FindSession, FindUser, Reserve, Undo, EngineAnswers, AnnounceSurvivor, Release, muts
  <2> QED
    BY <1>4, <2>1
<1> QED
  BY <1>5, <1>6, <1>7, <1>8, <1>9, <1>10 DEF Send

LEMMA OpensStores ==
  ASSUME Typed, NEW m \in Msgs, ~Taken(m), event' = [event EXCEPT ![m] = EventRow], UNCHANGED own
  PROVE  \A x \in Msgs : Rests(x) /\ Steady(x)
<1>0. /\ event \in [Msgs -> RowType]
      /\ EventRow.marks = NoMarks /\ EventRow.text = "first"
  BY Maps, RowTypes
<1>1. Opens(m) /\ Steady(m)
  BY <1>0 DEF Opens, Steady, Taken, Stored
<1>2. \A x \in Msgs \ {m} : Kept(x) /\ Steady(x)
  BY <1>0 DEF Kept, Steady, Taken, Stored
<1> QED
  BY <1>1, <1>2 DEF Rests

LEMMA KeptAdvance == ASSUME Typed, Shape, NEW a \in acks, Advance(a) PROVE \A x \in Msgs : Rests(x) /\ Steady(x)
<1>0. a.msg \in Msgs /\ a.to \in Statuses
  BY Sorts DEF Typed, AckType, Receipts, Statuses
<1>1. CASE UNCHANGED rows
  BY <1>1, SameIsKept DEF Rests
<1>2. CASE Taken(a.msg) /\ SetStored(a.msg, [Stored(a.msg) EXCEPT !.status = a.to])
  <2>1. Stored(a.msg) \in RowType /\ Stored(a.msg).wa
    BY <1>0, <1>2, StoredStatus
  <2>2. PICK v : v = [Stored(a.msg) EXCEPT !.status = a.to]
    OBVIOUS
  <2>3. v \in RowType /\ v.wa = Stored(a.msg).wa /\ v.marks = Stored(a.msg).marks /\ v.text = Stored(a.msg).text
        /\ v.payload = Stored(a.msg).payload
    BY <1>0, <2>1, <2>2 DEF RowType
  <2>4. Stored(a.msg)' = v /\ Taken(a.msg)' /\ \A x \in Msgs \ {a.msg} : Kept(x) /\ Steady(x)
    BY <1>0, <1>2, <2>1, <2>2, <2>3, SetIs
  <2>5. Kept(a.msg) /\ Steady(a.msg)
    BY <1>2, <2>3, <2>4 DEF Kept, Steady
  <2> QED
    BY <2>4, <2>5 DEF Rests
<1> QED
  BY <1>1, <1>2 DEF Advance

LEMMA ReapKept ==
  ASSUME Typed, Shape, NEW m \in Sends, Reap(m)
  PROVE  \A x \in Msgs : Rests(x) /\ Advances(x) /\ Steady(x)
<1>0. /\ own \in [Msgs -> RowType] /\ m \in Msgs /\ event' = event
      /\ \A x \in Msgs \ {m} : own'[x] = own[x]
      /\ own'[m] = own[m] \/ (own[m].status = "pending" /\ own'[m].wa = own[m].wa)
  BY Maps, Sorts, ReapIs DEF Reap
<1>1. own'[m] = own[m] \/ (~own[m].wa /\ ~own'[m].wa)
  BY <1>0 DEF Shape
<1>2. \A x \in Msgs : (Taken(x)' <=> Taken(x)) /\ Stored(x)' = Stored(x)
  BY <1>0, <1>1 DEF Taken, Stored
<1>3. \A x \in Msgs : Taken(x) => Stored(x).status \in Statuses
  BY StoredStatus DEF RowType
<1> QED
  BY <1>2, <1>3, StayIsAfter DEF Rests, Kept, Advances, Steady

LEMMA QueuesStep == ASSUME Typed, Shape, Failures, Queues, Carries, [Next]_vars PROVE Queues'
<1>0. Touched \subseteq Msgs /\ \A m \in Touched : Ops[m] \subseteq Mutations
  BY Sorts
<1>1. SUFFICES ASSUME ~deleted PROVE Queues'
  BY DeletedStays DEF Queues
<1>2. CASE UNCHANGED <<muts, rows>> /\ hurt \subseteq hurt'
  <2>1. \A x \in Touched : Rests(x)
    BY <1>2, SameIsKept DEF Rests
  <2> QED
    BY <1>1, <1>2, <2>1, QueuesRest DEF muts
<1>3. CASE UNCHANGED <<chain, wanted, revoked, early>> /\ lost \subseteq lost' /\ hurt \subseteq hurt' /\ \A x \in Touched : Rests(x)
  BY <1>1, <1>3, QueuesRest
<1>4. ASSUME NEW m \in Sends, Send(m) PROVE Queues'
  <2>1. UNCHANGED <<chain, wanted, revoked, early>> /\ hurt \subseteq hurt'
    BY <1>4 DEF Send, Request, Gate, FindSession, FindUser, Reserve, Insert, Undo, EngineAnswers, SaveSent, Merge, Drop, AnnounceSurvivor, SaveFailed,
       Release, ReturnReservation, DbFails, muts
  <2>2. (\A x \in Touched : Rests(x)) /\ lost \subseteq lost'
    BY <1>0, <1>4, KeptSend
  <2> QED
    BY <1>3, <2>1, <2>2
<1>5. ASSUME NEW e \in Reports, Report(e) \/ Project(e) \/ FanOut(e) PROVE Queues'
  <2>1. UNCHANGED <<muts, own>> /\ hurt \subseteq hurt' /\ Of[e] \in Msgs
    BY <1>5, Sorts DEF Report, Project, FanOut, DbFails, rows
  <2>2. event' = event \/ (~Taken(Of[e]) /\ event' = [event EXCEPT ![Of[e]] = EventRow])
    BY <1>5 DEF Report, Project, FanOut, rows
  <2> QED
    BY <1>0, <1>2, <1>3, <2>1, <2>2, OpensStores DEF rows, muts
<1>6. ASSUME NEW r \in Acked, Ack(r[1], r[2]) PROVE Queues'
  BY <1>2, <1>6 DEF Ack
<1>7. ASSUME NEW a \in acks, Advance(a) PROVE Queues'
  <2>1. UNCHANGED muts /\ hurt \subseteq hurt' /\ \A x \in Msgs : Rests(x)
    BY <1>7, KeptAdvance, AdvanceIsLike
  <2> QED
    BY <1>0, <1>3, <2>1 DEF muts
<1>8. ASSUME NEW m \in Touched, Touch(m) PROVE Queues'
  BY <1>0, <1>1, <1>8, QueuesArrive, QueuesRead, QueuesServe DEF Touch
<1>14. ASSUME NEW m \in Revocable, Revoke(m) PROVE Queues'
  BY <1>1, <1>14, QueuesRevoke, Sorts
<1>9. ASSUME NEW m \in Imports, ImportSelect(m) \/ ImportInsert(m) PROVE Queues'
  <2>1. UNCHANGED <<muts, own, hurt>> /\ m \in Msgs
    BY <1>9, Sorts DEF ImportSelect, ImportInsert, rows
  <2>2. event' = event \/ (~Taken(m) /\ event' = [event EXCEPT ![m] = EventRow])
    BY <1>9 DEF ImportSelect, ImportInsert, rows
  <2> QED
    BY <1>0, <1>2, <1>3, <2>1, <2>2, OpensStores DEF rows, muts
<1>10. ASSUME NEW m \in Sends, Reap(m) PROVE Queues'
  <2>1. UNCHANGED muts /\ hurt \subseteq hurt' /\ \A x \in Msgs : Rests(x)
    BY <1>10, ReapKept DEF Reap, DbFails
  <2> QED
    BY <1>0, <1>3, <2>1 DEF muts
<1>11. CASE SweepStart \/ Retire \/ Revive \/ UNCHANGED vars
  BY <1>2, <1>11 DEF SweepStart, Retire, Revive, vars
<1>12. CASE Delete
  BY <1>12 DEF Delete, Queues
<1>13. CASE Crash
  <2>1. UNCHANGED <<rows, wanted, revoked, early, lost>> /\ hurt \subseteq hurt'
        /\ \A x \in Msgs : chain'[x] = <<>> /\ (chain[x] # <<>> => x \in hurt')
    BY <1>13 DEF Crash
  <2>2. \A x \in Touched : x \in hurt' \/ chain'[x] = chain[x]
    BY <1>0, <2>1
  <2>3. \A x \in Touched : Rests(x)
    BY <2>1, SameIsKept DEF Rests
  <2> QED
    BY <1>1, <2>1, <2>2, <2>3, QueuesRest
<1> QED
  BY <1>4, <1>5, <1>6, <1>7, <1>8, <1>9, <1>10, <1>11, <1>12, <1>13, <1>14 DEF Next

-----------------------------------------------------------------------------
(* What a reaction carries *)

LEMMA CarriedStays ==
  ASSUME NEW x, Carried(x), chain'[x] = chain[x], lost \subseteq lost', Steady(x), chain[x] \in Seq(OpsType)
  PROVE  Carried(x)'
<1> SUFFICES ASSUME NEW n \in DOMAIN chain[x], chain[x][n].kind = "reaction", chain[x][n].read
             PROVE  /\ n = 1 /\ Taken(x)' /\ (chain[x][n].payload => x \in Media)
                    /\ (chain[x][n].payload <=> Stored(x)'.payload) \/ <<x, "payload">> \in lost'
  BY DEF Carried
<1>1. /\ n = 1 /\ Taken(x) /\ (chain[x][n].payload => x \in Media)
      /\ (chain[x][n].payload <=> Stored(x).payload) \/ <<x, "payload">> \in lost
  BY DEF Carried
<1>2. Ahead(chain[x])
  <2>1. chain[x] # <<>>
    BY QueueDomain, EmptySeq
  <2> QED
    BY <1>1, <2>1 DEF Ahead
<1> QED
  BY <1>1, <1>2 DEF Steady

\* Nothing that has read is left in a queue.
LEMMA CarriedNone ==
  ASSUME NEW x, \A n \in DOMAIN chain'[x] : ~(chain'[x][n].kind = "reaction" /\ chain'[x][n].read)
  PROVE  Carried(x)'
BY DEF Carried

(* Steps that leave the queues alone. *)
LEMMA CarriesRest ==
  ASSUME Typed, Carries, ~deleted, lost \subseteq lost', \A x \in Touched : chain'[x] = chain[x] /\ Steady(x),
         \A x \in Msgs : event'[x].payload \/ own'[x].payload => x \in Media
  PROVE  Carries'
<1> SUFFICES ASSUME NEW x \in Touched PROVE Carried(x)'
  BY DEF Carries
<1>1. Carried(x) /\ chain[x] \in Seq(OpsType)
  BY Sorts, Maps DEF Carries
<1> QED
  BY <1>1, CarriedStays

LEMMA PaysSend ==
  ASSUME Typed, Shape, NEW m \in Sends, Send(m), NEW x \in Msgs, event[x].payload \/ own[x].payload => x \in Media,
         event'[x].payload \/ own'[x].payload
  PROVE  x \in Media
<1>0. own \in [Msgs -> RowType] /\ event \in [Msgs -> RowType] /\ m \in Msgs /\ own[m] \in RowType
  BY Maps, Sorts
<1>1. CASE UNCHANGED rows
  BY <1>1 DEF rows
<1>2. CASE Insert(m)
  <2>1. (own' = [own EXCEPT ![m] = PendingRow(m)] /\ UNCHANGED event) \/ UNCHANGED rows
    BY <1>2 DEF Insert, rows
  <2>2. PendingRow(m).payload = (m \in Media)
    BY RowTypes
  <2> QED
    BY <1>0, <1>1, <2>1, <2>2
<1>3. CASE SaveSent(m)
  <2>1. (own' = [own EXCEPT ![m] = SentRow(m)] /\ UNCHANGED event) \/ UNCHANGED rows
    BY <1>3 DEF SaveSent, rows
  <2>2. SentRow(m).payload <=> m \in Media
    BY <1>0, SentRowIs
  <2> QED
    BY <1>0, <1>1, <2>1, <2>2
<1>4. CASE Merge(m)
  <2>1. /\ \A y \in Msgs \ {m} : event'[y] = event[y]
        /\ event'[m] = event[m] \/ (event'[m].payload <=> m \in Media)
    BY <1>4, MergedIs
  <2>2. own' = own
    BY <1>4 DEF Merge
  <2> QED
    BY <2>1, <2>2
<1>5. CASE Drop(m)
  <2>1. (own' = [own EXCEPT ![m] = NoRow] /\ UNCHANGED event) \/ UNCHANGED rows
    BY <1>5 DEF Drop, rows
  <2>2. NoRow.payload = FALSE
    BY DEF NoRow
  <2> QED
    BY <1>0, <1>1, <2>1, <2>2
<1>6. CASE SaveFailed(m)
  <2>1. event' = event /\ (\A y \in Msgs \ {m} : own'[y] = own[y]) /\ (own'[m] = own[m] \/ own'[m].payload = FALSE)
    BY <1>6, FailedIs DEF SaveFailed
  <2> QED
    BY <2>1
<1>7. CASE Request(m) \/ Gate(m) \/ FindSession(m) \/ FindUser(m) \/ Reserve(m) \/ Undo(m) \/ EngineAnswers(m) \/ AnnounceSurvivor(m) \/ Release(m)
  BY <1>1, <1>7 DEF Request, Gate, FindSession, FindUser, Reserve, Undo, EngineAnswers, AnnounceSurvivor, Release
<1> QED
  BY <1>2, <1>3, <1>4, <1>5, <1>6, <1>7 DEF Send

LEMMA CarriesTouch == ASSUME Typed, Shape, Carries, ~deleted, NEW m \in Touched, Touch(m) PROVE Carries'
<1>0. m \in Msgs /\ Touched \subseteq Msgs /\ chain \in [Msgs -> Seq(OpsType)] /\ chain[m] \in Seq(OpsType) /\ Ops[m] \subseteq Mutations
  BY Maps, Sorts
<1>1. lost' = lost /\ \A x \in Touched \ {m} : chain'[x] = chain[x]
  BY <1>0 DEF Touch, MutationArrives, Enqueue, ReadReactions, Dequeue, WriteReactions, ApplyEdit
<1>2. \A x \in Touched \ {m} : Steady(x)
  <2>1. CASE UNCHANGED rows
    BY <2>1, SameIsKept
  <2>2. CASE WriteReactions(m) /\ Taken(m)
    <3>1. PICK r : r = [Stored(m) EXCEPT !.marks = [Head(chain[m]).marks EXCEPT ![Head(chain[m]).who] = Head(chain[m]).on],
                                         !.payload = Head(chain[m]).payload]
      OBVIOUS
    <3>2. SetStored(m, r) \/ UNCHANGED rows
      BY <2>2, <3>1 DEF WriteReactions
    <3>3. Stored(m) \in RowType /\ Stored(m).wa
      BY <1>0, <2>2, StoredStatus
    <3>4. Head(chain[m]) \in OpsType /\ Head(chain[m]).kind = "reaction"
      BY <1>0, <2>2, Shorter DEF WriteReactions
    <3>5. PICK k \in MarkType : k = [Head(chain[m]).marks EXCEPT ![Head(chain[m]).who] = Head(chain[m]).on]
      BY <3>4, OpTypes DEF MarkType
    <3>6. r \in RowType /\ r.wa
      BY <3>1, <3>3, <3>4, <3>5, OpTypes DEF RowType, MarkType
    <3> QED
      BY <1>0, <2>1, <2>2, <3>2, <3>6, SetIs
  <2>3. CASE ApplyEdit(m) /\ Taken(m)
    <3>1. PICK r : r = [Stored(m) EXCEPT !.text = Head(chain[m]).text]
      OBVIOUS
    <3>2. SetStored(m, r) \/ UNCHANGED rows
      BY <2>3, <3>1 DEF ApplyEdit
    <3>3. Stored(m) \in RowType /\ Stored(m).wa
      BY <1>0, <2>3, StoredStatus
    <3>4. Head(chain[m]) \in OpsType /\ Head(chain[m]).kind = "edit"
      BY <1>0, <2>3, Shorter DEF ApplyEdit
    <3>5. r \in RowType /\ r.wa
      BY <3>1, <3>3, <3>4, OpTypes DEF RowType, Texts
    <3> QED
      BY <1>0, <2>1, <2>3, <3>2, <3>5, SetIs
  <2> QED
    BY <2>1, <2>2, <2>3 DEF Touch, MutationArrives, ReadReactions, WriteReactions, ApplyEdit
<1>3. \A x \in Touched \ {m} : Carried(x)'
  <2> TAKE x \in Touched \ {m}
  <2>1. Carried(x) /\ chain[x] \in Seq(OpsType)
    BY <1>0 DEF Carries
  <2> QED
    BY <1>1, <1>2, <2>1, CarriedStays
<1>4. \A n \in DOMAIN chain[m] : chain[m][n].kind = "reaction" /\ chain[m][n].read =>
        /\ n = 1 /\ Taken(m) /\ (chain[m][n].payload => m \in Media)
        /\ (chain[m][n].payload <=> Stored(m).payload) \/ <<m, "payload">> \in lost
  BY DEF Carries, Carried
<1>5. ASSUME Served(m) PROVE Carried(m)'
  <2>1. PICK t : t = Tail(chain[m])
    OBVIOUS
  <2>2. chain'[m] = t /\ chain[m] # <<>> /\ Behind(chain[m], t)
    BY <1>0, <1>5, <2>1 DEF Served, Behind
  <2>3. \A n \in DOMAIN t : ~(t[n].kind = "reaction" /\ t[n].read)
    BY <1>0, <1>4, <2>2, TailUnread
  <2> QED
    BY <2>2, <2>3, CarriedNone
<1>6. ASSUME NEW op \in Mutations, MutationArrives(m, op) PROVE Carried(m)'
  <2>1. PICK c, d : c = chain[m] /\ d = Append(c, op)
    OBVIOUS
  <2>2. op \in OpsType /\ (op.kind = "reaction" => ~op.read)
    BY OpTypes
  <2>3. /\ Len(c) \in Nat /\ DOMAIN c = 1..Len(c) /\ DOMAIN d = 1..(Len(c) + 1) /\ d[Len(c) + 1] = op
        /\ \A n \in 1..Len(c) : d[n] = c[n]
    BY <1>0, <2>1, <2>2, Longer, QueueDomain
  <2>4. \A n \in DOMAIN d : d[n].kind = "reaction" /\ d[n].read => n \in DOMAIN c /\ d[n] = c[n]
    BY <2>2, <2>3
  <2>5. chain'[m] = d /\ Taken(m)' = Taken(m) /\ Stored(m)' = Stored(m) /\ lost' = lost
    BY <1>0, <1>6, <2>1 DEF MutationArrives, Enqueue, rows, Taken, Stored
  <2>6. \A n \in DOMAIN d : d[n].kind = "reaction" /\ d[n].read =>
          /\ n = 1 /\ Taken(m) /\ (d[n].payload => m \in Media)
          /\ (d[n].payload <=> Stored(m).payload) \/ <<m, "payload">> \in lost
    BY <1>4, <2>1, <2>4
  <2> QED
    BY <2>5, <2>6 DEF Carried
<1>7. ASSUME ReadReactions(m) PROVE Carried(m)'
  <2>1. CASE Served(m)
    BY <1>5, <2>1
  <2>2. CASE Taken(m) /\ chain' = [chain EXCEPT ![m][1].read = TRUE, ![m][1].marks = Stored(m).marks,
                                                ![m][1].payload = Stored(m).payload]
    <3>1. Stored(m).marks \in MarkType /\ Stored(m).payload \in BOOLEAN /\ (Stored(m).payload => m \in Media)
      BY <1>0, <2>2, StoredStatus, RowUpdates DEF Carries, Stored
    <3>2. PICK c, k, l : c = chain[m] /\ k = Stored(m).marks /\ l = Stored(m).payload
      OBVIOUS
    <3>3. c \in Seq(OpsType) /\ c # <<>> /\ Head(c).kind = "reaction" /\ k \in MarkType /\ l \in BOOLEAN
      BY <1>0, <1>7, <3>1, <3>2 DEF ReadReactions
    <3>4. PICK d : d = ReadAs(c, k, l)
      OBVIOUS
    <3>5. /\ d \in Seq(OpsType) /\ Len(d) = Len(c) /\ d[1].payload = l /\ \A n \in 2..Len(c) : d[n] = c[n]
      BY <3>3, <3>4, ReadIs
    <3>6. chain'[m] = d /\ Taken(m)' = Taken(m) /\ Stored(m)' = Stored(m)
      BY <1>0, <1>7, <2>2, <3>2, <3>4 DEF ReadAs, ReadReactions, rows, Taken, Stored
    <3>7. \A n \in DOMAIN d : n = 1 \/ (n \in DOMAIN c /\ d[n] = c[n] /\ n # 1)
      BY <3>3, <3>5, QueueDomain
    <3>8. \A n \in DOMAIN d : d[n].kind = "reaction" /\ d[n].read => n = 1
      BY <1>4, <3>2, <3>7
    <3> QED
      BY <2>2, <3>1, <3>2, <3>5, <3>6, <3>8 DEF Carried
  <2> QED
    BY <1>7, <2>1, <2>2 DEF ReadReactions, Dequeue, Served
<1>8. Carried(m)'
  BY <1>0, <1>5, <1>6, <1>7 DEF Touch, WriteReactions, ApplyEdit, Dequeue, Served
<1>9. \A x \in Msgs : event'[x].payload \/ own'[x].payload => x \in Media
  BY TouchPays
<1> QED
  BY <1>3, <1>8, <1>9 DEF Carries

LEMMA CarriesStep == ASSUME Typed, Shape, Failures, Carries, [Next]_vars PROVE Carries'
<1>0. Touched \subseteq Msgs /\ Sends \subseteq Msgs
  BY Sorts
<1>1. SUFFICES ASSUME ~deleted PROVE Carries'
  BY DeletedStays DEF Carries
<1>2. CASE UNCHANGED <<muts, rows>>
  <2>1. \A x \in Touched : Steady(x)
    BY <1>2, SameIsKept
  <2>2. \A x \in Msgs : event'[x].payload \/ own'[x].payload => x \in Media
    BY <1>1, <1>2 DEF Carries, rows
  <2> QED
    BY <1>1, <1>2, <2>1, <2>2, CarriesRest DEF muts
<1>3. ASSUME NEW m \in Sends, Send(m) PROVE Carries'
  <2>1. chain' = chain
    BY <1>3 DEF Send, Request, Gate, FindSession, FindUser, Reserve, Insert, Undo, EngineAnswers, SaveSent, Merge, Drop, AnnounceSurvivor, SaveFailed,
       Release, muts
  <2>2. (\A x \in Touched : Steady(x)) /\ lost \subseteq lost'
    BY <1>0, <1>3, KeptSend
  <2>3. \A x \in Msgs : event'[x].payload \/ own'[x].payload => x \in Media
    BY <1>1, <1>3, PaysSend DEF Carries
  <2> QED
    BY <1>1, <2>1, <2>2, <2>3, CarriesRest
<1>4. ASSUME NEW m \in Msgs, UNCHANGED <<muts, own>>, ~Taken(m), event' = [event EXCEPT ![m] = EventRow]
      PROVE  Carries'
  <2>1. \A x \in Touched : Steady(x)
    BY <1>0, <1>4, OpensStores
  <2>2. event \in [Msgs -> RowType] /\ EventRow.payload = FALSE
    BY Maps, RowTypes
  <2>3. \A x \in Msgs : event'[x].payload \/ own'[x].payload => x \in Media
    BY <1>1, <1>4, <2>2 DEF Carries
  <2> QED
    BY <1>1, <1>4, <2>1, <2>3, CarriesRest DEF muts
<1>5. ASSUME NEW e \in Reports, Report(e) \/ Project(e) \/ FanOut(e) PROVE Carries'
  <2>1. UNCHANGED <<muts, own>> /\ Of[e] \in Msgs
    BY <1>5, Sorts DEF Report, Project, FanOut, rows
  <2>2. event' = event \/ (~Taken(Of[e]) /\ event' = [event EXCEPT ![Of[e]] = EventRow])
    BY <1>5 DEF Report, Project, FanOut, rows
  <2> QED
    BY <1>2, <1>4, <2>1, <2>2 DEF rows
<1>6. ASSUME NEW r \in Acked, Ack(r[1], r[2]) PROVE Carries'
  BY <1>2, <1>6 DEF Ack
<1>7. ASSUME NEW a \in acks, Advance(a) PROVE Carries'
  <2>1. UNCHANGED muts /\ \A x \in Touched : Steady(x)
    BY <1>0, <1>7, KeptAdvance, AdvanceIsLike
  <2>2. \A x \in Msgs : event'[x].payload \/ own'[x].payload => x \in Media
    BY <1>1, <1>7, AdvancePays DEF Carries
  <2> QED
    BY <1>1, <2>1, <2>2, CarriesRest DEF muts
<1>8. ASSUME NEW m \in Touched, Touch(m) PROVE Carries'
  BY <1>1, <1>8, CarriesTouch
<1>9. ASSUME NEW m \in Revocable, Revoke(m) PROVE Carries'
  <2>0. m \in Msgs /\ UNCHANGED <<chain, lost>>
    BY <1>9, Sorts DEF Revoke
  <2>1. \A x \in Touched : Steady(x)
    <3>1. CASE UNCHANGED rows
      BY <3>1, SameIsKept
    <3>2. CASE Taken(m) /\ SetStored(m, [Stored(m) EXCEPT !.text = ""])
      <4>1. Stored(m) \in RowType /\ Stored(m).wa /\ "" \in Texts
        BY <2>0, <3>2, StoredStatus DEF Texts
      <4>2. PICK v : v = [Stored(m) EXCEPT !.text = ""]
        OBVIOUS
      <4>3. v \in RowType /\ v.wa /\ v.payload = Stored(m).payload
        BY <4>1, <4>2 DEF RowType
      <4>4. Stored(m)' = v /\ Taken(m)' /\ \A x \in Msgs \ {m} : Steady(x)
        BY <2>0, <3>2, <4>1, <4>2, <4>3, SetIs
      <4>5. Steady(m)
        BY <4>3, <4>4 DEF Steady
      <4> QED
        BY <1>0, <4>4, <4>5
    <3> QED
      BY <1>9, <3>1, <3>2 DEF Revoke
  <2>2. \A x \in Msgs : event'[x].payload \/ own'[x].payload => x \in Media
    BY <1>1, <1>9, <2>0, RevokePays DEF Carries
  <2> QED
    BY <1>1, <2>0, <2>1, <2>2, CarriesRest
<1>10. ASSUME NEW m \in Imports, ImportSelect(m) \/ ImportInsert(m) PROVE Carries'
  <2>1. UNCHANGED <<muts, own>> /\ m \in Msgs
    BY <1>10, Sorts DEF ImportSelect, ImportInsert, rows
  <2>2. event' = event \/ (~Taken(m) /\ event' = [event EXCEPT ![m] = EventRow])
    BY <1>10 DEF ImportSelect, ImportInsert, rows
  <2> QED
    BY <1>2, <1>4, <2>1, <2>2 DEF rows
<1>11. ASSUME NEW m \in Sends, Reap(m) PROVE Carries'
  <2>1. UNCHANGED muts /\ \A x \in Touched : Steady(x)
    BY <1>0, <1>11, ReapKept DEF Reap
  <2>2. event' = event /\ (\A x \in Msgs \ {m} : own'[x] = own[x]) /\ (own'[m] = own[m] \/ own'[m].payload = FALSE)
    BY <1>11, ReapIs DEF Reap
  <2>3. \A x \in Msgs : event'[x].payload \/ own'[x].payload => x \in Media
    BY <1>1, <2>2 DEF Carries
  <2> QED
    BY <1>1, <2>1, <2>3, CarriesRest DEF muts
<1>12. CASE SweepStart \/ Retire \/ Revive \/ UNCHANGED vars
  BY <1>2, <1>12 DEF SweepStart, Retire, Revive, vars
<1>13. CASE Delete
  BY <1>13 DEF Delete, Carries
<1>14. CASE Crash
  <2>1. rows' = rows /\ \A x \in Msgs : chain'[x] = <<>>
    BY <1>14 DEF Crash, rows
  <2>2. \A x \in Touched : Carried(x)'
    BY <1>0, <2>1, CarriedNone
  <2> QED
    BY <1>1, <2>1, <2>2 DEF Carries, rows
<1> QED
  BY <1>3, <1>5, <1>6, <1>7, <1>8, <1>9, <1>10, <1>11, <1>12, <1>13, <1>14 DEF Next

-----------------------------------------------------------------------------
(* The invariant *)

LEMMA InductiveInit == Init => Inductive
<1> SUFFICES ASSUME Init PROVE Inductive
  OBVIOUS
<1>1. Typed /\ Account
  BY TypedInit, AccountInit
<1>2. /\ \A m \in Msgs : own[m] = NoRow /\ event[m] = NoRow /\ fanned[m] = 0 /\ chain[m] = <<>>
                         /\ index[m].event = "none" /\ wanted[m].marks = NoMarks /\ wanted[m].text = "first"
      /\ \A m \in Sends : pc[m] = "new"
      /\ \A e \in Reports : task[e] = "none"
      /\ acks = {} /\ ~deleted /\ outliving = {} /\ unmetered = {}
  BY DEF Init
<1>3. NoRow.wa = FALSE /\ NoRow.status = "none" /\ NoRow.payload = FALSE
  BY RowTypes DEF NoRow
<1>4. Shape /\ Failures /\ Purged /\ Metered
  BY <1>2, <1>3 DEF Shape, Failures, Purged, Exists, Metered
<1>5. Copy
  BY <1>2 DEF Copy, Copied
<1>6. Arrivals
  <2> SUFFICES ASSUME NEW m \in Inbound PROVE Arrived(m)
    BY DEF Arrivals
  <2>1. fanned[m] = 0 /\ event[m] = NoRow /\ \A e \in Reports : task[e] = "none"
    BY <1>2, Sorts
  <2>2. fanned[m] <= 1 /\ fanned[m] # 1
    BY <2>1
  <2>3. ~Going(m)
    BY <2>1 DEF Going
  <2> QED
    BY <1>3, <2>1, <2>2, <2>3 DEF Arrived
<1>7. Queues
  BY <1>2, <1>3, Sorts DEF Queues, Queued, Taken
<1>8. Carries
  <2>1. DOMAIN <<>> = {} /\ \A m \in Touched : chain[m] = <<>>
    <3>1. DOMAIN <<>> = {}
      OBVIOUS
    <3> QED
      BY <1>2, <3>1, Sorts
  <2> QED
    BY <1>2, <1>3, <2>1 DEF Carries, Carried
<1> QED
  BY <1>1, <1>4, <1>5, <1>6, <1>7, <1>8 DEF Inductive

LEMMA InductiveStep == Inductive /\ [Next]_vars => Inductive'
BY TypedStep, ShapeStep, AccountStep, MeteredStep, FailuresStep, CopyStep, ArrivalsStep, PurgedStep, QueuesStep, CarriesStep DEF Inductive

LEMMA AlwaysInductive == Spec => []Inductive
BY InductiveInit, InductiveStep, PTL DEF Spec

(* Whatever is sent, reported, received, imported, deleted or restarted, the
   rows, the queues and the counters hold what the code declares of them. *)
THEOREM MessageTypeCorrect == Spec => []TypeOK
<1>1. Inductive => TypeOK
  BY TypeFollows DEF Inductive
<1> QED
  BY <1>1, AlwaysInductive, PTL

(* The plan's counter is never off: reserveOutgoingMessage's guarded increment
   and releaseOutgoingMessage's decrement meet every way a send can end, only a
   fault keeps a reservation, and only a session deleted between the two lookups
   of it lets a send through uncounted. *)
THEOREM AllowanceCounted == Spec => []QuotaAccount
<1>1. Inductive => QuotaAccount
  <2> SUFFICES ASSUME Inductive PROVE QuotaAccount
    OBVIOUS
  <2>1. usage = Cardinality(Held) /\ usage \in 0..Limit /\ Limit \in Nat
    BY Bounds DEF Inductive, Account, Typed
  <2>2. usage <= Limit
    BY <2>1
  <2> QED
    BY <2>1, <2>2 DEF QuotaAccount, Held
<1> QED
  BY <1>1, AlwaysInductive, PTL

(* persistSentState and the reaper race for a PENDING row; only a receipt
   leaves the row of a message WhatsApp took FAILED. *)
THEOREM FailuresTrue == Spec => []NotFailedOnceSent
<1>1. Inductive => NotFailedOnceSent
  BY Sorts DEF Inductive, Failures, NotFailedOnceSent
<1> QED
  BY <1>1, AlwaysInductive, PTL

(* However persistSentState, the echo's insert and a reaction to it interleave,
   one row with the id and one search document are left of a message, and the
   row has the payload but where a reaction wrote back what it had read. *)
THEOREM OneCopyKept == Spec => []OneCopy
<1>1. Inductive => OneCopy
  <2> SUFFICES ASSUME Inductive, NEW m \in Sends, pc[m] = "over", m \in accepted, m \notin hurt \cup nameless, ~deleted
               PROVE  /\ Taken(m)
                      /\ Exists(own[m]) # Exists(event[m])
                      /\ Stored(m).payload = (m \in Media) \/ <<m, "payload">> \in lost
                      /\ index[m] = [own   |-> IF Exists(own[m]) THEN "sent" ELSE "none",
                                     event |-> IF Exists(own[m]) THEN "none" ELSE "sent"]
    BY DEF OneCopy
  <2>1. Copied(m) /\ Typed /\ Shape /\ m \in Msgs
    BY Sorts DEF Inductive, Copy
  <2>2. /\ Taken(m) /\ ~(Exists(own[m]) <=> Exists(event[m]))
        /\ (Stored(m).payload <=> m \in Media) \/ <<m, "payload">> \in lost
        /\ index[m] = [own   |-> IF Exists(own[m]) THEN "sent" ELSE "none",
                       event |-> IF Exists(own[m]) THEN "none" ELSE "sent"]
    BY <2>1 DEF Copied
  <2>3. Stored(m).payload \in BOOLEAN
    BY <2>1, <2>2, StoredStatus, RowUpdates
  <2>4. ASSUME <<m, "payload">> \notin lost PROVE Stored(m).payload = (m \in Media)
    <3>1. PICK b \in BOOLEAN : b = Stored(m).payload
      BY <2>3
    <3>2. b <=> m \in Media
      BY <2>2, <2>4, <3>1
    <3>3. b = (m \in Media)
      BY <3>2, Zenon
    <3> QED
      BY <3>1, <3>3, Zenon
  <2>5. Exists(own[m]) # Exists(event[m])
    BY <2>2, Zenon
  <2> QED
    BY <2>2, <2>4, <2>5
<1> QED
  BY <1>1, AlwaysInductive, PTL

(* The unique index and the duplicate check after the hook let an arriving
   message go out once, however often the engine reports it, and at least once
   unless the import was there first; only a handler that outlives the deletion
   of its session repeats it. *)
THEOREM ReceivedOnceOnly == Spec => []ReceivedOnce
<1>1. Inductive => ReceivedOnce
  <2> SUFFICES ASSUME Inductive, NEW e \in Reports, Of[e] \in Inbound \ hurt
               PROVE  /\ fanned[Of[e]] <= 1 \/ \E x \in outliving : Of[x] = Of[e]
                      /\ task[e] = "done" /\ Of[e] \notin imported =>
                           \/ fanned[Of[e]] >= 1
                           \/ \E x \in Reports : Of[x] = Of[e] /\ task[x] = "stored"
    BY DEF ReceivedOnce
  <2>1. Arrived(Of[e])
    BY DEF Inductive, Arrivals
  <2> QED
    BY <2>1 DEF Arrived, Going, Again
<1> QED
  BY <1>1, AlwaysInductive, PTL

(* KeyedMutationQueue applies the reactions and edits of a message one after
   the other, and receipts and revokes write around them.  The merge of a send
   with media or a quoted message does not: what it overwrites is in lost. *)
THEOREM MutationsKeptInOrder == Spec => []MutationsKept
<1>1. Inductive => MutationsKept
  <2> SUFFICES ASSUME Inductive, NEW m \in Touched, chain[m] = <<>>, Taken(m), m \notin hurt \cup early, ~deleted
               PROVE  /\ Stored(m).marks = wanted[m].marks \/ <<m, "marks">> \in lost
                      /\ m \notin revoked => Stored(m).text = wanted[m].text
    BY DEF MutationsKept
  <2>1. Queued(m) /\ Typed /\ Shape /\ m \in Msgs
    BY Sorts DEF Inductive, Queues
  <2>2. PICK b : b = Base(<<>>, Stored(m))
    OBVIOUS
  <2>3. b.marks = Stored(m).marks /\ b.text = Stored(m).text
    BY <2>2, Bases
  <2>4. /\ MarksLeft(<<>>, wanted[m], b) <=> \A s \in Senders : b.marks[s] = wanted[m].marks[s]
        /\ TextLeft(<<>>, wanted[m], b) <=> b.text = wanted[m].text
    BY LeftEmpty
  <2>5. /\ <<m, "marks">> \in lost \/ MarksLeft(<<>>, wanted[m], b)
        /\ m \in revoked \/ TextLeft(<<>>, wanted[m], b)
    BY <2>1, <2>2 DEF Queued
  <2>6. Stored(m).marks \in MarkType /\ wanted[m].marks \in MarkType
    BY <2>1, StoredStatus, RowUpdates, Maps
  <2>7. ASSUME <<m, "marks">> \notin lost PROVE Stored(m).marks = wanted[m].marks
    <3>1. \A s \in Senders : Stored(m).marks[s] = wanted[m].marks[s]
      BY <2>3, <2>4, <2>5, <2>7
    <3> QED
      BY <2>6, <3>1 DEF MarkType
  <2> QED
    BY <2>3, <2>4, <2>5, <2>7
<1> QED
  BY <1>1, AlwaysInductive, PTL

(* The registry is looked at again after the hook: besides a history import,
   only a handler whose engine was still registered when delete purged, or was
   registered after it, leaves a row behind. *)
THEOREM NoOrphans == Spec => []NoOrphanRows
<1>1. Inductive => NoOrphanRows
  BY DEF Inductive, Purged, NoOrphanRows, Again
<1> QED
  BY <1>1, AlwaysInductive, PTL

(* ackStatusTransitionFrom is in the WHERE of the update: a delivery state
   moves on or stays, but where a send finds its echo stored before. *)
THEOREM AcksOnlyAdvance == Spec => AcksAdvance
<1>1. ASSUME Inductive, [Next]_vars
      PROVE  \A m \in Msgs : Taken(m) /\ Taken(m)' => \/ Stored(m)'.status \in After(Stored(m).status)
                                                      \/ m \in Sends /\ pc[m] = "merge"
  <2>0. Typed /\ Shape /\ Failures
    BY <1>1 DEF Inductive
  <2>1. CASE UNCHANGED rows
    BY <2>0, <2>1, SameIsLike DEF Like, Advances
  <2>2. ASSUME NEW m \in Sends, Send(m) \/ Reap(m) PROVE \A x \in Msgs : Advances(x)
    BY <2>0, <2>2, KeptSend, ReapKept
  <2>3. ASSUME NEW m \in Msgs, UNCHANGED own, ~Taken(m), event' = [event EXCEPT ![m] = EventRow]
        PROVE  \A x \in Msgs : Advances(x)
    <3>0. event \in [Msgs -> RowType]
      BY <2>0, Maps
    <3>1. \A x \in Msgs \ {m} : Stored(x)' = Stored(x)
      BY <2>3, <3>0 DEF Stored
    <3>2. \A x \in Msgs : Taken(x) => Stored(x).status \in Statuses
      BY <2>0, StoredStatus DEF RowType
    <3> QED
      BY <2>3, <3>1, <3>2, StayIsAfter DEF Advances
  <2>4. ASSUME NEW e \in Reports, Report(e) \/ Project(e) \/ FanOut(e)
        PROVE  UNCHANGED rows \/ \A x \in Msgs : Advances(x)
    <3>1. Of[e] \in Msgs
      BY Sorts
    <3>2. UNCHANGED rows \/ (UNCHANGED own /\ ~Taken(Of[e]) /\ event' = [event EXCEPT ![Of[e]] = EventRow])
      BY <2>4 DEF Report, Project, FanOut, rows
    <3> QED
      BY <2>3, <3>1, <3>2
  <2>5. ASSUME NEW m \in Imports, ImportSelect(m) \/ ImportInsert(m)
        PROVE  UNCHANGED rows \/ \A x \in Msgs : Advances(x)
    <3>1. m \in Msgs
      BY Sorts
    <3>2. UNCHANGED rows \/ (UNCHANGED own /\ ~Taken(m) /\ event' = [event EXCEPT ![m] = EventRow])
      BY <2>5 DEF ImportSelect, ImportInsert, rows
    <3> QED
      BY <2>3, <3>1, <3>2
  <2>6. ASSUME NEW a \in acks, Advance(a) PROVE \A x \in Msgs : Advances(x)
    BY <2>0, <2>6, AdvanceIsLike DEF Like
  <2>7. ASSUME NEW m, (m \in Touched /\ Touch(m)) \/ (m \in Revocable /\ Revoke(m)) PROVE \A x \in Msgs : Advances(x)
    BY <2>0, <2>7, TouchIsLike, Sorts DEF Like
  <2>8. CASE (\E r \in Acked : Ack(r[1], r[2])) \/ SweepStart \/ Retire \/ Revive \/ Crash \/ UNCHANGED vars
    BY <2>1, <2>8 DEF Ack, SweepStart, Retire, Revive, Crash, vars
  <2>9. CASE Delete
    <3>1. \A x \in Msgs : own'[x] = NoRow /\ event'[x] = NoRow
      BY <2>9 DEF Delete
    <3>2. \A x \in Msgs : ~Taken(x)'
      BY <3>1, RowTypes DEF Taken
    <3> QED
      BY <3>2
  <2>10. CASE \A x \in Msgs : Advances(x)
    BY <2>10 DEF Advances
  <2> QED
    BY <1>1, <2>1, <2>2, <2>4, <2>5, <2>6, <2>7, <2>8, <2>9, <2>10 DEF Next
<1> QED
  BY <1>1, AlwaysInductive, PTL DEF Spec, AcksAdvance
=============================================================================
