---------------------------- MODULE MessageRows -----------------------------
(***************************************************************************)
(* The stored messages of one session and everything that writes them:     *)
(* the senders of MessageService with the plan usage they reserve, the     *)
(* MessageProjector (inbound arrivals, own-send echoes, acks, reactions,   *)
(* edits, revokes, history), and the reaper of stuck PENDING rows.         *)
(*                                                                         *)
(* A message a REST call sends may end up in two rows: its own, inserted   *)
(* PENDING and without a waMessageId before the engine is called, and the  *)
(* row of its echo, which the engine reports like a message composed on    *)
(* the phone.  The unique index over (sessionId, waMessageId) lets only    *)
(* one of the two carry the id.                                            *)
(*                                                                         *)
(* Atomicity: one database statement, or the code between two awaits.      *)
(* TypeORM's save is one statement here: its select and its update run in  *)
(* one transaction, and it inserts a row that is not there.                *)
(***************************************************************************)
EXTENDS Integers, FiniteSets, Sequences

CONSTANTS
  Text,          (* messages a REST call sends, without media ... *)
  Media,         (* ... and with *)
  Replies,       (* the texts that quote a message *)
  Phone,         (* messages composed on a linked phone *)
  Inbound,       (* messages that arrive *)
  Acked,         (* receipts that may arrive, and for which message *)
  Touched,       (* messages reactions and edits arrive for ... *)
  Ops,           (* ... and which of them *)
  Revocable,     (* messages a revoke may come for *)
  Imports,       (* messages a history batch may hold *)
  Senders,       (* who reacts *)
  Edits,         (* texts an edit may set *)
  Reports,       (* what the engine's message events may be ... *)
  Of,            (* ... and the message each of them reports *)
  Limit,         (* sentMessages of the user's plan *)
  Faults,        (* what may go wrong: "db", "crash", "delete", "noid" *)
  Casts,         (* bound: messages that may be about at the same time *)
  MaxChain,      (* bound: queued reactions and edits of each message *)
  MaxUpsets      (* bound: restarts and deletions *)

Sends    == Text \cup Media
Outgoing == Sends \cup Phone
Msgs     == Outgoing \cup Inbound

Receipts == {"delivered", "read", "failed"}

(* A reaction carries what it has read of the row, once it has. *)
NoMarks == [s \in Senders |-> FALSE]
Reaction(s, on) == [kind |-> "reaction", who |-> s, on |-> on,
                    read |-> FALSE, marks |-> NoMarks, payload |-> FALSE]
Edit(t) == [kind |-> "edit", text |-> t]
Mutations == {Reaction(s, on) : s \in Senders, on \in BOOLEAN}
               \cup {Edit(t) : t \in Edits}

ASSUME MessageAssumption ==
  /\ IsFiniteSet(Sends)
  /\ Outgoing \cap Inbound = {} /\ Sends \cap Phone = {}
  /\ Text \cap Media = {} /\ Replies \subseteq Text
  /\ Acked \subseteq Outgoing \X Receipts
  /\ Touched \subseteq Msgs /\ Revocable \subseteq Msgs
  /\ Imports \subseteq Msgs
  /\ Of \in [Reports -> Msgs]
  /\ Ops \in [Touched -> SUBSET Mutations]
  /\ MaxChain \in [Msgs -> Nat]
  /\ Limit \in Nat /\ MaxUpsets \in Nat
  /\ "" \notin Edits

VARIABLES
  own,           (* the row a send inserted itself *)
  event,         (* the row an engine event inserted *)
  pc,            (* the REST call of a send, suspended at an await *)
  usage,         (* sentMessages of the user *)
  accepted,      (* messages WhatsApp has: only these cause events *)
  nameless,      (* sends whose engine could not read the id back *)
  unmetered,     (* history: sends let through without a reservation *)
  task,          (* handler of a reported message, suspended at an await *)
  stale,         (* handlers whose engine was retired meanwhile *)
  outliving,     (* history: handlers whose engine outlived the session *)
  fanned,        (* how often a message went out to webhooks and sockets *)
  acks,          (* acks on their way to the table: status and attempt *)
  receipts,      (* receipts that arrived so far *)
  chain,         (* messageMutations: the queue of each message *)
  sweep,         (* rows the reaper found and has not handled *)
  index,         (* a search provider's copy of the rows *)
  live,          (* the session has a live engine *)
  deleted,       (* the session was deleted *)
  wanted,        (* history: reactions and text after the events so far *)
  revoked,       (* history: messages a revoke came for *)
  early,         (* history: messages touched before they were stored *)
  lost,          (* history: what a merge overwrote, of which message *)
  importing,     (* history messages selected and not yet inserted *)
  imported,      (* history: messages the import has stored *)
  hurt,          (* history: messages that met a fault *)
  leaked,        (* history: reservations a fault kept from being released *)
  crashes        (* restarts so far *)

rows    == <<own, event>>
apart   == <<nameless, unmetered>>
sends   == <<pc, usage, apart, leaked>>
tasks   == <<task, stale, fanned, outliving>>
ackVars == <<acks, receipts>>
muts    == <<chain, wanted, revoked, early, lost>>
imports == <<importing, imported>>
life    == <<live, deleted, crashes>>
vars == <<rows, sends, accepted, tasks, ackVars, muts, sweep, index, life,
          imports, hurt>>

-----------------------------------------------------------------------------
(* Rows *)

Statuses == {"pending", "sent", "delivered", "read", "failed"}
Texts    == {"first", ""} \cup Edits

RowType == [status : Statuses \cup {"none"}, wa : BOOLEAN, payload : BOOLEAN,
            marks : [Senders -> BOOLEAN], text : Texts]
NoRow == [status |-> "none", wa |-> FALSE, payload |-> FALSE,
          marks |-> NoMarks, text |-> ""]
PendingRow(m) == [status |-> "pending", wa |-> FALSE, payload |-> m \in Media,
                  marks |-> NoMarks, text |-> "first"]
(* An event knows of media only that there is some: no payload. *)
EventRow == [status |-> "sent", wa |-> TRUE, payload |-> FALSE,
             marks |-> NoMarks, text |-> "first"]

Exists(r)  == r.status # "none"
Taken(m)   == own[m].wa \/ event[m].wa       (* the unique index refuses *)
Stored(m)  == IF own[m].wa THEN own[m] ELSE event[m]

(* An update by (sessionId, waMessageId): r replaces what is stored. *)
SetStored(m, r) ==
  IF own[m].wa
  THEN own' = [own EXCEPT ![m] = r] /\ UNCHANGED event
  ELSE event' = [event EXCEPT ![m] = r] /\ UNCHANGED own

Copies == {"none", "pending", "sent", "failed"}
Emit(m, place, copy) == index' = [index EXCEPT ![m][place] = copy]

(* A rejected database statement of m's handler. *)
DbFails(m) == "db" \in Faults /\ hurt' = hurt \cup {m}

Goto(m, l) == pc' = [pc EXCEPT ![m] = l]
Leak(m)    == leaked' = leaked \cup {m}

Calls == {"new", "gate", "find", "user", "reserve", "insert", "undo", "engine",
          "saveSent", "merge", "drop", "surviving", "saveFailed", "release",
          "over"}

(* releaseOutgoingMessage finds the user through the session's row. *)
ReturnReservation(m) ==
  \/ /\ ~deleted
     /\ usage' = IF usage > 0 THEN usage - 1 ELSE 0
     /\ UNCHANGED <<leaked, hurt>>
  \/ deleted /\ Leak(m) /\ UNCHANGED <<usage, hurt>>
  \/ DbFails(m) /\ Leak(m) /\ UNCHANGED usage

-----------------------------------------------------------------------------
(* The bound on what is explored together; {Msgs} is none. *)
MayJoin(m) ==
  \E c \in Casts :
    accepted \cup {x \in Sends : pc[x] # "new"} \cup {m} \subseteq c

-----------------------------------------------------------------------------
(* A send of MessageService, the same for every kind of content *)

(* The call starts and waits for the message:sending gate. *)
Request(m) ==
  /\ pc[m] = "new" /\ MayJoin(m)
  /\ Goto(m, "gate")
  /\ UNCHANGED <<rows, usage, apart, leaked, accepted, tasks, ackVars, muts,
                 sweep, index, life, imports, hurt>>

(* applySendingGate, then getEngine. *)
Gate(m) ==
  /\ pc[m] = "gate"
  /\ \/ live /\ Goto(m, "find")
     \/ Goto(m, "over")                       (* blocked, or no engine *)
  /\ UNCHANGED <<rows, usage, apart, leaked, accepted, tasks, ackVars, muts,
                 sweep, index, life, imports, hurt>>

(* saveOutgoingMessage looks the session up; without one, or when a statement
   of the lookups fails, the call is over. *)
FindSession(m) ==
  /\ pc[m] = "find"
  /\ \/ ~deleted /\ Goto(m, "user")
     \/ Goto(m, "over")
  /\ UNCHANGED <<rows, usage, apart, leaked, accepted, tasks, ackVars, muts,
                 sweep, index, life, imports, hurt>>

(* reserveOutgoingMessage looks it up once more, for its user: a session that
   was deleted in between has none, and the send passes uncounted. *)
FindUser(m) ==
  /\ pc[m] = "user"
  /\ \/ ~deleted /\ Goto(m, "reserve") /\ UNCHANGED unmetered
     \/ deleted /\ Goto(m, "insert") /\ unmetered' = unmetered \cup {m}
     \/ Goto(m, "over") /\ UNCHANGED unmetered
  /\ UNCHANGED <<rows, usage, nameless, leaked, accepted, tasks, ackVars, muts,
                 sweep, index, life, imports, hurt>>

(* Mutant: the limit is passed by one. *)
ReserveLoose(m) ==
  /\ pc[m] = "reserve"
  /\ \/ usage <= Limit /\ usage' = usage + 1 /\ Goto(m, "insert")
     \/ Goto(m, "over") /\ UNCHANGED usage
  /\ UNCHANGED <<rows, apart, leaked, accepted, tasks, ackVars, muts, sweep,
                 index, life, imports, hurt>>

(* Then the guarded increment of the user's row, or a refusal. *)
Reserve(m) ==
  /\ pc[m] = "reserve"
  /\ \/ usage < Limit /\ usage' = usage + 1 /\ Goto(m, "insert")
     \/ Goto(m, "over") /\ UNCHANGED usage
  /\ UNCHANGED <<rows, apart, leaked, accepted, tasks, ackVars, muts, sweep,
                 index, life, imports, hurt>>

(* saveOutgoingMessage stores the row PENDING and announces it. *)
Insert(m) ==
  /\ pc[m] = "insert"
  /\ \/ /\ own' = [own EXCEPT ![m] = PendingRow(m)]
        /\ Emit(m, "own", "pending")
        /\ Goto(m, "engine")
        /\ UNCHANGED hurt
     \/ DbFails(m) /\ Goto(m, "undo") /\ UNCHANGED <<own, index>>
  /\ UNCHANGED <<event, usage, apart, leaked, accepted, tasks, ackVars, muts,
                 sweep, life, imports>>

(* Mutant: a failed insert keeps its reservation. *)
UndoKeeps(m) ==
  /\ pc[m] = "undo"
  /\ Goto(m, "over")
  /\ UNCHANGED <<rows, usage, apart, leaked, accepted, tasks, ackVars, muts,
                 sweep, index, life, imports, hurt>>

(* A failed insert gives the reservation back. *)
Undo(m) ==
  /\ pc[m] = "undo"
  /\ ReturnReservation(m)
  /\ Goto(m, "over")
  /\ UNCHANGED <<rows, apart, accepted, tasks, ackVars, muts, sweep, index,
                 life, imports>>

(* The engine takes the message - echo and acks may now come - or rejects. *)
EngineAnswers(m) ==
  /\ pc[m] = "engine"
  /\ \/ /\ live
        /\ accepted' = accepted \cup {m}
        /\ \/ UNCHANGED nameless
           \/ "noid" \in Faults /\ nameless' = nameless \cup {m}
        /\ Goto(m, "saveSent")
     \/ Goto(m, "saveFailed") /\ UNCHANGED <<accepted, nameless>>
  /\ UNCHANGED <<rows, usage, unmetered, leaked, tasks, ackVars, muts, sweep,
                 index, life, imports, hurt>>

SentRow(m) ==
  [(IF Exists(own[m]) THEN own[m] ELSE PendingRow(m))
     EXCEPT !.status = "sent", !.wa = m \notin nameless,
            !.payload = m \in Media]

(* Mutant: the row of an echo that came first is not noticed. *)
SaveSentBlind(m) ==
  /\ pc[m] = "saveSent"
  /\ own' = [own EXCEPT ![m] = SentRow(m)]
  /\ Emit(m, "own", "sent") /\ Goto(m, "over")
  /\ UNCHANGED <<event, usage, apart, leaked, accepted, tasks, ackVars, muts,
                 sweep, life, imports, hurt>>

(* persistSentState: the save; a unique violation means the echo was first. *)
SaveSent(m) ==
  /\ pc[m] = "saveSent"
  /\ \/ /\ m \in nameless \/ ~event[m].wa
        /\ own' = [own EXCEPT ![m] = SentRow(m)]
        /\ Emit(m, "own", "sent")
        /\ Goto(m, "over") /\ UNCHANGED hurt
     \/ /\ m \notin nameless /\ event[m].wa
        /\ Goto(m, "merge") /\ UNCHANGED <<own, index, hurt>>
     \/ DbFails(m) /\ Goto(m, "over") /\ UNCHANGED <<own, index>>
  /\ UNCHANGED <<event, usage, apart, leaked, accepted, tasks, ackVars, muts,
                 sweep, life, imports>>

(* What the merge overwrites for good: the reactions the echo's row holds,
   and, when a reaction has read the row and not yet written it back, the
   payload instead. *)
Overwritten(m) ==
  IF chain[m] # <<>> /\ Head(chain[m]).kind = "reaction" /\ Head(chain[m]).read
  THEN IF m \in Media THEN {<<m, "payload">>} ELSE {}
  ELSE IF m \in Media \cup Replies /\ event[m].marks # NoMarks
       THEN {<<m, "marks">>} ELSE {}

(* The echo's row gets the status SENT and, of a send with media or a quoted
   message, the metadata - payload and reactions are in one column - with no
   guard on what it holds by now. *)
Merge(m) ==
  /\ pc[m] = "merge"
  /\ Goto(m, "drop")
  /\ \/ /\ event[m].wa
        /\ event' = [event EXCEPT
                       ![m].status = "sent", ![m].payload = m \in Media,
                       ![m].marks = IF m \in Media \cup Replies
                                    THEN NoMarks ELSE @]
        /\ lost' = lost \cup Overwritten(m)
        /\ UNCHANGED hurt
     \/ ~event[m].wa /\ UNCHANGED <<event, lost, hurt>>
     \/ DbFails(m) /\ UNCHANGED <<event, lost>>
  /\ UNCHANGED <<own, usage, apart, leaked, accepted, tasks, ackVars, chain,
                 wanted, revoked, early, sweep, index, life, imports>>

(* The redundant row goes; a failure to delete it is swallowed. *)
Drop(m) ==
  /\ pc[m] = "drop"
  /\ Goto(m, "surviving")
  /\ \/ own' = [own EXCEPT ![m] = NoRow] /\ UNCHANGED hurt
     \/ DbFails(m) /\ UNCHANGED own
  /\ UNCHANGED <<event, usage, apart, leaked, accepted, tasks, ackVars, muts,
                 sweep, index, life, imports>>

(* Mutant: the provider keeps the document of the row that was dropped. *)
AnnounceWinnerOnly(m) ==
  /\ pc[m] = "surviving"
  /\ Goto(m, "over")
  /\ Emit(m, "event", "sent")
  /\ UNCHANGED <<rows, usage, apart, leaked, accepted, tasks, ackVars, muts,
                 sweep, life, imports, hurt>>

(* The surviving row is announced, the dropped one withdrawn. *)
AnnounceSurvivor(m) ==
  /\ pc[m] = "surviving"
  /\ Goto(m, "over")
  /\ \/ /\ index' = [index EXCEPT ![m].own = "none",
                       ![m].event = IF event[m].wa THEN "sent" ELSE @]
        /\ UNCHANGED hurt
     \/ DbFails(m) /\ Emit(m, "own", "none")
  /\ UNCHANGED <<rows, usage, apart, leaked, accepted, tasks, ackVars, muts,
                 sweep, life, imports>>

(* failSend: the row is saved FAILED without its payload.  When that save
   throws, the release after it does not run. *)
SaveFailed(m) ==
  /\ pc[m] = "saveFailed"
  /\ \/ /\ own' = [own EXCEPT ![m] =
                     [(IF Exists(@) THEN @ ELSE PendingRow(m))
                        EXCEPT !.status = "failed", !.payload = FALSE]]
        /\ Emit(m, "own", "failed")
        /\ Goto(m, "release")
        /\ UNCHANGED <<leaked, hurt>>
     \/ DbFails(m) /\ Leak(m) /\ Goto(m, "over") /\ UNCHANGED <<own, index>>
  /\ UNCHANGED <<event, usage, apart, accepted, tasks, ackVars, muts, sweep,
                 life, imports>>

Release(m) ==
  /\ pc[m] = "release"
  /\ ReturnReservation(m)
  /\ Goto(m, "over")
  /\ UNCHANGED <<rows, apart, accepted, tasks, ackVars, muts, sweep, index,
                 life, imports>>

-----------------------------------------------------------------------------
(* MessageProjector: what the engine reports *)

(* The engine reports a message; a hook runs before anything is stored.  A
   phone's message and an arriving one exist from here on. *)
Report(e) ==
  LET m == Of[e] IN
  /\ live /\ task[e] = "none" /\ MayJoin(m)
  /\ m \in Sends => m \in accepted
  /\ accepted' = accepted \cup {m}
  /\ task' = [task EXCEPT ![e] = "hook"]
  /\ outliving' = IF deleted THEN outliving \cup {e} ELSE outliving
  /\ UNCHANGED <<rows, sends, stale, fanned, ackVars, muts, sweep, index, life,
                 imports, hurt>>

(* Mutant: the engine is not looked at again after the hook. *)
ProjectStale(e) ==
  LET m == Of[e] IN
  /\ task[e] = "hook"
  /\ event' = IF Taken(m) THEN event ELSE [event EXCEPT ![m] = EventRow]
  /\ task' = [task EXCEPT ![e] = IF ~Taken(m) THEN "stored"
                                 ELSE IF m \in Inbound THEN "done" ELSE "fan"]
  /\ UNCHANGED <<own, sends, accepted, stale, fanned, outliving, ackVars, muts,
                 sweep, index, life, imports, hurt>>

(* Mutant: a message reported twice goes out twice. *)
ProjectAgain(e) ==
  LET m == Of[e] IN
  /\ task[e] = "hook" /\ e \notin stale
  /\ event' = IF Taken(m) THEN event ELSE [event EXCEPT ![m] = EventRow]
  /\ task' = [task EXCEPT ![e] = IF Taken(m) THEN "fan" ELSE "stored"]
  /\ UNCHANGED <<own, sends, accepted, stale, fanned, outliving, ackVars, muts,
                 sweep, index, life, imports, hurt>>

(* After the hook: nothing for a retired engine; else the insert.  When the
   row is there already, an arrival is a duplicate and an echo goes out
   nonetheless; after any other database error both go out. *)
Project(e) ==
  LET m == Of[e] IN
  /\ task[e] = "hook"
  /\ \/ /\ e \in stale
        /\ task' = [task EXCEPT ![e] = "dropped"]
        /\ UNCHANGED <<event, hurt>>
     \/ /\ e \notin stale /\ Taken(m)
        /\ task' = [task EXCEPT ![e] = IF m \in Inbound THEN "done" ELSE "fan"]
        /\ UNCHANGED <<event, hurt>>
     \/ /\ e \notin stale /\ ~Taken(m)
        /\ event' = [event EXCEPT ![m] = EventRow]
        /\ task' = [task EXCEPT ![e] = "stored"]
        /\ UNCHANGED hurt
     \/ /\ e \notin stale /\ DbFails(m)
        /\ task' = [task EXCEPT ![e] = "fan"]
        /\ UNCHANGED event
  /\ UNCHANGED <<own, sends, accepted, stale, fanned, outliving, ackVars, muts,
                 sweep, index, life, imports>>

(* The insert has answered: plugins see a row that was stored, and webhooks
   and sockets the message. *)
FanOut(e) ==
  LET m == Of[e] IN
  /\ task[e] \in {"stored", "fan"}
  /\ fanned' = [fanned EXCEPT ![m] = @ + 1]
  /\ task' = [task EXCEPT ![e] = "done"]
  /\ index' = IF task[e] = "stored"
              THEN [index EXCEPT ![m].event = "sent"] ELSE index
  /\ UNCHANGED <<rows, sends, accepted, stale, outliving, ackVars, muts, sweep,
                 life, imports, hurt>>

-----------------------------------------------------------------------------
(* Receipts *)

(* Mutant: a late "delivered" overwrites "read". *)
TransitionFromLoose(s) ==
  {"pending", "sent"} \cup (IF s = "failed" THEN {} ELSE {"delivered", "read"})

(* ackStatusTransitionFrom: from where a receipt may advance a row. *)
TransitionFrom(s) ==
  CASE s = "delivered" -> {"pending", "sent"}
    [] s = "read"      -> {"pending", "sent", "delivered"}
    [] s = "failed"    -> {"pending", "sent"}

Ack(m, s) ==
  /\ live /\ m \in accepted /\ <<m, s>> \notin receipts
  /\ receipts' = receipts \cup {<<m, s>>}
  /\ acks' = acks \cup {[msg |-> m, to |-> s, try |-> 1]}
  /\ UNCHANGED <<rows, sends, accepted, tasks, muts, sweep, index, life,
                 imports, hurt>>

(* The guarded update; a first one that met no row is tried again later. *)
Advance(a) ==
  LET m == a.msg
      hit == Taken(m) /\ Stored(m).status \in TransitionFrom(a.to) IN
  /\ \/ /\ hit
        /\ SetStored(m, [Stored(m) EXCEPT !.status = a.to])
        /\ acks' = acks \ {a} /\ UNCHANGED hurt
     \/ /\ ~hit
        /\ acks' = (acks \ {a}) \cup
                     (IF a.try = 1 THEN {[a EXCEPT !.try = 2]} ELSE {})
        /\ UNCHANGED <<rows, hurt>>
     \/ DbFails(m) /\ acks' = acks \ {a} /\ UNCHANGED rows
  /\ UNCHANGED <<sends, accepted, tasks, receipts, muts, sweep, index, life,
                 imports>>

-----------------------------------------------------------------------------
(* Reactions, edits and revokes *)

(* Mutant: a reaction reads the row when it arrives, not in its turn. *)
EnqueueRead(m, op) ==
  chain' = [chain EXCEPT ![m] = Append(@,
    IF op.kind = "reaction"
    THEN [op EXCEPT !.read = TRUE, !.marks = Stored(m).marks,
                    !.payload = Stored(m).payload]
    ELSE op)]

(* KeyedMutationQueue: one chain per message. *)
Enqueue(m, op) == chain' = [chain EXCEPT ![m] = Append(@, op)]

MutationArrives(m, op) ==
  /\ live /\ m \in accepted /\ Len(chain[m]) < MaxChain[m]
  /\ Enqueue(m, op)
  /\ wanted' = IF op.kind = "edit"
               THEN [wanted EXCEPT ![m].text = op.text]
               ELSE [wanted EXCEPT ![m].marks[op.who] = op.on]
  /\ early' = IF Taken(m) THEN early ELSE early \cup {m}
  /\ UNCHANGED <<rows, sends, accepted, tasks, ackVars, revoked, lost, sweep,
                 index, life, imports, hurt>>

Dequeue(m) == chain' = [chain EXCEPT ![m] = Tail(@)]

(* applyReaction, first half: the row's metadata are read. *)
ReadReactions(m) ==
  /\ chain[m] # <<>>
  /\ Head(chain[m]).kind = "reaction" /\ ~Head(chain[m]).read
  /\ \/ /\ Taken(m)
        /\ chain' = [chain EXCEPT ![m][1].read = TRUE,
                                  ![m][1].marks = Stored(m).marks,
                                  ![m][1].payload = Stored(m).payload]
        /\ UNCHANGED hurt
     \/ ~Taken(m) /\ Dequeue(m) /\ UNCHANGED hurt
     \/ DbFails(m) /\ Dequeue(m)
  /\ UNCHANGED <<rows, sends, accepted, tasks, ackVars, wanted, revoked, early,
                 lost, sweep, index, life, imports>>

(* Second half: the metadata column only is written, all of it. *)
WriteReactions(m) ==
  /\ chain[m] # <<>>
  /\ Head(chain[m]).kind = "reaction" /\ Head(chain[m]).read
  /\ LET op == Head(chain[m]) IN
     \/ /\ Taken(m)
        /\ SetStored(m, [Stored(m) EXCEPT
                           !.marks = [op.marks EXCEPT ![op.who] = op.on],
                           !.payload = op.payload])
        /\ UNCHANGED hurt
     \/ ~Taken(m) /\ UNCHANGED <<rows, hurt>>
     \/ DbFails(m) /\ UNCHANGED rows
  /\ Dequeue(m)
  /\ UNCHANGED <<sends, accepted, tasks, ackVars, wanted, revoked, early, lost,
                 sweep, index, life, imports>>

(* applyMessageEdit and recordOutboundMessageEdit. *)
ApplyEdit(m) ==
  /\ chain[m] # <<>> /\ Head(chain[m]).kind = "edit"
  /\ \/ /\ Taken(m)
        /\ SetStored(m, [Stored(m) EXCEPT !.text = Head(chain[m]).text])
        /\ UNCHANGED hurt
     \/ ~Taken(m) /\ UNCHANGED <<rows, hurt>>
     \/ DbFails(m) /\ UNCHANGED rows
  /\ Dequeue(m)
  /\ UNCHANGED <<sends, accepted, tasks, ackVars, wanted, revoked, early, lost,
                 sweep, index, life, imports>>

(* handleMessageRevoked and deleteMessage do not queue. *)
Revoke(m) ==
  /\ live /\ m \in accepted
  /\ revoked' = revoked \cup {m}
  /\ \/ /\ Taken(m)
        /\ SetStored(m, [Stored(m) EXCEPT !.text = ""])
        /\ UNCHANGED hurt
     \/ ~Taken(m) /\ UNCHANGED <<rows, hurt>>
     \/ DbFails(m) /\ UNCHANGED rows
  /\ UNCHANGED <<sends, accepted, tasks, ackVars, chain, wanted, early, lost,
                 sweep, index, life, imports>>

-----------------------------------------------------------------------------
(* History import: rows only, and nobody is told *)

(* The existing ids are read, the missing rows built. *)
ImportSelect(m) ==
  /\ live /\ m \notin importing /\ ~Taken(m) /\ MayJoin(m)
  /\ m \in Sends => m \in accepted
  /\ accepted' = accepted \cup {m}
  /\ importing' = importing \cup {m}
  /\ UNCHANGED <<rows, sends, tasks, ackVars, muts, sweep, index, life,
                 imported, hurt>>

(* Insert or ignore: the session may be gone by now, nobody looks. *)
ImportInsert(m) ==
  /\ m \in importing
  /\ importing' = importing \ {m}
  /\ \/ /\ ~Taken(m)
        /\ event' = [event EXCEPT ![m] = EventRow]
        /\ imported' = imported \cup {m}
     \/ Taken(m) /\ UNCHANGED <<event, imported>>
     \/ "db" \in Faults /\ UNCHANGED <<event, imported>>
  /\ UNCHANGED <<own, sends, accepted, tasks, ackVars, muts, sweep, index,
                 life, hurt>>

-----------------------------------------------------------------------------
(* PendingMessageReaper *)

Pending == {m \in Sends : own[m].status = "pending"}

(* Sweeps do not overlap.  Any PENDING row may be past the grace. *)
SweepStart ==
  /\ sweep = {} /\ Pending # {}
  /\ sweep' = Pending
  /\ UNCHANGED <<rows, sends, accepted, tasks, ackVars, muts, index, life,
                 imports, hurt>>

ReapedRow(m) == [own[m] EXCEPT !.status = "failed", !.payload = FALSE]

(* Mutant: the row is failed whatever it holds by now. *)
ReapBlind(m) ==
  /\ m \in sweep
  /\ sweep' = sweep \ {m}
  /\ IF Exists(own[m])
     THEN own' = [own EXCEPT ![m] = ReapedRow(m)] /\ Emit(m, "own", "failed")
     ELSE UNCHANGED <<own, index>>
  /\ UNCHANGED <<event, sends, accepted, tasks, ackVars, muts, life, imports,
                 hurt>>

(* Mutant: a row a statement failed on blocks the sweeps. *)
ReapStuck(m) ==
  /\ m \in sweep
  /\ \/ /\ own[m].status = "pending"
        /\ own' = [own EXCEPT ![m] = ReapedRow(m)] /\ sweep' = sweep \ {m}
        /\ m \notin hurt /\ Emit(m, "own", "failed") /\ UNCHANGED hurt
     \/ /\ own[m].status # "pending" /\ sweep' = sweep \ {m}
        /\ UNCHANGED <<own, index, hurt>>
     \/ DbFails(m) /\ UNCHANGED <<own, index, sweep>>
  /\ UNCHANGED <<event, sends, accepted, tasks, ackVars, muts, life, imports>>

(* reapRow: the guard is in the update; a failed one leaves the row for the
   next sweep. *)
Reap(m) ==
  /\ m \in sweep
  /\ sweep' = sweep \ {m}
  /\ \/ /\ own[m].status = "pending"
        /\ own' = [own EXCEPT ![m] = ReapedRow(m)]
        /\ Emit(m, "own", "failed") /\ UNCHANGED hurt
     \/ own[m].status # "pending" /\ UNCHANGED <<own, index, hurt>>
     \/ DbFails(m) /\ UNCHANGED <<own, index>>
  /\ UNCHANGED <<event, sends, accepted, tasks, ackVars, muts, life, imports>>

-----------------------------------------------------------------------------
(* The session under the messages *)

(* The bound on restarts and deletions. *)
Upsets == crashes + (IF deleted THEN 1 ELSE 0)

(* The engine leaves the registry; handlers in a hook belong to it. *)
Retire ==
  /\ live /\ live' = FALSE
  /\ stale' = stale \cup {e \in Reports : task[e] = "hook"}
  /\ UNCHANGED <<rows, sends, accepted, task, fanned, outliving, ackVars, muts,
                 sweep, index, deleted, crashes, imports, hurt>>

(* A start or a reconnect: one that overlaps a delete ends after it, with an
   engine for a session that is gone (SessionDeleteRace). *)
Revive ==
  /\ ~live /\ live' = TRUE
  /\ UNCHANGED <<rows, sends, accepted, tasks, ackVars, muts, sweep, index,
                 deleted, crashes, imports, hurt>>

(* delete purges the rows.  The engine has been retired by then, or another
   one was started meanwhile and is still registered. *)
Delete ==
  /\ "delete" \in Faults /\ ~deleted /\ Upsets < MaxUpsets
  /\ deleted' = TRUE
  /\ own' = [m \in Msgs |-> NoRow] /\ event' = [m \in Msgs |-> NoRow]
  /\ outliving' = {e \in Reports : task[e] = "hook" /\ e \notin stale}
  /\ UNCHANGED <<sends, accepted, task, stale, fanned, ackVars, muts, sweep,
                 index, live, crashes, imports, hurt>>

Holding == {"insert", "undo", "engine", "saveSent", "merge", "drop",
            "surviving", "saveFailed", "release"}

(* A restart forgets what was in flight, and its reservations. *)
Crash ==
  /\ "crash" \in Faults /\ Upsets < MaxUpsets
  /\ crashes' = crashes + 1 /\ live' = FALSE
  /\ hurt' = hurt \cup {m \in Sends : pc[m] \notin {"new", "over"}}
                  \cup {Of[e] : e \in {x \in Reports :
                                       task[x] \in {"hook", "stored", "fan"}}}
                  \cup {m \in Msgs : chain[m] # <<>>}
  /\ leaked' = leaked \cup {m \in Sends : pc[m] \in Holding}
  /\ pc' = [m \in Sends |-> IF pc[m] = "new" THEN "new" ELSE "over"]
  /\ task' = [e \in Reports |-> IF task[e] \in {"hook", "stored", "fan"}
                                THEN "dropped" ELSE task[e]]
  /\ acks' = {} /\ sweep' = {} /\ importing' = {}
  /\ chain' = [m \in Msgs |-> <<>>]
  /\ UNCHANGED <<rows, usage, apart, accepted, stale, fanned, outliving,
                 receipts, wanted, revoked, early, lost, index, deleted,
                 imported>>

-----------------------------------------------------------------------------
(* Specification *)

Init ==
  /\ own = [m \in Msgs |-> NoRow] /\ event = [m \in Msgs |-> NoRow]
  /\ pc = [m \in Sends |-> "new"] /\ usage = 0
  /\ accepted = {} /\ nameless = {} /\ unmetered = {} /\ leaked = {}
  /\ task = [e \in Reports |-> "none"] /\ stale = {} /\ outliving = {}
  /\ fanned = [m \in Msgs |-> 0]
  /\ acks = {} /\ receipts = {}
  /\ chain = [m \in Msgs |-> <<>>]
  /\ wanted = [m \in Msgs |-> [marks |-> NoMarks, text |-> "first"]]
  /\ revoked = {} /\ early = {} /\ lost = {}
  /\ importing = {} /\ imported = {}
  /\ sweep = {} /\ hurt = {}
  /\ index = [m \in Msgs |-> [own |-> "none", event |-> "none"]]
  /\ live = TRUE /\ deleted = FALSE /\ crashes = 0

Send(m) ==
  \/ Request(m) \/ Gate(m) \/ FindSession(m) \/ FindUser(m) \/ Reserve(m)
  \/ Insert(m) \/ Undo(m)
  \/ EngineAnswers(m) \/ SaveSent(m) \/ Merge(m) \/ Drop(m)
  \/ AnnounceSurvivor(m) \/ SaveFailed(m) \/ Release(m)

Touch(m) ==
  \/ \E op \in Ops[m] : MutationArrives(m, op)
  \/ ReadReactions(m) \/ WriteReactions(m) \/ ApplyEdit(m)

Next ==
  \/ \E m \in Sends : Send(m)
  \/ \E e \in Reports : Report(e) \/ Project(e) \/ FanOut(e)
  \/ \E r \in Acked : Ack(r[1], r[2])
  \/ \E a \in acks : Advance(a)
  \/ \E m \in Touched : Touch(m)
  \/ \E m \in Revocable : Revoke(m)
  \/ \E m \in Imports : ImportSelect(m) \/ ImportInsert(m)
  \/ SweepStart \/ \E m \in Sends : Reap(m)
  \/ Retire \/ Revive \/ Delete \/ Crash

Spec == Init /\ [][Next]_vars

(* The interval timer runs the sweep for as long as the process is up, and the
   database does not refuse the same update in every sweep: a row that is swept
   again and again is resolved in the end. *)
ReapDone(m) == Reap(m) /\ own'[m].status # "pending"
FairSpec ==
  Spec /\ WF_vars(SweepStart) /\ \A m \in Sends : SF_vars(ReapDone(m))

-----------------------------------------------------------------------------
(* Correctness *)

TypeOK ==
  /\ own \in [Msgs -> RowType] /\ event \in [Msgs -> RowType]
  /\ pc \in [Sends -> Calls] /\ usage \in 0..Limit
  /\ accepted \subseteq Msgs /\ nameless \subseteq Sends
  /\ unmetered \subseteq Sends /\ leaked \subseteq Sends
  /\ task \in [Reports -> {"none", "hook", "stored", "fan", "done", "dropped"}]
  /\ stale \subseteq Reports /\ outliving \subseteq Reports
  /\ fanned \in [Msgs -> Nat]
  /\ acks \subseteq [msg : Outgoing, to : Receipts, try : 1..2]
  /\ receipts \subseteq Acked
  /\ \A m \in Msgs : Len(chain[m]) <= MaxChain[m]
  /\ wanted \in [Msgs -> [marks : [Senders -> BOOLEAN], text : Texts]]
  /\ revoked \subseteq Msgs /\ early \subseteq Msgs
  /\ lost \subseteq Sends \X {"marks", "payload"}
  /\ importing \subseteq Msgs /\ imported \subseteq Msgs
  /\ sweep \subseteq Sends /\ hurt \subseteq Msgs
  /\ index \in [Msgs -> [own : Copies, event : Copies]]
  /\ live \in BOOLEAN /\ deleted \in BOOLEAN /\ crashes \in 0..MaxUpsets

(* The allowance is counted right: the user's counter is the number of sends
   WhatsApp has, that are still on their way, or whose reservation a fault
   (a restart, a rejected statement, a deleted session) kept - never less,
   and never more than the plan allows.  Only a send whose session was deleted
   after it found it is let through uncounted. *)
QuotaAccount ==
  /\ usage = Cardinality({m \in Sends \ unmetered : \/ pc[m] \in Holding
                                                    \/ m \in accepted
                                                    \/ m \in leaked})
  /\ usage <= Limit

(* The order delivery states come in; a row may skip some. *)
After(s) == CASE s = "sent"      -> {"sent", "delivered", "read", "failed"}
              [] s = "delivered" -> {"delivered", "read"}
              [] OTHER           -> {s}

(* "Delivery state only advances": whatever order receipts, retries, reactions
   and saves come in, a row with an id never goes back, neither from read to
   delivered nor to failed.  The send that finds its echo's row stored before
   is the one exception: it sets the row to SENT without looking. *)
AcksAdvance ==
  [][\A m \in Msgs : Taken(m) /\ Taken(m)' =>
        \/ Stored(m)'.status \in After(Stored(m).status)
        \/ m \in Sends /\ pc[m] = "merge"]_vars

(* Whichever of the send and its echo stores the message first, one row is
   left when the call returns, it carries the id and, for media, the payload,
   and a search provider has a copy of that row and of no other.  The payload
   alone may go, by a reaction that read the echo's row before the merge and
   writes it back after. *)
OneCopy ==
  \A m \in Sends :
    pc[m] = "over" /\ m \in accepted /\ m \notin hurt \cup nameless /\ ~deleted
    => /\ Taken(m)
       /\ Exists(own[m]) # Exists(event[m])
       /\ \/ Stored(m).payload = (m \in Media)
          \/ <<m, "payload">> \in lost
       /\ index[m] = [own   |-> IF Exists(own[m]) THEN "sent" ELSE "none",
                      event |-> IF Exists(own[m]) THEN "none" ELSE "sent"]

(* A message WhatsApp accepted is not shown as failed by a sweep that found it
   PENDING before its outcome was stored: only a receipt says so. *)
NotFailedOnceSent ==
  \A m \in Sends :
    pc[m] = "over" /\ m \in accepted /\ m \notin hurt
      /\ <<m, "failed">> \notin receipts
    => own[m].status # "failed" /\ event[m].status # "failed"

(* An arriving message goes out once however often the engine reports it, and
   a report that was handled to its end without a fault means it went out or
   is about to - unless the history import stored the row first, which the
   handler takes for an earlier report, or the session was deleted under a
   live engine: with the rows, what tells a report from its repetition went. *)
ReceivedOnce ==
  \A e \in Reports :
    Of[e] \in Inbound \ hurt =>
      /\ fanned[Of[e]] <= 1 \/ \E x \in outliving : Of[x] = Of[e]
      /\ task[e] = "done" /\ Of[e] \notin imported =>
           \/ fanned[Of[e]] >= 1
           \/ \E x \in Reports : Of[x] = Of[e] /\ task[x] = "stored"

(* Reactions and edits of one message take effect in the order they arrived,
   none overwrites another, and no receipt undoes them.  The merge of a send
   that carries media or quotes a message does: it overwrites the reactions the
   echo's row had.  A revoke empties the text outside the queue. *)
MutationsKept ==
  \A m \in Touched :
    chain[m] = <<>> /\ Taken(m) /\ m \notin hurt \cup early /\ ~deleted
    => /\ Stored(m).marks = wanted[m].marks \/ <<m, "marks">> \in lost
       /\ m \notin revoked => Stored(m).text = wanted[m].text

(* A handler that was in its hook when its engine was retired for the delete
   stores no row nobody would ever purge.  A handler of an engine that is
   still live after the delete does, and so does the history import, which has
   no such check. *)
NoOrphanRows ==
  deleted => \A m \in Msgs : Exists(event[m]) =>
               m \in imported \/ \E e \in outliving : Of[e] = m

(* A send whose outcome was never stored - the process died, the statement was
   refused - does not stay PENDING for ever: in the end no row is. *)
PendingResolves == <>[](Pending = {})
=============================================================================
