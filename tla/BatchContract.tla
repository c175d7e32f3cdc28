--------------------------- MODULE BatchContract ----------------------------
(***************************************************************************)
(* What the bulk endpoint promises for a batch, without how it is kept:    *)
(* a batch moves from pending to processing to one terminal status that    *)
(* never changes again, no message of it is sent twice, and once it reads  *)
(* CANCELLED at most the message already under way still goes out.         *)
(***************************************************************************)
EXTENDS Integers

CONSTANTS
  Batches,
  Size        (* messages of a batch *)

VARIABLES
  status,     (* status of each batch *)
  delivered,  (* messages WhatsApp accepted, by index *)
  underway    (* a cancelled batch still has a message under way *)

vars == <<status, delivered, underway>>

Terminal == {"completed", "cancelled", "failed"}

Init ==
  /\ status = [b \in Batches |-> "none"]
  /\ delivered = [b \in Batches |-> {}]
  /\ underway = [b \in Batches |-> FALSE]

Move(b, from, to) ==
  /\ status[b] \in from
  /\ status' = [status EXCEPT ![b] = to]

Submit(b) == Move(b, {"none"}, "pending") /\ UNCHANGED <<delivered, underway>>
Begin(b)  == Move(b, {"pending"}, "processing") /\ UNCHANGED <<delivered, underway>>

Deliver(b) ==
  /\ status[b] = "processing" \/ underway[b]
  /\ \E i \in (0..(Size - 1)) \ delivered[b] :
       delivered' = [delivered EXCEPT ![b] = @ \cup {i}]
  /\ underway' = [underway EXCEPT ![b] = FALSE]
  /\ UNCHANGED status

Cancel(b) ==
  /\ Move(b, {"pending", "processing"}, "cancelled")
  /\ \E u \in BOOLEAN : underway' = [underway EXCEPT ![b] = u]
  /\ UNCHANGED delivered

(* Messages that were under way are not sent after all. *)
Abandon ==
  /\ \E lost \in SUBSET Batches :
       underway' = [b \in Batches |-> underway[b] /\ b \notin lost]
  /\ UNCHANGED <<status, delivered>>

Finish(b) ==
  /\ \E to \in {"completed", "failed"} : Move(b, {"processing"}, to)
  /\ UNCHANGED <<delivered, underway>>

(* A restart fails whatever was being processed. *)
Restart ==
  /\ status' = [b \in Batches |->
                  IF status[b] = "processing" THEN "failed" ELSE status[b]]
  /\ UNCHANGED <<delivered, underway>>

(* The session is deleted, and its batches with it. *)
Remove ==
  /\ status' = [b \in Batches |-> "gone"]
  /\ underway' = [b \in Batches |-> FALSE]
  /\ UNCHANGED delivered

Next ==
  \/ \E b \in Batches : \/ Submit(b) \/ Begin(b) \/ Deliver(b) \/ Cancel(b)
                        \/ Finish(b)
  \/ Abandon \/ Restart \/ Remove

Spec == Init /\ [][Next]_vars
=============================================================================
