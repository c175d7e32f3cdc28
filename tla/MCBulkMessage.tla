---------------------------- MODULE MCBulkMessage ----------------------------
(* BulkMessage for TLC: batches are interchangeable, and so are clients. *)
EXTENDS BulkMessage, TLC

Symmetry == Permutations(Batches) \cup Permutations(Clients)
==============================================================================
