------------------------- MODULE MCSessionLifecycle -------------------------
(* Instances of SessionLifecycle for TLC. *)
EXTENDS SessionLifecycle, TLC

(* Engine instances and slots are interchangeable. *)
Symmetry == Permutations(Engines) \cup Permutations(Slots)
=============================================================================
