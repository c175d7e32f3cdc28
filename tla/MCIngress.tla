------------------------------ MODULE MCIngress -----------------------------
(* Webhook ingress: instances for the run of README.md. *)
EXTENDS Ingress, TLC
CONSTANTS d1, d2, conv
MCCostOf == ("crash" :> 2) @@ ("db" :> 3) @@ ("redis" :> 3)
MCLaneOf == (d1 :> conv) @@ (d2 :> conv)
=============================================================================
