------------------------- MODULE MCWebhookDelivery --------------------------
(* Webhook deliveries: instances for the run of README.md. *)
EXTENDS WebhookDelivery, TLC
CONSTANTS d1, d2, d3, e1, e2
MCEventOf == (d1 :> e1) @@ (d2 :> e1) @@ (d3 :> e2)
=============================================================================
