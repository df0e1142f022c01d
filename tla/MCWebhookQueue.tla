--------------------------- MODULE MCWebhookQueue ---------------------------
(* Instances of WebhookQueue for TLC. *)
EXTENDS WebhookQueue
=============================================================================
