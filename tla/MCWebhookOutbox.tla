-------------------------- MODULE MCWebhookOutbox --------------------------
(* Instances of WebhookOutbox for TLC; the constants are given in the cfgs. *)
EXTENDS WebhookOutbox
=============================================================================
