-------------------------- MODULE MCWebhookDelivery --------------------------
(* Values of WebhookDelivery's constants for TLC.                           *)
EXTENDS WebhookDelivery

CONSTANTS d1, d2
=============================================================================
