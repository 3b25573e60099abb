------------------------- MODULE MCWebhookDelivery -------------------------
(* Constants of WebhookDelivery are numbers and job ids, given in the      *)
(* configurations.                                                         *)
EXTENDS WebhookDelivery
=============================================================================
