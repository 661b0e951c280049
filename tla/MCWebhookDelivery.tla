-------------------------- MODULE MCWebhookDelivery --------------------------
(* Small instances of WebhookDelivery for TLC.                               *)
EXTENDS WebhookDelivery, TLC

(* Interchangeable rows, workers and tokens (safety runs only).              *)
Symmetry == Permutations(Rows) \cup Permutations(Workers) \cup Permutations(Tokens)
=============================================================================
