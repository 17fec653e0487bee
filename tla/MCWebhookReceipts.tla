------------------------ MODULE MCWebhookReceipts ------------------------
(* Instances of WebhookReceipts for TLC. *)
EXTENDS WebhookReceipts, TLC

\* Not used with temporal properties.
Symmetry ==
    Permutations(Deliveries) \cup Permutations(Deployments) \cup Permutations(Handlers)

==========================================================================
