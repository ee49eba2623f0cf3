----------------------------- MODULE MCWebhooks -----------------------------
(* Instances of Webhooks for TLC. *)
EXTENDS Webhooks, TLC

Symmetry == Permutations(Runs) \cup Permutations(Deliveries)
=============================================================================
