------------------------- MODULE MCDeliveryWebhook -------------------------
(* Small instances of DeliveryWebhook for TLC. *)
EXTENDS DeliveryWebhook, TLC

CONSTANTS twilio, bird, m1, m2, h1, h2

TwoProviders == {twilio, bird}
OnlyBird == {bird}
OneMessage == {m1}
TwoMessages == {m1, m2}
OneHandler == {h1}
TwoHandlers == {h1, h2}

(* A success, a failure and a report that is ignored. *)
Outcomes == (twilio :> {"delivered", "failed", "queued"}) @@ (bird :> {"sms.delivered"})
BirdOutcomes == bird :> {"sms.accepted", "sms.delivered", "sms.rejected"}

(* Messages and handlers are interchangeable. Only used by safety runs. *)
Symmetry == Permutations(Messages) \cup Permutations(Handlers)
=============================================================================
