------------------------- MODULE DeliveryLifecycle -------------------------
(***************************************************************************)
(* What the service promises about the status of a message once delivery   *)
(* reports arrive, in any order and any number: the send flow moves it as  *)
(* in MessageLifecycle, a report settles a sent message, the first failure *)
(* stands unless the message turns out to be delivered, and DELIVERED is   *)
(* for good.                                                               *)
(***************************************************************************)
EXTENDS MessageLifecycle

Failures == {"UNDELIVERED", "REJECTED", "FAILED"}

Settle(m) == \E s \in Failures \cup {"DELIVERED"} : Move(m, "SENT", s)
Upgrade(m) == \E s \in Failures : Move(m, s, "DELIVERED")

DeliveryNext == Next \/ \E m \in Messages : Settle(m) \/ Upgrade(m)

DeliverySpec == Init /\ [][DeliveryNext]_status
=============================================================================
