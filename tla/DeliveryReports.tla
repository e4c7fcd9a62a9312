-------------------------- MODULE DeliveryReports --------------------------
(* What the statuses that Twilio and Bird report mean for a message. *)
EXTENDS SmsMessages

(* mapTwilioStatus and mapBirdEventType; Null when the report is ignored. *)
TwilioStatus(report) ==
    CASE report = "sent" -> "SENT"
      [] report = "delivered" -> "DELIVERED"
      [] report = "undelivered" -> "UNDELIVERED"
      [] report = "failed" -> "FAILED"
      [] report = "canceled" -> "REJECTED"
      [] OTHER -> Null

BirdStatus(report) ==
    CASE report = "sms.sent" -> "SENT"
      [] report = "sms.delivered" -> "DELIVERED"
      [] report \in {"sms.undelivered", "sms.expired"} -> "UNDELIVERED"
      [] report = "sms.failed" -> "FAILED"
      [] report = "sms.rejected" -> "REJECTED"
      [] OTHER -> Null
=============================================================================
