-------------------------- MODULE MCWebhookIntake --------------------------
(* A small instance of WebhookIntake for TLC. *)
EXTENDS WebhookIntake

CONSTANTS twilio, bird, h1, h2, code, dashes

TwoProviders == {twilio, bird}
TwoHandlers == {h1, h2}

(* An error code that is a JSON number, and one without a letter or digit. *)
Once == {2}
Numbers == {code}
Dashes == {dashes}

BirdCopy(w, type, smsId, error, signed) ==
    [provider |-> bird, webhookId |-> w, signed |-> signed,
     payload |-> [type |-> type, sms_id |-> smsId, code |-> error]]
TwilioCopy(sid, status, error, signed) ==
    [provider |-> twilio, webhookId |-> Null, signed |-> signed,
     payload |-> [MessageSid |-> Null, SmsSid |-> sid, MessageStatus |-> status,
                  SmsStatus |-> "sent", ErrorCode |-> error]]

SomeDeliveries ==
    {BirdCopy("w1", "sms.delivered", 1, Null, TRUE),
     BirdCopy("w2", "sms.undelivered", 1, code, TRUE),
     BirdCopy("w3", "sms.failed", 1, dashes, FALSE),
     BirdCopy("w4", "sms.rejected", Null, Null, TRUE),
     TwilioCopy(1, "delivered", Null, TRUE),
     TwilioCopy(2, "delivered", Null, TRUE),
     TwilioCopy(1, "queued", Null, TRUE),
     TwilioCopy(1, "failed", code, TRUE),
     TwilioCopy(1, "canceled", code, FALSE),
     TwilioCopy(1, "undelivered", dashes, TRUE)}

(* Both name the id that the other provider gave the message. *)
SomeStray == {BirdCopy("w1", "sms.delivered", 1, Null, TRUE),
              TwilioCopy(1, "failed", code, TRUE)}
=============================================================================
