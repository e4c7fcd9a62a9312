---------------------------- MODULE ErrorCatalog ----------------------------
(***************************************************************************)
(* The errors the service raises on purpose and the HTTP status each is    *)
(* answered with. Texts and details are left out.                          *)
(***************************************************************************)
EXTENDS Naturals

BadRequest ==
    {"SMS_IDEMPOTENCY_KEY_REQUIRED", "SMS_IDEMPOTENCY_KEY_TOO_LONG", "SMS_MESSAGE_TOO_LONG",
     "WEBHOOK_TWILIO_PAYLOAD_INVALID", "WEBHOOK_BIRD_PAYLOAD_INVALID"}
Forbidden == {"WEBHOOK_TWILIO_SIGNATURE_INVALID", "WEBHOOK_BIRD_SIGNATURE_INVALID"}
NotFound == {"SMS_MESSAGE_NOT_FOUND"}
Conflict == {"SMS_IDEMPOTENCY_CONFLICT", "SMS_REQUEUE_NOT_ELIGIBLE", "SMS_REQUEUE_CONFLICT"}

(* Errors of the worker and of startup: no client sees them. *)
Internal ==
    {"QUEUE_UNSUPPORTED_JOB", "QUEUE_INVALID_JOB_PAYLOAD", "PROVIDER_PRIORITY_EMPTY",
     "PROVIDER_NONE_CONFIGURED", "PROVIDER_UNKNOWN", "PROVIDER_NOT_REGISTERED",
     "PROVIDER_DUPLICATE", "RATE_LIMIT_STORE_INVALID_RESPONSE", "RATE_LIMIT_NOT_CONFIGURED",
     "RETRY_INVALID_CONFIGURATION"}

ErrorCode == BadRequest \cup Forbidden \cup NotFound \cup Conflict \cup Internal
                 \cup {"SMS_QUEUE_PUBLISH_FAILED"}

HttpStatus(code) ==
    CASE code \in BadRequest -> 400
      [] code \in Forbidden -> 403
      [] code \in NotFound -> 404
      [] code \in Conflict -> 409
      [] OTHER -> 500

(***************************************************************************)
(* AppErrorFilter answers an error of the catalogue with its status. What  *)
(* is no AppError is left to the framework: a refused DTO, which is        *)
(* "invalid body" here, is 400 and an unexpected exception is 500.         *)
(***************************************************************************)
AnswerTo(error) ==
    CASE error \in ErrorCode -> HttpStatus(error)
      [] error = "invalid body" -> 400
      [] OTHER -> 500

IsClientError(error) == AnswerTo(error) \in 400 .. 499
=============================================================================
