----------------------------- MODULE SmsStatus -----------------------------
(***************************************************************************)
(* The statuses of an SMS message and the two policies the service is      *)
(* built on: which statuses a queue job may act on (the dispatcher), and   *)
(* which statuses a provider callback may replace (the delivery policy).   *)
(***************************************************************************)

SmsStatuses == {"QUEUED", "PROCESSING", "SENT", "DELIVERED", "UNDELIVERED",
                "REJECTED", "FAILED", "FATAL_FAILURE"}

(* SmsService.markProcessing: the statuses a worker may claim. *)
ClaimableStatusesQueuedOnly == {"QUEUED"}
ClaimableStatuses == {"QUEUED", "PROCESSING"}

(* The statuses a job skips without trying to claim the row. *)
NON_DISPATCHABLE_STATUSES ==
    {"SENT", "DELIVERED", "UNDELIVERED", "REJECTED", "FAILED", "FATAL_FAILURE"}

DELIVERY_FAILURE_STATUSES == {"UNDELIVERED", "REJECTED", "FAILED"}

DELIVERY_TERMINAL_STATUSES == {"DELIVERED"} \cup DELIVERY_FAILURE_STATUSES

(***************************************************************************)
(* The statuses a message may be in just before a callback that reports    *)
(* `status' is applied. The empty set stands for the null of the code:     *)
(* the callback is then ignored.                                           *)
(***************************************************************************)
AllowedLastWriteWins(status) ==
    IF status \in DELIVERY_TERMINAL_STATUSES
        THEN {"QUEUED", "PROCESSING", "SENT"} \cup DELIVERY_TERMINAL_STATUSES
        ELSE {"QUEUED", "PROCESSING"}
AllowedPreviousStatusesFor(status) ==
    CASE status = "SENT" -> {"QUEUED", "PROCESSING"}
      [] status = "DELIVERED" ->
            {"QUEUED", "PROCESSING", "SENT"} \cup DELIVERY_FAILURE_STATUSES
      [] status \in DELIVERY_FAILURE_STATUSES -> {"QUEUED", "PROCESSING", "SENT"}
      [] OTHER -> {}
=============================================================================
