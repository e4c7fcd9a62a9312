---------------------------- MODULE SmsMessages ----------------------------
(***************************************************************************)
(* The row of table sms_messages and the UPDATE statements of SmsService.  *)
(* Every statement is an operator from the row it finds to the row it      *)
(* leaves; a conditional statement comes with the condition of its WHERE.  *)
(* Recipient, body, metadata and lastError are left out (no property reads *)
(* them) and a timestamp is only "set" or "unset".                         *)
(***************************************************************************)
EXTENDS Naturals, SmsStatus

CONSTANTS Providers,  \* the provider names
          Null        \* the SQL NULL

ASSUME NullAssumption == Null \notin Providers /\ Null \notin Nat

Timestamp == {"set", "unset"}

(***************************************************************************)
(* A provider message id is the number of the acceptance it stands for, so *)
(* two sends the provider accepted never share one.                        *)
(***************************************************************************)
SmsMessage == [status: SmsStatuses,
               selectedProvider: Providers \cup {Null},
               providerMessageId: Nat \cup {Null},
               sentAt: Timestamp,
               deliveredAt: Timestamp,
               failedAt: Timestamp,
               attempts: Nat]

(* createQueuedMessage: the row as it is inserted. *)
QueuedMessage == [status |-> "QUEUED", selectedProvider |-> Null,
                  providerMessageId |-> Null, sentAt |-> "unset",
                  deliveredAt |-> "unset", failedAt |-> "unset", attempts |-> 0]

(* markQueuePublishFailed: unconditional. *)
MarkQueuePublishFailed(r) == [r EXCEPT !.status = "FAILED", !.failedAt = "set"]

(* markProcessing: WHERE status IN (QUEUED, PROCESSING). *)
MayMarkProcessing(r) == r.status \in ClaimableStatuses
MarkProcessing(r) == [r EXCEPT !.status = "PROCESSING"]

IncrementAttempts(r) == [r EXCEPT !.attempts = @ + 1]

(* markSent: unconditional. deliveredAt is left as it was. *)
MarkSent(r, provider, pid) ==
    [r EXCEPT !.status = "SENT", !.selectedProvider = provider,
              !.providerMessageId = pid, !.sentAt = "set", !.failedAt = "unset"]

(* markFatalFailure: unconditional. *)
MarkFatalFailureKeepingId(r, provider) ==
    [r EXCEPT !.status = "FATAL_FAILURE", !.selectedProvider = provider,
              !.sentAt = "unset", !.failedAt = "set"]
MarkFatalFailure(r, provider) ==
    [r EXCEPT !.status = "FATAL_FAILURE", !.selectedProvider = provider,
              !.providerMessageId = Null, !.sentAt = "unset", !.failedAt = "set"]

(* transitionFatalFailureToQueued: WHERE status = FATAL_FAILURE. *)
MayTransitionAlways(r) == TRUE
MayTransitionToQueued(r) == r.status = "FATAL_FAILURE"
TransitionFatalFailureToQueued(r) ==
    [r EXCEPT !.status = "QUEUED", !.selectedProvider = Null,
              !.providerMessageId = Null, !.sentAt = "unset", !.failedAt = "unset"]

(* restoreFatalFailureAfterRequeueFailure: unconditional, with the provider  *)
(* of the row as it was read before the transition.                          *)
RestoreFatalFailure(r, provider) ==
    [r EXCEPT !.status = "FATAL_FAILURE", !.selectedProvider = provider,
              !.providerMessageId = Null, !.sentAt = "unset", !.failedAt = "set"]

(***************************************************************************)
(* applyDeliveryStatus with the timestamps of buildTimestamps: WHERE the   *)
(* status is one the incoming status may replace.                          *)
(***************************************************************************)
MayApplyDeliveryStatus(r, status) == r.status \in AllowedPreviousStatusesFor(status)
ApplyWithoutClearingFailure(r, status) ==
    CASE status = "DELIVERED" ->
            [r EXCEPT !.status = status, !.deliveredAt = "set"]
      [] status \in DELIVERY_FAILURE_STATUSES ->
            [r EXCEPT !.status = status, !.failedAt = "set"]
      [] OTHER -> [r EXCEPT !.status = status, !.sentAt = "set"]
ApplyDeliveryStatus(r, status) ==
    CASE status = "DELIVERED" ->
            [r EXCEPT !.status = status, !.deliveredAt = "set", !.failedAt = "unset"]
      [] status \in DELIVERY_FAILURE_STATUSES ->
            [r EXCEPT !.status = status, !.failedAt = "set"]
      [] OTHER -> [r EXCEPT !.status = status, !.sentAt = "set"]
=============================================================================
