--------------------------- MODULE WebhookIntake ---------------------------
(***************************************************************************)
(* How a callback gets from the HTTP request to the row: signature, age,   *)
(* payload, deduplication claim and answer, for the callbacks on one sent  *)
(* message. DeliveryWebhook starts where a callback is accepted and has no *)
(* clock; here time decides which copies of a delivery are still accepted  *)
(* and which claims still stand.                                           *)
(***************************************************************************)
EXTENDS DeliveryReports, Integers, FiniteSets

CONSTANTS Bird, Twilio,
          Deliveries,  \* what the providers may send about the message
          Handlers,    \* callbacks handled at the same time
          Numeric,     \* payload values that are numbers, not strings
          Unprintable, \* payload values without a letter or digit
          Tolerance,   \* BIRD_WEBHOOK_TOLERANCE_SECONDS
          SdkWindow,   \* the window Bird's SDK enforces itself
          Ttl,         \* WEBHOOK_IDEMPOTENCY_TTL_SECONDS
          \* Bounds of the model, not of the code:
          Stray,       \* deliveries that arrive although the other provider sent the message
          Signed,      \* when the first copies were signed; later ones are signed anew
          MaxDelay,    \* ticks between the verification of a copy and its claim
          Horizon,     \* when the clock stops
          MaxFaults    \* calls that fail, answers that are lost, crashes

ASSUME IntakeAssumption ==
    /\ {Bird, Twilio} \subseteq Providers /\ Bird # Twilio
    /\ Ttl \in Nat \ {0} /\ {Tolerance, SdkWindow} \subseteq Nat
    /\ {MaxDelay, Horizon, MaxFaults} \subseteq Nat /\ Signed \subseteq 0 .. Horizon

(* Bird's webhook-id names one delivery; diagnostics are no absent fields. *)
ASSUME DeliveriesAssumption ==
    /\ \A d, e \in Deliveries :
        d.provider = Bird /\ e.provider = Bird /\ d.webhookId = e.webhookId /\ d.webhookId # Null
            => d = e
    /\ Null # "UNKNOWN" /\ Null \notin Unprintable /\ "UNKNOWN" \notin Unprintable

VARIABLES now,
          config,    \* BIRD_WEBHOOK_SECRET and TWILIO_AUTH_TOKEN set
          row,       \* the row of the message
          lastError, \* its last_error
          expiry,    \* sms:webhook:bird:{webhookId}: when the claim ends
          handler,   \* what each callback handler is doing
          faults,    \* calls that failed, and claims that nobody releases any more
          \* History, read by no action:
          done,      \* Bird's deliveries that were processed to the end
          originals, \* the copies of the first signing among them
          contested, \* deliveries claimed while a handler was still at work on them
          \* Deliveries answered 204 as duplicates before they were done:
          overtaken, \* while a handler was at work on them
          dropped    \* with no handler at work on them

service == <<row, lastError, expiry>>
history == <<done, originals, contested, overtaken, dropped>>
vars == <<now, config, service, handler, faults, history>>

-----------------------------------------------------------------------------
(***************************************************************************)
(* A delivery has a provider, the webhook-id header of Bird (Null without  *)
(* it), a payload, and whether its signature is the one of its bytes and   *)
(* of the URL it was sent to. A field of a payload that is absent, blank   *)
(* or not a scalar is Null. Bird ignores numbers, Twilio takes them.       *)
(***************************************************************************)
BirdString(v) == IF v \in Numeric THEN Null ELSE v

ExtractBirdDeliveryEvent(p) ==
    [id |-> BirdString(p.sms_id), status |-> BirdString(p.type), code |-> BirdString(p.code)]

FirstOf(a, b) == IF a # Null THEN a ELSE b
ExtractTwilioStatusCallback(p) ==
    [id |-> FirstOf(p.MessageSid, p.SmsSid), status |-> FirstOf(p.MessageStatus, p.SmsStatus),
     code |-> p.ErrorCode]

Report(d) == IF d.provider = Bird THEN ExtractBirdDeliveryEvent(d.payload)
                                  ELSE ExtractTwilioStatusCallback(d.payload)
Complete(d) == Report(d).id # Null /\ Report(d).status # Null

StatusOf(d) == IF d.provider = Bird THEN BirdStatus(Report(d).status)
                                    ELSE TwilioStatus(Report(d).status)

(* The error code, or else the reported status, as an upper-case token. *)
SanitizeNothing(v) == v
SanitizeDiagnosticCode(v) == IF v \in Unprintable THEN "UNKNOWN" ELSE v
LastErrorOfAnyStatus(d) == SanitizeDiagnosticCode(FirstOf(Report(d).code, Report(d).status))
BuildLastError(d) ==
    IF StatusOf(d) \in {"DELIVERED", "SENT"} THEN Null
    ELSE SanitizeDiagnosticCode(FirstOf(Report(d).code, Report(d).status))

-----------------------------------------------------------------------------
(* Verification. *)

Distance(a, b) == IF a > b THEN a - b ELSE b - a

VerifyTimestampOfPast(stamp) == now - stamp <= Tolerance
VerifyTimestamp(stamp) == Distance(now, stamp) <= Tolerance

(***************************************************************************)
(* verify: secret, body, headers and age, and then Bird's SDK, which looks *)
(* at the signature and once more at the age. An SDK client that could not *)
(* be built is built by the next callback; this one counts as unsigned.    *)
(***************************************************************************)
BirdVerifies(d, stamp) ==
    /\ config.secret /\ d.payload # Null /\ d.webhookId # Null /\ VerifyTimestamp(stamp)
    /\ d.signed /\ Distance(now, stamp) <= SdkWindow

TwilioVerifies(d) == config.authToken /\ d.signed

HandlerPcs == {"idle", "claim", "find", "update", "release"}
Handler == [pc: HandlerPcs, delivery: Deliveries \cup {Null}, stamp: Int, at: Nat]
IdleHandler == [pc |-> "idle", delivery |-> Null, stamp |-> -1, at |-> 0]

WebhookIds == {d.webhookId : d \in Deliveries} \ {Null}

Init ==
    /\ now = 0
    /\ config \in [secret: BOOLEAN, authToken: BOOLEAN]
    /\ row \in {MarkSent(MarkProcessing(QueuedMessage), p, 1) : p \in {Bird, Twilio}}
    /\ lastError = Null
    /\ expiry = [w \in WebhookIds |-> 0]
    /\ handler = [h \in Handlers |-> IdleHandler]
    /\ faults = [errors |-> 0, stale |-> 0]
    /\ done = {} /\ originals = {} /\ contested = {} /\ overtaken = {} /\ dropped = {}

FaultHappens(kind) ==
    /\ faults.errors + faults.stale < MaxFaults
    /\ faults' = [faults EXCEPT ![kind] = @ + 1]

Goto(h, pc) == handler' = [handler EXCEPT ![h].pc = pc]

(* The provider is answered, and the handler is done. *)
Answer(h) == handler' = [handler EXCEPT ![h] = IdleHandler]

(* An exception: the claim is released first, unless the claim itself failed. *)
Throw(h) ==
    handler' = [handler EXCEPT ![h] =
        IF @.delivery.provider = Bird /\ @.pc \in {"find", "update"}
            THEN [@ EXCEPT !.pc = "release"] ELSE IdleHandler]

Copy(h) == <<handler[h].delivery, handler[h].stamp>>
(* 204, after the work. *)
Finish(h) ==
    /\ Answer(h)
    /\ done' = done \cup {d \in {handler[h].delivery} : d.provider = Bird}
    /\ originals' = originals \cup {c \in {Copy(h)} : c[2] \in Signed}
    /\ overtaken' = overtaken \ {handler[h].delivery}
    /\ dropped' = dropped \ {handler[h].delivery}
    /\ UNCHANGED contested

(* A handler that claimed the delivery has not answered yet. *)
AtWork(d) ==
    \E h \in Handlers : handler[h].delivery = d /\ handler[h].pc \in {"find", "update", "release"}

(* 204, because of a claim; of interest until a claim is left behind. *)
TurnAway(h) ==
    LET d == handler[h].delivery IN
    /\ Answer(h)
    /\ IF d \in done \/ faults.stale > 0 THEN UNCHANGED <<overtaken, dropped>>
       ELSE IF AtWork(d) THEN overtaken' = overtaken \cup {d} /\ UNCHANGED dropped
       ELSE dropped' = dropped \cup {d} /\ UNCHANGED overtaken
    /\ UNCHANGED <<done, originals, contested>>

-----------------------------------------------------------------------------
(* A copy of the first signing; of later ones only the delivery is remembered. *)
Copied(stamp) == IF stamp \in Signed THEN stamp ELSE -1

(***************************************************************************)
(* The provider that sent the message reports on it, and the other one may *)
(* name its id too: ids are unique per provider only, and the check of the *)
(* provider is Find's.                                                     *)
(***************************************************************************)
Arrives(d) == row.selectedProvider = d.provider \/ d \in Stray

(***************************************************************************)
(* A copy arrives, in time, late, early, or again. One that is refused,    *)
(* with 403 or 400, changes nothing.                                       *)
(***************************************************************************)
ReceiveBird(h, d, stamp) ==
    /\ handler[h].pc = "idle" /\ d.provider = Bird /\ Arrives(d)
    /\ BirdVerifies(d, stamp) /\ Complete(d)
    /\ handler' = [handler EXCEPT ![h] = [pc |-> "claim", delivery |-> d,
                                          stamp |-> Copied(stamp), at |-> now]]
    /\ UNCHANGED <<now, config, service, faults, history>>

(* Twilio's copies carry no time and no id to claim. *)
ReceiveTwilio(h, d) ==
    /\ handler[h].pc = "idle" /\ d.provider = Twilio /\ Arrives(d)
    /\ TwilioVerifies(d) /\ Complete(d)
    /\ handler' = [handler EXCEPT ![h] = [IdleHandler EXCEPT !.pc = "find", !.delivery = d]]
    /\ UNCHANGED <<now, config, service, faults, history>>

ClaimKeyOfMessage(d) == CHOOSE w \in WebhookIds : TRUE
ClaimKey(d) == d.webhookId

(* claimBirdWebhook: SET NX EX. *)
Claim(h) ==
    LET d == handler[h].delivery
        k == ClaimKey(d) IN
    /\ handler[h].pc = "claim"
    /\ \/ /\ expiry[k] > now
          /\ TurnAway(h)
          /\ UNCHANGED <<expiry, faults>>
       \/ /\ expiry[k] <= now
          /\ expiry' = [expiry EXCEPT ![k] = now + Ttl]
          /\ \/ handler' = [handler EXCEPT ![h].pc = "find", ![h].at = 0] /\ UNCHANGED faults
             \/ Throw(h) /\ FaultHappens("stale")
          /\ contested' = contested \cup {e \in {d} : AtWork(e)}
          /\ UNCHANGED <<done, originals, overtaken, dropped>>
    /\ UNCHANGED <<now, config, row, lastError>>

(***************************************************************************)
(* findByProviderMessageId. A status without a meaning and an unknown id   *)
(* are answered like a success.                                            *)
(***************************************************************************)
Find(h) ==
    LET d == handler[h].delivery IN
    /\ handler[h].pc = "find"
    /\ IF StatusOf(d) # Null
             /\ row.selectedProvider = d.provider /\ row.providerMessageId = Report(d).id
          THEN Goto(h, "update") /\ UNCHANGED history
          ELSE Finish(h)
    /\ UNCHANGED <<now, config, service, faults>>

(* applyDeliveryStatus: status and last_error in one conditional UPDATE. *)
Update(h) ==
    LET d == handler[h].delivery IN
    /\ handler[h].pc = "update"
    /\ IF MayApplyDeliveryStatus(row, StatusOf(d))
          THEN row' = ApplyDeliveryStatus(row, StatusOf(d)) /\ lastError' = BuildLastError(d)
          ELSE UNCHANGED <<row, lastError>>
    /\ \/ Finish(h) /\ UNCHANGED faults
       \/ Throw(h) /\ FaultHappens("errors") /\ UNCHANGED history
    /\ UNCHANGED <<now, config, expiry>>

ReleaseNothing(h) ==
    /\ handler[h].pc = "release"
    /\ Answer(h)
    /\ UNCHANGED <<now, config, service, faults, history>>
(* releaseClaim deletes the claim, whoever holds it by now. *)
Release(h) ==
    /\ handler[h].pc = "release"
    /\ expiry' = [expiry EXCEPT ![ClaimKey(handler[h].delivery)] = 0]
    /\ Answer(h)
    /\ UNCHANGED <<now, config, row, lastError, faults, history>>

(* A call fails without effect; the failure of a release is only logged. *)
CallThrows(h) ==
    /\ handler[h].pc # "idle"
    /\ FaultHappens(IF handler[h].pc = "release" THEN "stale" ELSE "errors")
    /\ Throw(h)
    /\ UNCHANGED <<now, config, service, history>>

(* The process dies. *)
Crash ==
    /\ \E h \in Handlers : handler[h].pc # "idle"
    /\ FaultHappens("stale")
    /\ handler' = [h \in Handlers |-> IdleHandler]
    /\ UNCHANGED <<now, config, row, lastError, expiry, history>>

(***************************************************************************)
(* Redis lets a claim go when its time is over. A handler is not held up   *)
(* for longer than MaxDelay between verification and claim.                *)
(***************************************************************************)
Tick ==
    /\ now < Horizon
    /\ \A h \in Handlers : handler[h].pc = "claim" => now < handler[h].at + MaxDelay
    /\ now' = now + 1
    /\ expiry' = [w \in WebhookIds |-> IF expiry[w] > now' THEN expiry[w] ELSE 0]
    /\ UNCHANGED <<config, row, lastError, handler, faults, history>>

HandlerStep(h) ==
    Claim(h) \/ Find(h) \/ Update(h) \/ Release(h) \/ CallThrows(h)

Receive(h) ==
    \E d \in Deliveries :
        ReceiveTwilio(h, d) \/ \E stamp \in Signed \cup {now} : ReceiveBird(h, d, stamp)

Next == (\E h \in Handlers : Receive(h) \/ HandlerStep(h)) \/ Crash \/ Tick

Spec == Init /\ [][Next]_vars

(* The reports that Bird can deliver. *)
BirdReports == {d \in Deliveries : d.provider = Bird /\ d.webhookId # Null /\ d.payload # Null
                                    /\ d.signed /\ Complete(d)}

(* A repetition is signed anew, with the time it is sent at. *)
Redeliver(d) == d \notin done \cup overtaken \cup dropped /\ \E h \in Handlers : ReceiveBird(h, d, now)

(***************************************************************************)
(* A handler goes on once it has started, and Bird sends each delivery     *)
(* until it gets a 204 for it. Twilio is not counted on to repeat.         *)
(***************************************************************************)
Fairness ==
    /\ \A h \in Handlers : WF_vars(HandlerStep(h))
    /\ \A d \in BirdReports : SF_vars(Redeliver(d))

FairSpec == Spec /\ Fairness

-----------------------------------------------------------------------------
(* Properties. *)

(* Every variable keeps its type; last_error is a token that can be logged. *)
TypeOK ==
    /\ now \in 0 .. Horizon
    /\ config \in [secret: BOOLEAN, authToken: BOOLEAN]
    /\ row \in SmsMessage /\ lastError \notin Unprintable
    /\ expiry \in [WebhookIds -> Nat]
    /\ handler \in [Handlers -> Handler]
    /\ \A h \in Handlers : handler[h].pc # "idle" => handler[h].delivery \in Deliveries
    /\ done \cup contested \cup overtaken \cup dropped \subseteq Deliveries
    /\ originals \subseteq Deliveries \X Signed
    /\ faults \in [errors: 0 .. MaxFaults, stale: 0 .. MaxFaults]

(***************************************************************************)
(* A claim that outlives the time in which a copy is accepted makes sure   *)
(* that no copy is worked on again once it was processed, however often    *)
(* and late it arrives. The default claim (a day) does, next to a window   *)
(* of five minutes each way; the configuration does not enforce it. But no *)
(* handler may outlive its claim: the next one's copy is then at work too, *)
(* and the first that fails deletes a claim that is not its own.           *)
(***************************************************************************)
Window == IF Tolerance < SdkWindow THEN Tolerance ELSE SdkWindow
ClaimOutlivesCopies == Ttl > 2 * Window + MaxDelay
CopyProcessedOnce ==
    ClaimOutlivesCopies =>
        \A h \in Handlers :
            /\ handler[h].pc \in {"find", "update"} /\ handler[h].stamp \in Signed
            /\ handler[h].delivery \notin contested
            => Copy(h) \notin originals

(***************************************************************************)
(* A delivery is turned away before it is done only because a handler is   *)
(* at work on it: the claim is released by every handler that fails, so no *)
(* 204 loses a report, unless a crash, the lost answer of a claim or the   *)
(* failed release of one left a claim behind. And unless a call fails, the *)
(* delivery that was turned away stays in the hands of a handler.          *)
(***************************************************************************)
DuplicateAnswerIsKept ==
    faults.stale = 0 =>
        /\ dropped = {}
        /\ faults.errors = 0 => \A d \in overtaken : AtWork(d)

(***************************************************************************)
(* last_error belongs to the status: a message that failed names the code  *)
(* or status of a report that means that very failure, and any other       *)
(* message names nothing, also after a failure that turned out delivered.  *)
(***************************************************************************)
LastErrorExplains ==
    /\ lastError # Null <=> row.status \in DELIVERY_FAILURE_STATUSES
    /\ lastError # Null =>
        \E d \in Deliveries :
            d.signed /\ BuildLastError(d) = lastError /\ StatusOf(d) = row.status

(***************************************************************************)
(* Bird sends a report on the message until it gets its 204: then the      *)
(* report was taken into account and the message is settled, whatever was  *)
(* refused or failed on the way, unless a claim was left behind, or a copy *)
(* was turned away while another was handled, which then failed.           *)
(***************************************************************************)
Settles(d) ==
    /\ StatusOf(d) \in DELIVERY_TERMINAL_STATUSES
    /\ row.selectedProvider = Bird /\ row.providerMessageId = Report(d).id /\ config.secret
ReportGetsThrough ==
    \A d \in BirdReports :
        Settles(d) ~> \/ d \in done /\ row.status \in DELIVERY_TERMINAL_STATUSES
                      \/ faults.stale > 0
                      \/ d \in overtaken
=============================================================================
