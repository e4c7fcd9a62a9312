-------------------------- MODULE DeliveryWebhook --------------------------
(***************************************************************************)
(* The delivery callbacks of Twilio and Bird: TwilioWebhookService,        *)
(* BirdWebhookService, WebhookIdempotencyService, DeliveryStatusService    *)
(* and the conditional UPDATE of SmsService, interleaved with the dispatch *)
(* that sends the messages the callbacks are about.                        *)
(*                                                                         *)
(* A callback enters here once its signature and payload are accepted; a   *)
(* rejected one changes nothing. Providers deliver reports in any order    *)
(* and repeat them.                                                        *)
(***************************************************************************)
EXTENDS DeliveryReports, FiniteSets, Sequences

CONSTANTS Messages,
          Bird,       \* the provider whose deliveries carry a webhook-id
          Reports,    \* the external statuses each provider may report
          Handlers,   \* callbacks handled at the same time
          \* Bounds of the model, not of the code:
          MaxRuns,       \* dispatches, of whatever messages
          MaxErrors,     \* calls that fail without effect
          MaxLostAnswers,\* calls that take effect and then throw
          MaxCrashes     \* handlers and dispatches whose process dies

ASSUME WebhookAssumption ==
    /\ Bird \in Providers
    /\ {MaxRuns, MaxErrors, MaxLostAnswers, MaxCrashes} \subseteq Nat

VARIABLES row,      \* sms_messages
          dispatch, \* what each dispatch is doing
          issued,   \* by provider: the messages it accepted; a message id is an index
          claims,   \* sms:webhook:bird:{webhookId}: the events that were claimed
          handler,  \* what each callback handler is doing
          retries,  \* the deliveries Bird repeats, because it has no 204 for them
          faults    \* how often something went wrong so far

vars == <<row, dispatch, issued, claims, handler, retries, faults>>

-----------------------------------------------------------------------------
(* An event also stands for its webhook-id: repeated deliveries share it. *)
Events == [provider: Providers, pid: Nat, report: UNION {Reports[p] : p \in Providers}]

StatusOf(e) == IF e.provider = Bird THEN BirdStatus(e.report) ELSE TwilioStatus(e.report)

(* The message an event is about, whatever the table says of it. *)
Subject(e) == issued[e.provider][e.pid]

DispatchPcs == {"waiting", "sending", "accepted", "over"}
Dispatch == [pc: DispatchPcs, message: Messages \cup {Null},
             provider: Providers \cup {Null}, pid: Nat \cup {Null}]
WaitingDispatch == [pc |-> "waiting", message |-> Null, provider |-> Null, pid |-> Null]

HandlerPcs == {"idle", "claim", "find", "update", "reread", "releaseClaim"}
Handler == [pc: HandlerPcs, event: Events \cup {Null}, message: Messages \cup {Null}]
IdleHandler == [pc |-> "idle", event |-> Null, message |-> Null]

NoFaults == [errors |-> 0, lost |-> 0, crashes |-> 0]

Init ==
    /\ row = [m \in Messages |-> QueuedMessage]
    /\ dispatch = [n \in 1 .. MaxRuns |-> WaitingDispatch]
    /\ issued = [p \in Providers |-> <<>>]
    /\ claims = {}
    /\ handler = [h \in Handlers |-> IdleHandler]
    /\ retries = {}
    /\ faults = NoFaults

SetRow(m, r) == row' = [row EXCEPT ![m] = r]

(* A call takes effect, but its answer is lost and it throws. *)
LoseAnswer ==
    /\ faults.lost < MaxLostAnswers
    /\ faults' = [faults EXCEPT !.lost = @ + 1]

-----------------------------------------------------------------------------
(***************************************************************************)
(* The dispatch, as far as callbacks see it (SmsDispatch has the details). *)
(* Dispatches of one message follow each other here; SmsDispatch also lets *)
(* them overlap.                                                           *)
(***************************************************************************)
dispatchOnly == <<claims, handler, retries>>

GotoDispatch(n, pc) == dispatch' = [dispatch EXCEPT ![n].pc = pc]

Dispatching(m) ==
    \E n \in 1 .. MaxRuns :
        dispatch[n].message = m /\ dispatch[n].pc \in {"sending", "accepted"}

DispatchClaims(n) ==
    /\ dispatch[n].pc = "waiting"
    /\ \E m \in Messages :
        /\ ~Dispatching(m)
        /\ \/ /\ MayMarkProcessing(row[m])
              /\ SetRow(m, MarkProcessing(row[m]))
              /\ dispatch' = [dispatch EXCEPT ![n].pc = "sending", ![n].message = m]
           \/ /\ row[m].status \in NON_DISPATCHABLE_STATUSES
              /\ GotoDispatch(n, "over")
              /\ UNCHANGED row
    /\ UNCHANGED <<issued, faults, dispatchOnly>>

(* A provider accepts the message; from now on it may report on it. When    *)
(* the answer is lost the dispatch tries again, with no id to record.       *)
ProviderAccepts(n) ==
    /\ dispatch[n].pc = "sending"
    /\ \E p \in Providers :
        /\ issued' = [issued EXCEPT ![p] = Append(@, dispatch[n].message)]
        /\ \/ /\ dispatch' = [dispatch EXCEPT ![n].pc = "accepted", ![n].provider = p,
                                              ![n].pid = Len(issued[p]) + 1]
              /\ UNCHANGED faults
           \/ LoseAnswer /\ UNCHANGED dispatch
    /\ UNCHANGED <<row, dispatchOnly>>

RecordSent(n) ==
    LET d == dispatch[n] IN
    /\ d.pc = "accepted"
    /\ SetRow(d.message, MarkSent(row[d.message], d.provider, d.pid))
    /\ GotoDispatch(n, "over")
    /\ UNCHANGED <<issued, faults, dispatchOnly>>

(* Every provider refused. *)
RecordFatalFailure(n) ==
    LET m == dispatch[n].message IN
    /\ dispatch[n].pc = "sending"
    /\ \E p \in Providers : SetRow(m, MarkFatalFailure(row[m], p))
    /\ GotoDispatch(n, "over")
    /\ UNCHANGED <<issued, faults, dispatchOnly>>

DispatchDies(n) ==
    /\ dispatch[n].pc \in {"sending", "accepted"}
    /\ faults.crashes < MaxCrashes
    /\ faults' = [faults EXCEPT !.crashes = @ + 1]
    /\ GotoDispatch(n, "over")
    /\ UNCHANGED <<row, issued, dispatchOnly>>

Requeue(m) ==
    /\ MayTransitionToQueued(row[m])
    /\ SetRow(m, TransitionFatalFailureToQueued(row[m]))
    /\ UNCHANGED <<dispatch, issued, faults, dispatchOnly>>

DispatchStep(n) ==
    DispatchClaims(n) \/ ProviderAccepts(n) \/ RecordSent(n) \/ RecordFatalFailure(n)

-----------------------------------------------------------------------------
(* The callback handlers. *)
handlerOnly == <<dispatch, issued>>

Goto(h, pc) == handler' = [handler EXCEPT ![h].pc = pc]

(* The handler returns and the provider gets its 204. *)
Return(h) ==
    /\ handler' = [handler EXCEPT ![h] = IdleHandler]
    /\ retries' = retries \ {handler[h].event}

(***************************************************************************)
(* An exception: Bird's claim is released before the provider gets its     *)
(* 500, unless the claim itself is what failed.                            *)
(***************************************************************************)
Throw(h) ==
    handler' = [handler EXCEPT ![h] =
        IF @.event.provider = Bird /\ @.pc \notin {"claim", "releaseClaim"}
            THEN [@ EXCEPT !.pc = "releaseClaim"] ELSE IdleHandler]

(***************************************************************************)
(* A provider delivers a report on a message it accepted, for the first    *)
(* time or once more. Twilio's handler returns at once when the report     *)
(* says nothing new.                                                       *)
(***************************************************************************)
Deliver(h, e) ==
    /\ handler[h].pc = "idle"
    /\ \/ /\ e.provider = Bird
          /\ handler' = [handler EXCEPT ![h] = [pc |-> "claim", event |-> e, message |-> Null]]
          /\ retries' = retries \cup {e}
       \/ /\ e.provider # Bird
          /\ StatusOf(e) # Null
          /\ handler' = [handler EXCEPT ![h] = [pc |-> "find", event |-> e, message |-> Null]]
          /\ UNCHANGED retries
       \/ e.provider # Bird /\ StatusOf(e) = Null /\ UNCHANGED <<handler, retries>>
    /\ UNCHANGED <<row, claims, faults, handlerOnly>>

Receive(h) ==
    \E p \in Providers : \E pid \in DOMAIN issued[p], report \in Reports[p] :
        Deliver(h, [provider |-> p, pid |-> pid, report |-> report])

(* claimBirdWebhook: SET NX. Bird's handler then looks at the report. *)
Claim(h) ==
    LET e == handler[h].event IN
    /\ handler[h].pc = "claim"
    /\ \/ /\ e \in claims
          /\ Return(h)
          /\ UNCHANGED <<claims, faults>>
       \/ /\ e \notin claims
          /\ claims' = claims \cup {e}
          /\ \/ StatusOf(e) # Null /\ Goto(h, "find") /\ UNCHANGED <<retries, faults>>
             \/ StatusOf(e) = Null /\ Return(h) /\ UNCHANGED faults
             \/ Throw(h) /\ LoseAnswer /\ UNCHANGED retries
    /\ UNCHANGED <<row, handlerOnly>>

(* findByProviderMessageId. An unknown id is answered like a success. *)
FindByIdAlone(h) ==
    LET e == handler[h].event
        Found == {m \in Messages : row[m].providerMessageId = e.pid} IN
    /\ handler[h].pc = "find"
    /\ \/ /\ \E m \in Found :
                handler' = [handler EXCEPT ![h].pc = "update", ![h].message = m]
          /\ UNCHANGED retries
       \/ /\ Found = {}
          /\ Return(h)
    /\ UNCHANGED <<row, claims, faults, handlerOnly>>
FindUnchecked(h) ==
    /\ handler[h].pc = "find"
    /\ handler' = [handler EXCEPT ![h].pc = "update"]
    /\ UNCHANGED <<row, claims, faults, retries, handlerOnly>>
FindByProviderMessageId(h) ==
    LET e == handler[h].event
        Found == {m \in Messages : /\ row[m].selectedProvider = e.provider
                                   /\ row[m].providerMessageId = e.pid} IN
    /\ handler[h].pc = "find"
    /\ \/ /\ \E m \in Found :
                handler' = [handler EXCEPT ![h].pc = "update", ![h].message = m]
          /\ UNCHANGED retries
       \/ /\ Found = {}
          /\ Return(h)
    /\ UNCHANGED <<row, claims, faults, handlerOnly>>

(***************************************************************************)
(* applyDeliveryStatus: one conditional UPDATE of the row with that id,    *)
(* whatever its provider message id is by now.                             *)
(***************************************************************************)
ApplyStatus(h) ==
    LET m == handler[h].message
        s == StatusOf(handler[h].event) IN
    /\ handler[h].pc = "update"
    /\ \/ /\ MayApplyDeliveryStatus(row[m], s)
          /\ SetRow(m, ApplyDeliveryStatus(row[m], s))
          /\ \/ Return(h) /\ UNCHANGED faults
             \/ Throw(h) /\ LoseAnswer /\ UNCHANGED retries
       \/ /\ ~MayApplyDeliveryStatus(row[m], s)
          /\ Goto(h, "reread")
          /\ UNCHANGED <<row, retries, faults>>
    /\ UNCHANGED <<claims, handlerOnly>>

(* logSkippedCallback reads the row again, only to log why nothing changed. *)
Reread(h) ==
    /\ handler[h].pc = "reread"
    /\ Return(h)
    /\ UNCHANGED <<row, claims, faults, handlerOnly>>

ReleaseClaim(h) ==
    /\ handler[h].pc = "releaseClaim"
    /\ claims' = claims \ {handler[h].event}
    /\ handler' = [handler EXCEPT ![h] = IdleHandler]
    /\ UNCHANGED <<row, faults, retries, handlerOnly>>

(* A call fails without effect; the failure of a release is only logged. *)
CallThrows(h) ==
    /\ handler[h].pc # "idle"
    /\ faults.errors < MaxErrors
    /\ faults' = [faults EXCEPT !.errors = @ + 1]
    /\ Throw(h)
    /\ UNCHANGED <<row, claims, retries, handlerOnly>>

(* The process that handles the callback dies. *)
HandlerDies(h) ==
    /\ handler[h].pc # "idle"
    /\ faults.crashes < MaxCrashes
    /\ faults' = [faults EXCEPT !.crashes = @ + 1]
    /\ handler' = [handler EXCEPT ![h] = IdleHandler]
    /\ UNCHANGED <<row, claims, retries, handlerOnly>>

(* A claim expires after WEBHOOK_IDEMPOTENCY_TTL_SECONDS. *)
ClaimExpires(e) ==
    /\ claims' = claims \ {e}
    /\ UNCHANGED <<row, handler, faults, retries, handlerOnly>>

HandlerStep(h) ==
    \/ Claim(h) \/ FindByProviderMessageId(h) \/ ApplyStatus(h) \/ Reread(h)
    \/ ReleaseClaim(h) \/ CallThrows(h)

Quiescent ==
    /\ \A h \in Handlers : handler[h].pc = "idle"
    /\ \A n \in 1 .. MaxRuns : dispatch[n].pc = "over"

Rest == Quiescent /\ UNCHANGED vars

Next ==
    \/ \E n \in 1 .. MaxRuns : DispatchStep(n) \/ DispatchDies(n)
    \/ \E m \in Messages : Requeue(m)
    \/ \E h \in Handlers : Receive(h) \/ HandlerStep(h) \/ HandlerDies(h)
    \/ \E e \in claims : ClaimExpires(e)
    \/ Rest

Spec == Init /\ [][Next]_vars

(***************************************************************************)
(* A handler goes on once it has started, and Bird repeats a delivery until *)
(* it gets a 204 for it. Nobody is obliged to report, and Twilio does not  *)
(* repeat.                                                                 *)
(***************************************************************************)
MaxPid == MaxRuns + MaxLostAnswers
BirdEvents == {[provider |-> Bird, pid |-> i, report |-> x] : i \in 1 .. MaxPid, x \in Reports[Bird]}

Redeliver(e) == e \in retries /\ \E h \in Handlers : Deliver(h, e)

Fairness ==
    /\ \A h \in Handlers : WF_vars(HandlerStep(h))
    /\ \A e \in BirdEvents : SF_vars(Redeliver(e))

FairSpec == Spec /\ Fairness

-----------------------------------------------------------------------------
(* Properties. *)

(* Every variable keeps its type. *)
TypeOK ==
    /\ row \in [Messages -> SmsMessage]
    /\ dispatch \in [1 .. MaxRuns -> Dispatch]
    /\ issued \in [Providers -> Seq(Messages)]
    /\ claims \cup retries \subseteq Events
    /\ handler \in [Handlers -> Handler]
    /\ \A n \in 1 .. MaxRuns :
        dispatch[n].pc \in {"sending", "accepted"} => dispatch[n].message \in Messages
    /\ \A h \in Handlers :
        /\ handler[h].pc # "idle" => handler[h].event \in Events
        /\ handler[h].pc \in {"update", "reread"} => handler[h].message \in Messages
    /\ faults \in [errors: Nat, lost: Nat, crashes: Nat]

(***************************************************************************)
(* The status of a message moves as in DeliveryLifecycle, however its      *)
(* callbacks are repeated, reordered, lost and interleaved with dispatches *)
(* and requeues: DELIVERED is final, the first failure stands, a failed    *)
(* send is never revived by a report.                                      *)
(***************************************************************************)
Delivery == INSTANCE DeliveryLifecycle WITH status <- [m \in Messages |-> row[m].status]
DeliveryImplemented == Delivery!DeliverySpec

(***************************************************************************)
(* The timestamps and the external id agree with the status, although the  *)
(* send flow and the callbacks write them in different statements: a       *)
(* delivered message carries no failure, a failed one no delivery.         *)
(***************************************************************************)
Accepted == {"SENT"} \cup DELIVERY_TERMINAL_STATUSES
OutcomeAgrees ==
    \A m \in Messages :
        LET r == row[m] IN
        /\ r.deliveredAt = "set" <=> r.status = "DELIVERED"
        /\ r.failedAt = "set" <=> r.status \in DELIVERY_FAILURE_STATUSES \cup {"FATAL_FAILURE"}
        /\ r.sentAt = "set" <=> r.status \in Accepted
        /\ r.providerMessageId # Null <=> r.status \in Accepted

(***************************************************************************)
(* The UPDATE names the row by its own id. Between the lookup and the      *)
(* UPDATE the row has not come to stand for another send: what a callback  *)
(* changes still carries the id the callback reported on.                  *)
(***************************************************************************)
RecordedAs(m, e) ==
    row[m].selectedProvider = e.provider /\ row[m].providerMessageId = e.pid
CallbackHitsItsSend ==
    [][\A h \in Handlers :
        LET m == handler[h].message IN
        handler[h].pc = "update" /\ handler'[h] # handler[h] /\ row'[m] # row[m]
            => RecordedAs(m, handler[h].event)]_vars

(***************************************************************************)
(* A callback acts on the message it reports on, whatever was sent anew    *)
(* or requeued since: an id of one provider never finds the message of     *)
(* another (findByProviderMessageId).                                      *)
(***************************************************************************)
CallbackHitsItsMessage ==
    \A h \in Handlers :
        handler[h].pc \in {"update", "reread"} => handler[h].message = Subject(handler[h].event)

(***************************************************************************)
(* README.md, Webhook Idempotency: "The claim is released if processing    *)
(* throws, so a Bird retry is not silently dropped". So a message Bird     *)
(* reports delivered, and repeats until it gets its 204, becomes           *)
(* DELIVERED, provided its id was recorded before the event was claimed.   *)
(***************************************************************************)
DeliveryIsRecorded ==
    \A e \in BirdEvents, m \in Messages :
        /\ StatusOf(e) = "DELIVERED"
        /\ e \in retries \ claims
        /\ RecordedAs(m, e)
        ~> row[m].status = "DELIVERED"
=============================================================================
