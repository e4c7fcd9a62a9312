----------------------------- MODULE SmsSystem -----------------------------
(***************************************************************************)
(* The send request, the dispatch, the requeue endpoint and the delivery   *)
(* callbacks over one row. SmsDispatch starts with a published job and has *)
(* no callbacks, DeliveryWebhook keeps dispatches of a message apart; here *)
(* the creator of the row may still be publishing, or compensating a       *)
(* publication that did happen, while workers send the message and         *)
(* providers report on it.                                                 *)
(***************************************************************************)
EXTENDS SmsDispatch

CONSTANTS Handlers, \* callbacks handled at the same time
          Reports   \* the statuses a callback may report

ASSUME ReportsAssumption == Reports \subseteq {"SENT"} \cup DELIVERY_TERMINAL_STATUSES

VARIABLES creator, \* how far sendSmsRequest is with each message
          handler, \* the row each callback handler has found, and what to write
          interrupted \* history: messages whose requeue was cut short

systemVars == <<vars, creator, handler, interrupted>>

CreatorPcs == {"enqueue", "markFailed", "accepted", "refused", "over"}

Handler == [message: Messages \cup {Null}, status: Reports \cup {Null}]
IdleHandler == [message |-> Null, status |-> Null]

(* Every row is inserted and its creator is about to publish the job. *)
SystemInit ==
    /\ Undispatched
    /\ job = [j \in JobIds |-> AbsentJob]
    /\ creator = [m \in Messages |-> "enqueue"]
    /\ handler = [h \in Handlers |-> IdleHandler]
    /\ interrupted = {}

-----------------------------------------------------------------------------
(* The creator of a message: sendSmsRequest from the publication on. *)
creatorOnly == <<worker, admin, outside, handler, interrupted>>

GotoCreator(m, pc) == creator' = [creator EXCEPT ![m] = pc]

(* enqueueSms. When its answer is lost the request takes it for a failure. *)
Publish(m) ==
    /\ creator[m] = "enqueue"
    /\ job' = [job EXCEPT ![<<m, 0>>] = PublishedJob]
    /\ \/ GotoCreator(m, "accepted") /\ UNCHANGED faults
       \/ GotoCreator(m, "markFailed") /\ ErrorHappens
    /\ UNCHANGED <<row, creatorOnly>>

PublishFails(m) ==
    /\ creator[m] = "enqueue"
    /\ GotoCreator(m, "markFailed")
    /\ ErrorHappens
    /\ UNCHANGED <<row, job, creatorOnly>>

(* The compensation, whatever the row is by now. *)
RefusePublication(m) ==
    /\ creator[m] = "markFailed"
    /\ SetRow(m, MarkQueuePublishFailed(row[m]))
    /\ GotoCreator(m, "refused")
    /\ UNCHANGED <<job, faults, creatorOnly>>

(* The compensation fails, or the process dies before it is through. *)
AbandonPublication(m) ==
    /\ creator[m] \in {"enqueue", "markFailed"}
    /\ \/ creator[m] = "markFailed" /\ ErrorHappens
       \/ /\ faults.crashes < MaxCrashes
          /\ faults' = [faults EXCEPT !.crashes = @ + 1]
    /\ GotoCreator(m, "over")
    /\ UNCHANGED <<row, job, creatorOnly>>

-----------------------------------------------------------------------------
(* A callback handler: DeliveryStatusService.apply. *)
handlerOnly == <<job, worker, admin, faults, outside, creator, interrupted>>

FindReportedUnchecked(h) ==
    /\ handler[h] = IdleHandler
    /\ \E m \in Messages, s \in Reports :
        handler' = [handler EXCEPT ![h] = [message |-> m, status |-> s]]
    /\ UNCHANGED <<row, handlerOnly>>
(***************************************************************************)
(* findByProviderMessageId for a report on a send some provider accepted.  *)
(* Reports come at any time, in any order and any number. One whose id no  *)
(* row carries is answered 204 and changes nothing.                        *)
(***************************************************************************)
FindReported(h) ==
    /\ handler[h] = IdleHandler
    /\ \E m \in Messages, s \in Reports :
        /\ row[m].providerMessageId # Null
        /\ handler' = [handler EXCEPT ![h] = [message |-> m, status |-> s]]
    /\ UNCHANGED <<row, handlerOnly>>

(* applyDeliveryStatus: the conditional UPDATE, by the id of the row. *)
ApplyReport(h) ==
    LET m == handler[h].message
        s == handler[h].status IN
    /\ handler[h] # IdleHandler
    /\ SetRow(m, IF MayApplyDeliveryStatus(row[m], s)
                    THEN ApplyDeliveryStatus(row[m], s) ELSE row[m])
    /\ handler' = [handler EXCEPT ![h] = IdleHandler]
    /\ UNCHANGED handlerOnly

(* The UPDATE fails or the process dies; the report may come again. *)
HandlerFails(h) ==
    /\ handler[h] # IdleHandler
    /\ handler' = [handler EXCEPT ![h] = IdleHandler]
    /\ UNCHANGED <<row, handlerOnly>>

-----------------------------------------------------------------------------
(* Workers, queue and requeues, as in SmsDispatch. *)
CutShort(a) ==
    /\ admin[a].pc # "idle" /\ admin'[a] = IdleAdmin
    /\ \/ faults'.crashes # faults.crashes
       \/ faults'.errors # faults.errors /\ admin[a].pc # "requeueSms"

DispatchActivity ==
    /\ Activity
    /\ interrupted' = interrupted \cup {admin[a].message : a \in {b \in Admins : CutShort(b)}}
    /\ UNCHANGED <<creator, handler>>

CreatorStep(m) == Publish(m) \/ PublishFails(m) \/ RefusePublication(m)
HandlerStep(h) == ApplyReport(h) \/ HandlerFails(h)

SystemQuiescent ==
    /\ Quiescent
    /\ \A m \in Messages : creator[m] \notin {"enqueue", "markFailed"}
    /\ \A h \in Handlers : handler[h] = IdleHandler

SystemRest == SystemQuiescent /\ UNCHANGED systemVars

SystemNext ==
    \/ DispatchActivity
    \/ \E m \in Messages : CreatorStep(m) \/ AbandonPublication(m)
    \/ \E h \in Handlers : FindReported(h) \/ HandlerStep(h)
    \/ SystemRest

SystemSpec == SystemInit /\ [][SystemNext]_systemVars

-----------------------------------------------------------------------------
(* Properties. *)

(* Every variable keeps its type. *)
SystemTypeOK ==
    /\ TypeOK
    /\ creator \in [Messages -> CreatorPcs]
    /\ handler \in [Handlers -> Handler]
    /\ interrupted \subseteq Messages
    /\ \A h \in Handlers :
        handler[h] # IdleHandler => handler[h].message \in Messages /\ handler[h].status \in Reports

-----------------------------------------------------------------------------
(***************************************************************************)
(* The id a provider issued, which its reports will name, is on the row or *)
(* in the hands of the worker about to run markSent: without faults that   *)
(* is the only moment at which a report finds no row and is lost           *)
(* (README.md: SENT is recorded the moment the provider accepts).          *)
(***************************************************************************)
Faultless == faults.errors + faults.crashes + faults.falseStalls = 0
IssuedIdIsKnown ==
    Faultless => \A m \in Messages : \A pid \in 1 .. accepted[m] :
        \/ row[m].providerMessageId = pid
        \/ \E w \in Workers : /\ worker[w].pc = "markSent"
                              /\ MessageOfWorker(w) = m /\ worker[w].pid = pid

(***************************************************************************)
(* A message that waits for a dispatch has somebody who will bring it      *)
(* about: a job, a request that is going to publish one, or one that is    *)
(* going to mark the message failed. One that has nobody was given up with *)
(* its creator, by BullMQ, or in a requeue that went wrong: the requeue    *)
(* endpoint accepts only FATAL_FAILURE, so nothing will ever move it.      *)
(***************************************************************************)
Cared(m) ==
    \/ \E j \in JobIds : MessageOf(j) = m /\ job[j].state \in {"waiting", "active"}
    \/ creator[m] \in {"enqueue", "markFailed"}
    \/ \E a \in Admins : admin[a].pc \in {"requeueSms", "restore"} /\ admin[a].message = m
GivenUp(m) ==
    \/ creator[m] = "over"
    \/ \E j \in JobIds : MessageOf(j) = m /\ job[j].state = "failed"
    \/ m \in interrupted
StrandedIsPaidFor ==
    \A m \in Messages : row[m].status \in {"QUEUED", "PROCESSING"} => Cared(m) \/ GivenUp(m)

(* The creator took the publication for failed, but the job is there. *)
PublishedInDoubt(m) ==
    creator[m] \in {"markFailed", "refused"} /\ job[<<m, 0>>].state # "absent"

(* What makes two writers of a row meet: the rest keeps them apart. *)
WritersMayMeet(m) ==
    \/ PublishedInDoubt(m)
    \/ faults.falseStalls > 0
    \/ faults.requeues > 0 /\ faults.errors + faults.crashes > 0

(***************************************************************************)
(* The status of a message moves as in DeliveryLifecycle, or from QUEUED   *)
(* to FAILED when its publication is refused, unless writers of the row    *)
(* meet: then the unconditional UPDATEs of markSent, markFatalFailure and  *)
(* markQueuePublishFailed may even take back DELIVERED.                    *)
(***************************************************************************)
Delivery == INSTANCE DeliveryLifecycle WITH status <- [m \in Messages |-> row[m].status]
StatusMovesAsPromised ==
    [][\/ Delivery!DeliveryNext
       \/ \E m \in Messages :
            \/ Delivery!Move(m, "QUEUED", "FAILED") /\ creator[m] = "markFailed"
            \/ row'[m] # row[m] /\ WritersMayMeet(m)]_<<[m \in Messages |-> row[m].status]>>

(***************************************************************************)
(* What a row says of its outcome is true, unless writers of it meet.      *)
(* FAILED stands for two things (README.md, Status Model): the message was *)
(* never queued, or its provider reported a failure; the external id tells *)
(* them apart. And a delivery time belongs to a delivered message, though  *)
(* markSent and markFatalFailure leave deliveredAt alone.                  *)
(***************************************************************************)
FailuresToldApart(m) ==
    row[m].status = "FAILED" => (row[m].providerMessageId = Null <=> creator[m] = "refused")
DeliveredTimeAgrees(m) == row[m].deliveredAt = "set" => row[m].status = "DELIVERED"

OutcomeIsTold ==
    \A m \in Messages : WritersMayMeet(m) \/ (FailuresToldApart(m) /\ DeliveredTimeAgrees(m))
=============================================================================
