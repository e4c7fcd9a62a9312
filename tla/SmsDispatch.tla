---------------------------- MODULE SmsDispatch ----------------------------
(***************************************************************************)
(* The dispatch of queued SMS messages: SmsProcessor and                   *)
(* SmsDispatcherService running in several workers, the BullMQ queue that  *)
(* feeds them, the dead-letter queue, and the administrative requeue.      *)
(*                                                                         *)
(* Every await of the code that touches PostgreSQL, Redis or a provider is *)
(* one action, so workers and requests interleave exactly where the event  *)
(* loop lets them. BullMQ is external: its part here is what the code      *)
(* relies on (at-least-once delivery, job retries, stalled jobs).          *)
(***************************************************************************)
EXTENDS SmsMessages, Sequences, FiniteSets

CONSTANTS Messages,       \* the messages
          Workers,        \* the workers, one job at a time each
          Admins,         \* concurrent callers of the requeue endpoint
          ProviderOrder,  \* SMS_PROVIDER_PRIORITY
          KeyedProviders, \* providers that are given an idempotency key (Bird)
          MaxRetries,     \* SMS_MAX_RETRIES: sends per provider and dispatch
          JobAttempts,    \* SMS_JOB_ATTEMPTS: runs of a job that may fail
          MaxStalledCount,\* BullMQ's maxStalledCount
          \* Bounds of the model, not of the code:
          MaxErrors,      \* lost connections and lost answers
          MaxCrashes,     \* processes that die
          MaxFalseStalls, \* live workers BullMQ takes for dead
          MaxRequeues     \* requeue requests that find an eligible message

ASSUME OrderAssumption ==
    /\ ProviderOrder \in Seq(Providers) /\ Len(ProviderOrder) > 0
    /\ KeyedProviders \subseteq Providers
ASSUME RetryAssumption == MaxRetries \in Nat \ {0} /\ JobAttempts \in Nat \ {0}
ASSUME WorkersAssumption == IsFiniteSet(Workers) /\ Null \notin Workers
ASSUME BoundAssumption == {MaxStalledCount, MaxErrors, MaxCrashes,
                           MaxFalseStalls, MaxRequeues} \subseteq Nat

VARIABLES row,      \* sms_messages
          job,      \* the jobs of queue sms, retained when done
          worker,   \* what each worker is doing
          admin,    \* what each requeue request is doing
          faults,   \* how often something went wrong so far
          \* The providers: sends of a message they accepted, and the message
          \* id that a provider with a key keeps for it:
          accepted, keyed,
          \* History, read by no action:
          calls,       \* provider calls made for a message
          jobCalls,    \* provider calls made by the runs of a job
          deadLetters, \* dead letters published for a message
          dlqFailed    \* the jobs with a run that failed to publish one

outside == <<accepted, keyed, calls, jobCalls, deadLetters, dlqFailed>>
vars == <<row, job, worker, admin, faults, outside>>

(***************************************************************************)
(* Job 0 of a message is the one sendSmsRequest publishes (jobId =         *)
(* messageId); every requeue publishes one more under a fresh jobId.       *)
(***************************************************************************)
JobIds == Messages \X (0 .. MaxRequeues)
MessageOf(j) == j[1]

JobStates == {"absent", "waiting", "active", "completed", "failed"}

Job == [state: JobStates, owner: Workers \cup {Null}, failures: Nat, stalls: Nat]

AbsentJob == [state |-> "absent", owner |-> Null, failures |-> 0, stalls |-> 0]
PublishedJob == [AbsentJob EXCEPT !.state = "waiting"]

(***************************************************************************)
(* pc names the call a worker is about to make. "returned" and "threw" are *)
(* the two ways the processor ends.                                        *)
(***************************************************************************)
DatabasePcs == {"findById", "markProcessing", "incrementAttempts", "markSent",
                "markFatalFailure"}
QueuePcs == {"throttle", "enqueueDeadLetter"}
WorkerPcs == DatabasePcs \cup QueuePcs \cup {"idle", "sendSms", "returned", "threw"}

Worker == [pc: WorkerPcs, job: JobIds \cup {Null},
           provider: 1 .. Len(ProviderOrder), attempt: 1 .. MaxRetries,
           pid: Nat \cup {Null}]

IdleWorker == [pc |-> "idle", job |-> Null, provider |-> 1, attempt |-> 1,
               pid |-> Null]

AdminPcs == {"idle", "transition", "requeueSms", "restore"}
Admin == [pc: AdminPcs, message: Messages \cup {Null},
          provider: Providers \cup {Null}]
IdleAdmin == [pc |-> "idle", message |-> Null, provider |-> Null]

NoFaults == [errors |-> 0, crashes |-> 0, falseStalls |-> 0, requeues |-> 0]

(* Nothing was dispatched yet. *)
Undispatched ==
    /\ row = [m \in Messages |-> QueuedMessage]
    /\ worker = [w \in Workers |-> IdleWorker]
    /\ admin = [a \in Admins |-> IdleAdmin]
    /\ faults = NoFaults
    /\ calls = [m \in Messages |-> 0]
    /\ jobCalls = [j \in JobIds |-> 0]
    /\ accepted = [m \in Messages |-> 0]
    /\ keyed = [m \in Messages |-> [p \in KeyedProviders |-> Null]]
    /\ deadLetters = [m \in Messages |-> 0]
    /\ dlqFailed = {}

(* Every message was accepted by the send endpoint: row and job are there. *)
Init ==
    /\ Undispatched
    /\ job = [j \in JobIds |-> IF j[2] = 0 THEN PublishedJob ELSE AbsentJob]

-----------------------------------------------------------------------------
(* Helpers of the worker's actions. *)

MessageOfWorker(w) == MessageOf(worker[w].job)
ProviderOfWorker(w) == ProviderOrder[worker[w].provider]

Goto(w, pc) == worker' = [worker EXCEPT ![w].pc = pc]

SetRow(m, r) == row' = [row EXCEPT ![m] = r]

(* The connection is lost around a call: the call throws. *)
ErrorHappens ==
    /\ faults.errors < MaxErrors
    /\ faults' = [faults EXCEPT !.errors = @ + 1]

(* A call that took effect answers, or its answer is lost and it throws. *)
Answered(w, pc) ==
    \/ Goto(w, pc) /\ UNCHANGED faults
    \/ Goto(w, "threw") /\ ErrorHappens

-----------------------------------------------------------------------------
(* BullMQ hands a waiting job to an idle worker: SmsProcessor.process. *)
Process(w) ==
    /\ worker[w].pc = "idle"
    /\ \E j \in JobIds :
        /\ job[j].state = "waiting"
        /\ job' = [job EXCEPT ![j].state = "active", ![j].owner = w]
        /\ worker' = [worker EXCEPT ![w] = [IdleWorker EXCEPT !.pc = "findById", !.job = j]]
    /\ UNCHANGED <<row, admin, faults, outside>>

(* dispatch: the row is read and skipped unless it may still be dispatched. *)
FindById(w) ==
    /\ worker[w].pc = "findById"
    /\ Goto(w, IF row[MessageOfWorker(w)].status \in NON_DISPATCHABLE_STATUSES
                   THEN "returned" ELSE "markProcessing")
    /\ UNCHANGED <<row, job, admin, faults, outside>>

(***************************************************************************)
(* dispatch: the claim. When it changes no row the message is read again,  *)
(* only to be logged, and the job ends; that read may throw.               *)
(***************************************************************************)
ClaimMessage(w) ==
    LET m == MessageOfWorker(w) IN
    /\ worker[w].pc = "markProcessing"
    /\ \/ /\ MayMarkProcessing(row[m])
          /\ SetRow(m, MarkProcessing(row[m]))
          /\ Answered(w, "incrementAttempts")
       \/ /\ ~MayMarkProcessing(row[m])
          /\ UNCHANGED row
          /\ Answered(w, "returned")
    /\ UNCHANGED <<job, admin, outside>>

(* dispatchAcrossProviders: the attempt is counted before it is made. *)
CountFirstAttemptOnly(w) ==
    LET m == MessageOfWorker(w) IN
    /\ worker[w].pc = "incrementAttempts"
    /\ IF worker[w].attempt = 1 THEN SetRow(m, IncrementAttempts(row[m])) ELSE UNCHANGED row
    /\ Answered(w, "throttle")
    /\ UNCHANGED <<job, admin, outside>>
CountAttempt(w) ==
    LET m == MessageOfWorker(w) IN
    /\ worker[w].pc = "incrementAttempts"
    /\ SetRow(m, IncrementAttempts(row[m]))
    /\ Answered(w, "throttle")
    /\ UNCHANGED <<job, admin, outside>>

(* The rate limiter lets the attempt through. *)
Throttle(w) ==
    /\ worker[w].pc = "throttle"
    /\ Goto(w, "sendSms")
    /\ UNCHANGED <<row, job, admin, faults, outside>>

(***************************************************************************)
(* What follows an unsuccessful send: the same provider again after the    *)
(* backoff, the next provider, or the end of the list.                     *)
(***************************************************************************)
RetryOneTooMany(w, retryable) ==
    LET k == worker[w].provider
        n == worker[w].attempt IN
    worker' = [worker EXCEPT ![w] =
        IF retryable /\ n <= MaxRetries
            THEN [@ EXCEPT !.pc = "incrementAttempts", !.attempt = n + 1]
        ELSE IF k < Len(ProviderOrder)
            THEN [@ EXCEPT !.pc = "incrementAttempts", !.provider = k + 1, !.attempt = 1]
        ELSE [@ EXCEPT !.pc = "markFatalFailure"]]
AfterFailedSend(w, retryable) ==
    LET k == worker[w].provider
        n == worker[w].attempt IN
    worker' = [worker EXCEPT ![w] =
        IF retryable /\ n < MaxRetries
            THEN [@ EXCEPT !.pc = "incrementAttempts", !.attempt = n + 1]
        ELSE IF k < Len(ProviderOrder)
            THEN [@ EXCEPT !.pc = "incrementAttempts", !.provider = k + 1, !.attempt = 1]
        ELSE [@ EXCEPT !.pc = "markFatalFailure"]]

(***************************************************************************)
(* A provider accepts message m and issues id pid. One that is given an    *)
(* idempotency key, the same for every send of the message, accepts it     *)
(* once and answers later sends with the id it issued then.                *)
(***************************************************************************)
Accepts(m, p, pid) ==
    \/ /\ p \in KeyedProviders
       /\ keyed[m][p] # Null
       /\ pid = keyed[m][p]
       /\ UNCHANGED <<accepted, keyed>>
    \/ /\ p \in KeyedProviders => keyed[m][p] = Null
       /\ pid = accepted[m] + 1
       /\ accepted' = [accepted EXCEPT ![m] = pid]
       /\ keyed' = IF p \in KeyedProviders THEN [keyed EXCEPT ![m][p] = pid] ELSE keyed

(***************************************************************************)
(* sendWithProvider. A provider accepts and answers, refuses (for good or  *)
(* for now), or accepts and its answer is lost. The code sees that as a    *)
(* failure which the classifier finds retryable or not by the error's      *)
(* name, code and status; ProviderRetry has the classes.                   *)
(***************************************************************************)
SendSms(w) ==
    LET m == MessageOfWorker(w)
        p == ProviderOfWorker(w) IN
    /\ worker[w].pc = "sendSms"
    /\ calls' = [calls EXCEPT ![m] = @ + 1]
    /\ jobCalls' = [jobCalls EXCEPT ![worker[w].job] = @ + 1]
    /\ \/ /\ \E pid \in 1 .. (accepted[m] + 1) :
                /\ Accepts(m, p, pid)
                /\ worker' = [worker EXCEPT ![w].pc = "markSent", ![w].pid = pid]
          /\ UNCHANGED faults
       \/ /\ \E retryable \in BOOLEAN : AfterFailedSend(w, retryable)
          /\ UNCHANGED <<accepted, keyed, faults>>
       \/ /\ \E pid \in 1 .. (accepted[m] + 1) : Accepts(m, p, pid)
          /\ ErrorHappens
          /\ \E retryable \in BOOLEAN : AfterFailedSend(w, retryable)
    /\ UNCHANGED <<row, job, admin, deadLetters, dlqFailed>>

RecordSentWithoutReturning(w) ==
    LET m == MessageOfWorker(w) IN
    /\ worker[w].pc = "markSent"
    /\ SetRow(m, MarkSent(row[m], ProviderOfWorker(w), worker[w].pid))
    /\ Answered(w, "incrementAttempts")
    /\ UNCHANGED <<job, admin, outside>>
(* The provider accepted: SmsService.markSent. *)
RecordSent(w) ==
    LET m == MessageOfWorker(w) IN
    /\ worker[w].pc = "markSent"
    /\ SetRow(m, MarkSent(row[m], ProviderOfWorker(w), worker[w].pid))
    /\ Answered(w, "returned")
    /\ UNCHANGED <<job, admin, outside>>

RecordFatalWithoutDeadLetter(w) ==
    LET m == MessageOfWorker(w) IN
    /\ worker[w].pc = "markFatalFailure"
    /\ SetRow(m, MarkFatalFailure(row[m], ProviderOfWorker(w)))
    /\ Answered(w, "returned")
    /\ UNCHANGED <<job, admin, outside>>
(* Every provider was tried: SmsService.markFatalFailure. *)
RecordFatalFailure(w) ==
    LET m == MessageOfWorker(w) IN
    /\ worker[w].pc = "markFatalFailure"
    /\ SetRow(m, MarkFatalFailure(row[m], ProviderOfWorker(w)))
    /\ Answered(w, "enqueueDeadLetter")
    /\ UNCHANGED <<job, admin, outside>>

(* QueueService.enqueueDeadLetter: a dead letter for the exhausted message. *)
EnqueueDeadLetter(w) ==
    LET m == MessageOfWorker(w) IN
    /\ worker[w].pc = "enqueueDeadLetter"
    /\ deadLetters' = [deadLetters EXCEPT ![m] = @ + 1]
    /\ \/ Goto(w, "returned") /\ UNCHANGED <<faults, dlqFailed>>
       \/ /\ Goto(w, "threw") /\ ErrorHappens
          /\ dlqFailed' = dlqFailed \cup {worker[w].job}
    /\ UNCHANGED <<row, job, admin, accepted, keyed, calls, jobCalls>>

(* A call fails without taking effect; the error leaves dispatch. *)
CallThrows(w) ==
    /\ worker[w].pc \in DatabasePcs \cup QueuePcs
    /\ ErrorHappens
    /\ Goto(w, "threw")
    /\ dlqFailed' = IF worker[w].pc = "enqueueDeadLetter"
                        THEN dlqFailed \cup {worker[w].job} ELSE dlqFailed
    /\ UNCHANGED <<row, job, admin, accepted, keyed, calls, jobCalls, deadLetters>>

-----------------------------------------------------------------------------
(***************************************************************************)
(* BullMQ settles a job for the worker that still owns it; what a worker   *)
(* that lost its job reports is ignored. A failed run is retried while the *)
(* job has attempts left (the backoff delay is not modelled).              *)
(***************************************************************************)
Owns(w) == job[worker[w].job].owner = w

JobCompletes(w) ==
    /\ worker[w].pc = "returned"
    /\ job' = IF Owns(w)
                 THEN [job EXCEPT ![worker[w].job].state = "completed",
                                  ![worker[w].job].owner = Null]
                 ELSE job
    /\ worker' = [worker EXCEPT ![w] = IdleWorker]
    /\ UNCHANGED <<row, admin, faults, outside>>

JobFails(w) ==
    LET j == worker[w].job
        n == job[j].failures + 1 IN
    /\ worker[w].pc = "threw"
    /\ job' = IF Owns(w)
                 THEN [job EXCEPT ![j].state = IF n < JobAttempts THEN "waiting" ELSE "failed",
                                  ![j].failures = n, ![j].owner = Null]
                 ELSE job
    /\ worker' = [worker EXCEPT ![w] = IdleWorker]
    /\ UNCHANGED <<row, admin, faults, outside>>

(* The worker's process dies and is restarted; its job stays locked. *)
Crash(w) ==
    /\ worker[w].pc # "idle"
    /\ faults.crashes < MaxCrashes
    /\ faults' = [faults EXCEPT !.crashes = @ + 1]
    /\ worker' = [worker EXCEPT ![w] = IdleWorker]
    /\ UNCHANGED <<row, job, admin, outside>>

(* The job's lock expired: it waits again, or fails once it stalled too often. *)
Stall(j) ==
    job' = [job EXCEPT ![j].state = IF job[j].stalls < MaxStalledCount
                                        THEN "waiting" ELSE "failed",
                       ![j].stalls = @ + 1, ![j].owner = Null]

RecoverStalledJob(j) ==
    /\ job[j].state = "active"
    /\ \A w \in Workers : job[j].owner = w => worker[w].job # j
    /\ Stall(j)
    /\ UNCHANGED <<row, worker, admin, faults, outside>>

(* The worker is alive but did not renew its lock in time. *)
FalseStall(j) ==
    /\ job[j].state = "active"
    /\ \E w \in Workers : job[j].owner = w /\ worker[w].job = j
    /\ faults.falseStalls < MaxFalseStalls
    /\ faults' = [faults EXCEPT !.falseStalls = @ + 1]
    /\ Stall(j)
    /\ UNCHANGED <<row, worker, admin, outside>>

-----------------------------------------------------------------------------
(* SmsService.requeue, one action per await. *)

(* The row is read; a message that is not FATAL_FAILURE is refused. *)
RequeueFind(a) ==
    /\ admin[a].pc = "idle"
    /\ faults.requeues < MaxRequeues
    /\ \E m \in Messages :
        /\ row[m].status = "FATAL_FAILURE"
        /\ admin' = [admin EXCEPT ![a] = [pc |-> "transition", message |-> m,
                                          provider |-> row[m].selectedProvider]]
    /\ faults' = [faults EXCEPT !.requeues = @ + 1]
    /\ UNCHANGED <<row, job, worker, outside>>

(* The conditional UPDATE; the request is refused when it changes no row. *)
RequeueTransition(a) ==
    LET m == admin[a].message IN
    /\ admin[a].pc = "transition"
    /\ \/ /\ MayTransitionToQueued(row[m])
          /\ SetRow(m, TransitionFatalFailureToQueued(row[m]))
          /\ \/ admin' = [admin EXCEPT ![a].pc = "requeueSms"] /\ UNCHANGED faults
             \/ admin' = [admin EXCEPT ![a] = IdleAdmin] /\ ErrorHappens
       \/ /\ ~MayTransitionToQueued(row[m])
          /\ admin' = [admin EXCEPT ![a] = IdleAdmin]
          /\ UNCHANGED <<row, faults>>
    /\ UNCHANGED <<job, worker, outside>>

(* A fresh job is published; the answer may be lost. *)
PublishRequeue(a) ==
    LET m == admin[a].message IN
    /\ admin[a].pc = "requeueSms"
    /\ \E g \in 1 .. MaxRequeues :
        /\ job[<<m, g>>].state = "absent"
        /\ \A h \in 1 .. (g - 1) : job[<<m, h>>].state # "absent"
        /\ job' = [job EXCEPT ![<<m, g>>] = PublishedJob]
    /\ \/ admin' = [admin EXCEPT ![a] = IdleAdmin] /\ UNCHANGED faults
       \/ admin' = [admin EXCEPT ![a].pc = "restore"] /\ ErrorHappens
    /\ UNCHANGED <<row, worker, outside>>

(* Publication failed: the row goes back to FATAL_FAILURE, whatever it is now. *)
RequeueRestore(a) ==
    LET m == admin[a].message IN
    /\ admin[a].pc = "restore"
    /\ SetRow(m, RestoreFatalFailure(row[m], admin[a].provider))
    /\ admin' = [admin EXCEPT ![a] = IdleAdmin]
    /\ UNCHANGED <<job, worker, faults, outside>>

RequeueThrowsUncompensated(a) ==
    /\ admin[a].pc # "idle"
    /\ ErrorHappens
    /\ admin' = [admin EXCEPT ![a] = IdleAdmin]
    /\ UNCHANGED <<row, job, worker, outside>>
(* A call of the request fails without effect. *)
RequeueThrows(a) ==
    /\ admin[a].pc # "idle"
    /\ ErrorHappens
    /\ admin' = [admin EXCEPT ![a] =
                    IF @.pc = "requeueSms" THEN [@ EXCEPT !.pc = "restore"] ELSE IdleAdmin]
    /\ UNCHANGED <<row, job, worker, outside>>

(* The API process dies in the middle of the request. *)
RequeueCrash(a) ==
    /\ admin[a].pc # "idle"
    /\ faults.crashes < MaxCrashes
    /\ faults' = [faults EXCEPT !.crashes = @ + 1]
    /\ admin' = [admin EXCEPT ![a] = IdleAdmin]
    /\ UNCHANGED <<row, job, worker, outside>>

-----------------------------------------------------------------------------
DispatchStep(w) ==
    \/ FindById(w) \/ ClaimMessage(w) \/ CountAttempt(w) \/ Throttle(w) \/ SendSms(w)
    \/ RecordSent(w) \/ RecordFatalFailure(w) \/ EnqueueDeadLetter(w)

WorkerStep(w) ==
    Process(w) \/ DispatchStep(w) \/ CallThrows(w) \/ JobCompletes(w) \/ JobFails(w)

RequeueStep(a) ==
    RequeueTransition(a) \/ PublishRequeue(a) \/ RequeueRestore(a) \/ RequeueThrows(a)

(* Nothing is left to do: the only states the system may rest in. *)
Quiescent ==
    /\ \A w \in Workers : worker[w].pc = "idle"
    /\ \A a \in Admins : admin[a].pc = "idle"
    /\ \A j \in JobIds : job[j].state \notin {"waiting", "active"}

Rest == Quiescent /\ UNCHANGED vars

Activity ==
    \/ \E w \in Workers : WorkerStep(w) \/ Crash(w)
    \/ \E j \in JobIds : RecoverStalledJob(j) \/ FalseStall(j)
    \/ \E a \in Admins : RequeueFind(a) \/ RequeueStep(a) \/ RequeueCrash(a)

Next == Activity \/ Rest

Spec == Init /\ [][Next]_vars

(***************************************************************************)
(* Workers keep fetching and running jobs, BullMQ keeps looking for        *)
(* stalled jobs, and a request that was started is finished. Nobody is     *)
(* obliged to requeue, and nothing is obliged to fail.                     *)
(***************************************************************************)
Fairness ==
    /\ \A w \in Workers : WF_vars(WorkerStep(w))
    /\ \A j \in JobIds : WF_vars(RecoverStalledJob(j))
    /\ \A a \in Admins : WF_vars(RequeueStep(a))

FairSpec == Spec /\ Fairness

-----------------------------------------------------------------------------
(* Properties. *)

(* Every variable keeps its type. *)
TypeOK ==
    /\ row \in [Messages -> SmsMessage]
    /\ job \in [JobIds -> Job]
    /\ worker \in [Workers -> Worker]
    /\ \A w \in Workers : worker[w].pc # "idle" => worker[w].job \in JobIds
    /\ \A w \in Workers : worker[w].pc = "markSent" => worker[w].pid \in Nat
    /\ admin \in [Admins -> Admin]
    /\ \A a \in Admins : admin[a].pc # "idle" => admin[a].message \in Messages
    /\ faults \in [errors: Nat, crashes: Nat, falseStalls: Nat, requeues: Nat]
    /\ calls \in [Messages -> Nat]
    /\ jobCalls \in [JobIds -> Nat]
    /\ accepted \in [Messages -> Nat]
    /\ keyed \in [Messages -> [KeyedProviders -> Nat \cup {Null}]]
    /\ deadLetters \in [Messages -> Nat]
    /\ dlqFailed \subseteq JobIds

(* The workers that are between the claim and the end of a dispatch of m. *)
DispatchPcs == {"incrementAttempts", "throttle", "sendSms", "markSent", "markFatalFailure"}
Dispatchers(m) == {w \in Workers : worker[w].pc \in DispatchPcs /\ MessageOfWorker(w) = m}

(* The workers that have counted an attempt on m they have not made yet. *)
AboutToSend(m) ==
    {w \in Workers : worker[w].pc \in {"throttle", "sendSms"} /\ MessageOfWorker(w) = m}

(***************************************************************************)
(* Every provider call is counted before it is made: `attempts' covers all *)
(* calls made and those about to be made, whatever crashes, retries and    *)
(* overlaps happened (dispatchAcrossProviders, incrementAttempts).         *)
(***************************************************************************)
AttemptsCoverCalls ==
    \A m \in Messages : calls[m] + Cardinality(AboutToSend(m)) <= row[m].attempts

(***************************************************************************)
(* The columns of a row agree with its status although markSent,           *)
(* markFatalFailure and the requeue overwrite each other unconditionally:  *)
(* only a SENT row has an external id, one a provider really issued, so a  *)
(* delivery callback finds no row that is queued, in progress or fatal.    *)
(***************************************************************************)
RecordAgrees(r, issued) ==
    /\ r.providerMessageId # Null <=> r.status = "SENT"
    /\ r.providerMessageId # Null => r.providerMessageId \in 1 .. issued
    /\ r.sentAt = "set" <=> r.status = "SENT"
    /\ r.failedAt = "set" <=> r.status = "FATAL_FAILURE"
    /\ r.selectedProvider # Null <=> r.status \in {"SENT", "FATAL_FAILURE"}
RowsAgree == \A m \in Messages : RecordAgrees(row[m], accepted[m])

(***************************************************************************)
(* The inductive form of RowsAgree: an id waiting to be recorded, or kept  *)
(* for an idempotency key, was issued for that very message, and a requeue *)
(* request remembers the provider of a row that had one.                   *)
(***************************************************************************)
RowsInductive ==
    /\ RowsAgree
    /\ \A w \in Workers :
        worker[w].pc = "markSent" => worker[w].pid \in 1 .. accepted[MessageOfWorker(w)]
    /\ \A m \in Messages, p \in KeyedProviders :
        keyed[m][p] # Null => keyed[m][p] \in 1 .. accepted[m]
    /\ \A a \in Admins : admin[a].pc # "idle" => admin[a].provider \in Providers

(***************************************************************************)
(* No two workers dispatch the same message at the same time (README.md:   *)
(* "two workers racing for the same message still cannot both win"). Holds *)
(* without false stalls while requeues and faults stay apart: a crash      *)
(* between markFatalFailure and the dead letter, followed by a requeue, is *)
(* enough to give a message two live jobs.                                 *)
(***************************************************************************)
SoleDispatcher == \A m \in Messages : Cardinality(Dispatchers(m)) <= 1

(***************************************************************************)
(* What the dispatch promises when no two workers overlap: the status of a *)
(* message moves as in MessageLifecycle and only the requeue endpoint ever *)
(* takes it back; a retried job or a late markFatalFailure never undoes    *)
(* SENT.                                                                   *)
(***************************************************************************)
Lifecycle == INSTANCE MessageLifecycle WITH status <- [m \in Messages |-> row[m].status]
LifecycleImplemented == Lifecycle!Spec

(***************************************************************************)
(* A provider is called only for a message that is PROCESSING right then:  *)
(* the claim, made several awaits before, has not become stale.            *)
(***************************************************************************)
CallOnlyWhileProcessing ==
    [][\A m \in Messages : calls'[m] # calls[m] => row[m].status = "PROCESSING"]_vars

(***************************************************************************)
(* A recipient gets a message more than once only because something went   *)
(* wrong: every extra acceptance is paid for by a lost answer or           *)
(* connection, a crash or a false stall; a requeue alone never causes one. *)
(***************************************************************************)
DuplicatesArePaidFor ==
    \A m \in Messages :
        accepted[m] <= 1 + faults.errors + faults.crashes + faults.falseStalls

(***************************************************************************)
(* The two retry layers multiply at worst: each run of a job makes at most *)
(* MaxRetries calls per provider, and only failures and stalls add runs.   *)
(***************************************************************************)
CallsPerDispatch == Len(ProviderOrder) * MaxRetries
CallsBoundedByRuns ==
    \A j \in JobIds : jobCalls[j] <= CallsPerDispatch * (job[j].failures + job[j].stalls + 1)

(***************************************************************************)
(* Without faults, the dead-letter queue at rest holds exactly one letter  *)
(* for every dispatch that exhausted the providers: all jobs of a message  *)
(* but the one that sent it (markFatalFailure, enqueueDeadLetter, requeue).*)
(***************************************************************************)
JobsOf(m) == {j \in JobIds : MessageOf(j) = m /\ job[j].state # "absent"}
DeadLettersExact ==
    Quiescent /\ faults.errors + faults.crashes + faults.falseStalls = 0 =>
        \A m \in Messages :
            deadLetters[m] = Cardinality(JobsOf(m)) - (IF row[m].status = "SENT" THEN 1 ELSE 0)

(***************************************************************************)
(* Every message that is queued or in progress is settled in the end: sent *)
(* or failed for good. Needs fewer failures than JobAttempts and no more   *)
(* stalls than MaxStalledCount, because BullMQ then gives the job up.      *)
(***************************************************************************)
EveryMessageSettles ==
    \A m \in Messages :
        row[m].status \in {"QUEUED", "PROCESSING"} ~>
            row[m].status \in {"SENT", "FATAL_FAILURE"}

(***************************************************************************)
(* README.md, Consistency Note: when the dead letter cannot be published   *)
(* "the worker job fails visibly". So such a job never ends completed.     *)
(***************************************************************************)
DlqFailureIsVisible == \A j \in dlqFailed : job[j].state # "completed"
=============================================================================
