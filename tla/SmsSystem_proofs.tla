-------------------------- MODULE SmsSystem_proofs --------------------------
(***************************************************************************)
(* Theorems about SmsSystem, for any number of messages, workers, requeue  *)
(* requests and callback handlers, and any number of faults. What workers, *)
(* queue and requeues do to each other is proved in SmsDispatch_proofs and *)
(* SmsDispatchOverlap_proofs; here the creators and the callbacks join in. *)
(***************************************************************************)
EXTENDS SmsSystem, SmsDispatchOverlap_proofs

-----------------------------------------------------------------------------
(* Type correctness. *)

LEMMA ReportUpdates ==
    ASSUME NEW r \in SmsMessage, NEW s \in Reports
    PROVE  /\ MarkQueuePublishFailed(r) \in SmsMessage
           /\ ApplyDeliveryStatus(r, s) \in SmsMessage
<1>1. s \in SmsStatuses
  BY ReportsAssumption DEF SmsStatuses, DELIVERY_TERMINAL_STATUSES, DELIVERY_FAILURE_STATUSES
<1>2. MarkQueuePublishFailed(r) \in SmsMessage
  BY DEF MarkQueuePublishFailed, SmsMessage, SmsStatuses, Timestamp
<1>3. /\ [r EXCEPT !.status = s, !.deliveredAt = "set", !.failedAt = "unset"] \in SmsMessage
      /\ [r EXCEPT !.status = s, !.failedAt = "set"] \in SmsMessage
      /\ [r EXCEPT !.status = s, !.sentAt = "set"] \in SmsMessage
  BY <1>1 DEF SmsMessage, Timestamp
<1>4. QED
  BY <1>2, <1>3 DEF ApplyDeliveryStatus

(* applyDeliveryStatus writes the status that was reported. *)
LEMMA StatusApplied ==
    ASSUME NEW r \in SmsMessage, NEW s \in Reports
    PROVE  ApplyDeliveryStatus(r, s).status = s
<1>1. /\ [r EXCEPT !.status = s, !.deliveredAt = "set", !.failedAt = "unset"].status = s
      /\ [r EXCEPT !.status = s, !.failedAt = "set"].status = s
      /\ [r EXCEPT !.status = s, !.sentAt = "set"].status = s
  BY DEF SmsMessage
<1>2. QED
  BY <1>1 DEF ApplyDeliveryStatus

LEMMA FirstJob ==
    ASSUME NEW m \in Messages
    PROVE  <<m, 0>> \in JobIds /\ MessageOf(<<m, 0>>) = m
BY BoundAssumption DEF JobIds, MessageOf

LEMMA HandlerTypes ==
    /\ IdleHandler \in Handler
    /\ \A m \in Messages, s \in Reports : [message |-> m, status |-> s] \in Handler
BY DEF IdleHandler, Handler

LEMMA SystemTypeInit == SystemInit => SystemTypeOK
<1> SUFFICES ASSUME SystemInit PROVE SystemTypeOK
  OBVIOUS
<1>1. TypeOK
  BY RetryAssumption, OrderAssumption, InitialWorker, InitialAdmin
     DEF SystemInit, Undispatched, TypeOK, QueuedMessage, SmsMessage, SmsStatuses, Timestamp,
         Job, JobStates, AbsentJob, NoFaults
<1>2. QED
  BY <1>1, HandlerTypes DEF SystemInit, SystemTypeOK, CreatorPcs

(* What a step of a creator leaves alone, and the little it changes. *)
LEMMA CreatorChanges ==
    ASSUME SystemTypeOK, NEW m \in Messages, CreatorStep(m) \/ AbandonPublication(m)
    PROVE  /\ SystemTypeOK'
           /\ UNCHANGED <<worker, admin, outside, handler, interrupted>>
           /\ \A n \in Messages : n # m => creator'[n] = creator[n] /\ row'[n] = row[n]
           /\ \A j \in JobIds : j # <<m, 0>> => job'[j] = job[j]
<1>t. /\ job \in [JobIds -> Job] /\ row \in [Messages -> SmsMessage]
      /\ creator \in [Messages -> CreatorPcs] /\ <<m, 0>> \in JobIds
      /\ faults \in [errors: Nat, crashes: Nat, falseStalls: Nat, requeues: Nat]
  BY FirstJob DEF SystemTypeOK, TypeOK
<1>1. UNCHANGED <<worker, admin, outside, handler, interrupted>>
  BY DEF CreatorStep, Publish, PublishFails, RefusePublication, AbandonPublication, creatorOnly
<1>2. /\ creator' \in [Messages -> CreatorPcs]
      /\ \A n \in Messages : n # m => creator'[n] = creator[n]
  BY <1>t DEF CreatorStep, Publish, PublishFails, RefusePublication, AbandonPublication,
     GotoCreator, CreatorPcs
<1>3. faults' \in [errors: Nat, crashes: Nat, falseStalls: Nat, requeues: Nat]
  BY <1>t DEF CreatorStep, Publish, PublishFails, RefusePublication, AbandonPublication,
     ErrorHappens
<1>4. /\ job' \in [JobIds -> Job]
      /\ \A j \in JobIds : j # <<m, 0>> => job'[j] = job[j]
  <2>1. PublishedJob \in Job
    BY DEF PublishedJob, AbsentJob, Job, JobStates
  <2>2. job' = job \/ job' = [job EXCEPT ![<<m, 0>>] = PublishedJob]
    BY DEF CreatorStep, Publish, PublishFails, RefusePublication, AbandonPublication
  <2>3. QED
    BY <1>t, <2>1, <2>2
<1>5. /\ row' \in [Messages -> SmsMessage]
      /\ \A n \in Messages : n # m => row'[n] = row[n]
  <2>1. row' = row \/ row' = [row EXCEPT ![m] = MarkQueuePublishFailed(row[m])]
    BY DEF CreatorStep, Publish, PublishFails, RefusePublication, AbandonPublication, SetRow
  <2>2. MarkQueuePublishFailed(row[m]) \in SmsMessage
    BY <1>t DEF MarkQueuePublishFailed, SmsMessage, SmsStatuses, Timestamp
  <2>3. QED
    BY <1>t, <2>1, <2>2
<1>6. SystemTypeOK'
  BY <1>1, <1>2, <1>3, <1>4, <1>5 DEF SystemTypeOK, TypeOK, outside
<1>7. QED
  BY <1>1, <1>2, <1>4, <1>5, <1>6

(* The same for a callback handler. *)
LEMMA HandlerChanges ==
    ASSUME SystemTypeOK, NEW h \in Handlers, FindReported(h) \/ HandlerStep(h)
    PROVE  /\ SystemTypeOK'
           /\ UNCHANGED <<job, worker, admin, faults, outside, creator, interrupted>>
           /\ \A g \in Handlers : g # h => handler'[g] = handler[g]
           /\ \A n \in Messages :
                row'[n] # row[n] => handler[h] # IdleHandler /\ n = handler[h].message
<1>t. /\ handler \in [Handlers -> Handler] /\ row \in [Messages -> SmsMessage]
  BY DEF SystemTypeOK, TypeOK
<1>1. UNCHANGED <<job, worker, admin, faults, outside, creator, interrupted>>
  BY DEF FindReported, HandlerStep, ApplyReport, HandlerFails, handlerOnly
<1>2. \A g \in Handlers : g # h => handler'[g] = handler[g]
  BY <1>t DEF FindReported, HandlerStep, ApplyReport, HandlerFails
<1>3. CASE FindReported(h)
  <2>1. PICK m \in Messages, s \in Reports :
          handler' = [handler EXCEPT ![h] = [message |-> m, status |-> s]]
    BY <1>3 DEF FindReported
  <2>2. row' = row
    BY <1>3 DEF FindReported
  <2>3. handler'[h] = [message |-> m, status |-> s] /\ handler' \in [Handlers -> Handler]
    BY <1>t, <2>1, HandlerTypes
  <2>4. SystemTypeOK'
    BY <1>1, <1>2, <2>2, <2>3 DEF SystemTypeOK, TypeOK, outside
  <2>5. QED
    BY <1>1, <1>2, <2>2, <2>4
<1>4. CASE HandlerStep(h)
  <2> DEFINE m == handler[h].message
             s == handler[h].status
  <2>1. handler[h] # IdleHandler /\ m \in Messages /\ s \in Reports
    BY <1>4 DEF HandlerStep, ApplyReport, HandlerFails, SystemTypeOK
  <2>2. \/ row' = row
        \/ row' = [row EXCEPT ![m] = ApplyDeliveryStatus(row[m], s)]
        \/ row' = [row EXCEPT ![m] = row[m]]
    BY <1>4 DEF HandlerStep, ApplyReport, HandlerFails, SetRow
  <2>3. handler' = [handler EXCEPT ![h] = IdleHandler]
    BY <1>4 DEF HandlerStep, ApplyReport, HandlerFails
  <2>4. handler' \in [Handlers -> Handler] /\ handler'[h] = IdleHandler
    BY <1>t, <2>3, HandlerTypes
  <2> HIDE DEF m, s
  <2>5. ApplyDeliveryStatus(row[m], s) \in SmsMessage
    BY <1>t, <2>1, ReportUpdates
  <2>6. row' \in [Messages -> SmsMessage] /\ \A n \in Messages : row'[n] # row[n] => n = m
    BY <1>t, <2>1, <2>2, <2>5
  <2>7. SystemTypeOK'
    BY <1>1, <1>2, <2>4, <2>6 DEF SystemTypeOK, TypeOK, outside
  <2>8. QED
    BY <1>1, <1>2, <2>1, <2>6, <2>7 DEF m
<1>5. QED
  BY <1>3, <1>4

LEMMA SystemTypeStep == SystemTypeOK /\ [SystemNext]_systemVars => SystemTypeOK'
<1> SUFFICES ASSUME SystemTypeOK, [SystemNext]_systemVars PROVE SystemTypeOK'
  OBVIOUS
<1>1. CASE DispatchActivity
  <2>1. TypeOK'
    BY <1>1, TypeStep DEF DispatchActivity, Next, SystemTypeOK
  <2>2. {admin[a].message : a \in {b \in Admins : CutShort(b)}} \subseteq Messages
    BY DEF CutShort, SystemTypeOK, TypeOK
  <2>3. QED
    BY <1>1, <2>1, <2>2 DEF DispatchActivity, SystemTypeOK
<1>2. CASE SystemRest \/ UNCHANGED systemVars
  BY <1>2 DEF SystemRest, systemVars, vars, outside, SystemTypeOK, TypeOK
<1>3. QED
  BY <1>1, <1>2, CreatorChanges, HandlerChanges DEF SystemNext

(***************************************************************************)
(* Every variable keeps its type with creators, workers, requeues and      *)
(* callbacks writing the same rows.                                        *)
(***************************************************************************)
THEOREM SystemTypeCorrect == SystemSpec => []SystemTypeOK
BY SystemTypeInit, SystemTypeStep, PTL DEF SystemSpec

-----------------------------------------------------------------------------
(***************************************************************************)
(* StrandedIsPaidFor. A row that waits for a dispatch is kept by a job     *)
(* that will still be run, by a run that has not settled the row yet, by   *)
(* its creator or by a requeue request. A run that is about to return has  *)
(* settled the row: if it waits again, a requeue has taken it over.        *)
(***************************************************************************)
Waits(m) == row[m].status \in {"QUEUED", "PROCESSING"}
SettledPcs == {"enqueueDeadLetter", "returned"}

Promises(j) ==
    \/ job[j].state = "waiting"
    \/ /\ job[j].state = "active"
       /\ \A w \in Workers :
            job[j].owner = w /\ worker[w].job = j => worker[w].pc \notin SettledPcs
Promised(m) == \E j \in JobIds : MessageOf(j) = m /\ Promises(j)
Asked(a, m) == admin[a].pc \in {"requeueSms", "restore"} /\ admin[a].message = m
Requested(m) == \E a \in Admins : Asked(a, m)
Publishing(m) == creator[m] \in {"enqueue", "markFailed"}
Kept(m) == Waits(m) => Promised(m) \/ Publishing(m) \/ Requested(m) \/ GivenUp(m)

LEMMA DispatchKeepsJobs ==
    ASSUME NEW w \in Workers, DispatchStep(w) \/ CallThrows(w)
    PROVE  UNCHANGED <<job, admin>>
BY DEF DispatchStep, FindById, ClaimMessage, CountAttempt, Throttle, SendSms, RecordSent,
   RecordFatalFailure, EnqueueDeadLetter, CallThrows

(* A job BullMQ gave up is never touched again. *)
LEMMA FailedJobsStay ==
    ASSUME TypeOK, OwnersActive, Activity
    PROVE  \A j \in JobIds : job[j].state = "failed" => job'[j].state = "failed"
<1>t. job \in [JobIds -> Job]
  BY DEF TypeOK
<1>1. ASSUME NEW w \in Workers, WorkerStep(w) \/ Crash(w)
      PROVE  \A j \in JobIds : job[j].state = "failed" => job'[j].state = "failed"
  <2>1. CASE DispatchStep(w) \/ CallThrows(w) \/ Crash(w)
    BY <2>1, DispatchKeepsJobs DEF Crash
  <2>2. CASE Process(w)
    BY <1>t, <2>2 DEF Process, Job
  <2>3. CASE JobCompletes(w)
    <3>1. worker[w].job \in JobIds
      BY <2>3 DEF JobCompletes, TypeOK
    <3>2. job[worker[w].job].owner = w => job[worker[w].job].state = "active"
      BY <3>1, WorkersAssumption DEF OwnersActive
    <3>3. QED
      BY <1>t, <2>3, <3>1, <3>2 DEF JobCompletes, Owns, Job
  <2>4. CASE JobFails(w)
    <3>1. worker[w].job \in JobIds
      BY <2>4 DEF JobFails, TypeOK
    <3>2. job[worker[w].job].owner = w => job[worker[w].job].state = "active"
      BY <3>1, WorkersAssumption DEF OwnersActive
    <3>3. QED
      BY <1>t, <2>4, <3>1, <3>2 DEF JobFails, Owns, Job
  <2>5. QED
    BY <1>1, <2>1, <2>2, <2>3, <2>4 DEF WorkerStep
<1>2. ASSUME NEW i \in JobIds, RecoverStalledJob(i) \/ FalseStall(i)
      PROVE  \A j \in JobIds : job[j].state = "failed" => job'[j].state = "failed"
  BY <1>t, <1>2 DEF RecoverStalledJob, FalseStall, Stall, Job
<1>3. ASSUME NEW a \in Admins, RequeueFind(a) \/ RequeueStep(a) \/ RequeueCrash(a)
      PROVE  \A j \in JobIds : job[j].state = "failed" => job'[j].state = "failed"
  BY <1>t, <1>3 DEF RequeueFind, RequeueStep, RequeueTransition, PublishRequeue, RequeueRestore,
     RequeueThrows, RequeueCrash
<1>4. QED
  BY <1>1, <1>2, <1>3 DEF Activity

(* A run that is about to return has left its row settled. *)
LEMMA ReturnsSettled ==
    ASSUME TypeOK, NEW w \in Workers, DispatchStep(w) \/ CallThrows(w),
           worker'[w].pc \in SettledPcs, worker[w].pc \notin SettledPcs,
           NEW m, m = MessageOf(worker[w].job)
    PROVE  ~Waits(m)'
<1>t. /\ worker \in [Workers -> Worker] /\ row \in [Messages -> SmsMessage]
      /\ worker[w].pc # "idle"
  BY DispatchMoves DEF TypeOK
<1>m. m \in Messages /\ row[m] \in SmsMessage
  BY <1>t, JobMessage DEF TypeOK
<1>g. ASSUME NEW pc, Answered(w, pc) \/ Goto(w, pc)
      PROVE  worker'[w].pc \in {pc, "threw"}
  <2>1. PICK q \in {pc, "threw"} : worker' = [worker EXCEPT ![w] = [worker[w] EXCEPT !.pc = q]]
    BY <1>g, WorkerGoes
  <2>2. worker'[w].pc = q
    BY <1>t, <2>1 DEF Worker
  <2>3. QED
    BY <2>2
<1>1. CASE FindById(w)
  <2>1. row[m].status \in NON_DISPATCHABLE_STATUSES
    BY <1>1, <1>g DEF FindById, SettledPcs, MessageOfWorker
  <2>2. QED
    BY <1>1, <2>1 DEF FindById, Waits, NON_DISPATCHABLE_STATUSES
<1>2. CASE ClaimMessage(w)
  <2>1. ~MayMarkProcessing(row[m]) /\ UNCHANGED row
    BY <1>2, <1>g DEF ClaimMessage, SettledPcs, MessageOfWorker
  <2>2. QED
    BY <2>1 DEF Waits, MayMarkProcessing, ClaimableStatuses
<1>3. CASE CountAttempt(w) \/ Throttle(w)
  BY <1>3, <1>g DEF CountAttempt, Throttle, SettledPcs
<1>4. CASE SendSms(w)
  <2>1. ASSUME NEW r \in BOOLEAN, AfterFailedSend(w, r)
        PROVE  worker'[w].pc \notin SettledPcs
    BY <1>t, <2>1 DEF AfterFailedSend, SettledPcs, Worker
  <2>2. ASSUME NEW pid, worker' = [worker EXCEPT ![w].pc = "markSent", ![w].pid = pid]
        PROVE  worker'[w].pc \notin SettledPcs
    BY <1>t, <2>2 DEF SettledPcs, Worker
  <2>3. QED
    BY <1>4, <2>1, <2>2 DEF SendSms
<1>5. CASE RecordSent(w)
  <2> DEFINE r == MarkSent(row[m], ProviderOfWorker(w), worker[w].pid)
  <2>1. row'[m] = r
    BY <1>5, <1>t, <1>m DEF RecordSent, SetRow, MessageOfWorker
  <2>2. r.status = "SENT"
    BY <1>m DEF MarkSent, SmsMessage
  <2>3. QED
    BY <2>1, <2>2 DEF Waits
<1>6. CASE RecordFatalFailure(w)
  <2> DEFINE r == MarkFatalFailure(row[m], ProviderOfWorker(w))
  <2>1. row'[m] = r
    BY <1>6, <1>t, <1>m DEF RecordFatalFailure, SetRow, MessageOfWorker
  <2>2. r.status = "FATAL_FAILURE"
    BY <1>m DEF MarkFatalFailure, SmsMessage
  <2>3. QED
    BY <2>1, <2>2 DEF Waits
<1>7. CASE EnqueueDeadLetter(w)
  BY <1>7 DEF EnqueueDeadLetter, SettledPcs
<1>8. CASE CallThrows(w)
  BY <1>8, <1>g DEF CallThrows, SettledPcs
<1>9. QED
  BY <1>1, <1>2, <1>3, <1>4, <1>5, <1>6, <1>7, <1>8 DEF DispatchStep

(* A job keeps its promise as long as the row waits, or BullMQ gives it up. *)
LEMMA PromiseKept ==
    ASSUME TypeOK, OwnersActive, Activity, NEW j \in JobIds, Promises(j), Waits(MessageOf(j))'
    PROVE  Promises(j)' \/ job'[j].state = "failed"
<1>t. job \in [JobIds -> Job] /\ worker \in [Workers -> Worker] /\ Null \notin Workers
  BY WorkersAssumption DEF TypeOK
<1>1. ASSUME NEW w \in Workers, DispatchStep(w) \/ CallThrows(w)
      PROVE  Promises(j)'
  <2>1. /\ \A v \in Workers : v # w => worker'[v] = worker[v]
        /\ worker'[w].job = worker[w].job /\ UNCHANGED job
    BY <1>1, DispatchMoves
  <2>2. worker[w].job = j /\ worker'[w].pc \in SettledPcs => worker[w].pc \in SettledPcs
    BY <1>1, ReturnsSettled
  <2>3. QED
    BY <2>1, <2>2 DEF Promises
<1>2. ASSUME NEW w \in Workers, Process(w)
      PROVE  Promises(j)'
  <2>1. PICK i \in JobIds :
          /\ job[i].state = "waiting"
          /\ job' = [job EXCEPT ![i].state = "active", ![i].owner = w]
          /\ worker' = [worker EXCEPT ![w] = [IdleWorker EXCEPT !.pc = "findById", !.job = i]]
    BY <1>2 DEF Process
  <2>2. /\ worker'[w].pc = "findById" /\ worker'[w].job = i
        /\ \A v \in Workers : v # w => worker'[v] = worker[v]
    BY <1>t, <2>1 DEF IdleWorker
  <2>3. CASE i = j
    <3>1. job'[j].state = "active" /\ job'[j].owner = w
      BY <1>t, <2>1, <2>3 DEF Job
    <3>2. QED
      BY <2>2, <3>1 DEF Promises, SettledPcs
  <2>4. CASE i # j
    <3>1. job'[j] = job[j]
      BY <1>t, <2>1, <2>4
    <3>2. QED
      BY <2>2, <3>1 DEF Promises, SettledPcs
  <2>5. QED
    BY <2>3, <2>4
<1>3. ASSUME NEW w \in Workers, Crash(w) \/ JobCompletes(w) \/ JobFails(w)
      PROVE  Promises(j)' \/ job'[j].state = "failed"
  <2>1. /\ worker' = [worker EXCEPT ![w] = IdleWorker] /\ IdleWorker.pc = "idle"
        /\ IdleWorker.job \notin JobIds \/ IdleWorker.pc \notin SettledPcs
    BY <1>3 DEF Crash, JobCompletes, JobFails, IdleWorker, SettledPcs
  <2>2. /\ \A v \in Workers : v # w => worker'[v] = worker[v]
        /\ worker'[w].pc \notin SettledPcs
    BY <1>t, <2>1 DEF SettledPcs
  <2>3. CASE job'[j] = job[j]
    BY <2>2, <2>3 DEF Promises
  <2>4. CASE job'[j] # job[j]
    <3>1. JobCompletes(w) \/ JobFails(w)
      BY <1>3, <2>4 DEF Crash
    <3>2. worker[w].job \in JobIds
      BY <3>1 DEF JobCompletes, JobFails, TypeOK
    <3>3. worker[w].job = j /\ job[j].owner = w
      BY <1>t, <2>4, <3>1, <3>2 DEF JobCompletes, JobFails, Owns
    <3>4. job[j].state = "active"
      BY <1>t, <3>3 DEF OwnersActive
    <3>5. JobFails(w)
      BY <3>1, <3>3, <3>4 DEF Promises, JobCompletes, SettledPcs
    <3>6. job'[j].state \in {"waiting", "failed"}
      BY <1>t, <3>3, <3>5 DEF JobFails, Owns, Job
    <3>7. QED
      BY <3>6 DEF Promises
  <2>5. QED
    BY <2>3, <2>4
<1>4. ASSUME NEW i \in JobIds, RecoverStalledJob(i) \/ FalseStall(i)
      PROVE  Promises(j)' \/ job'[j].state = "failed"
  <2>1. Stall(i) /\ UNCHANGED worker
    BY <1>4 DEF RecoverStalledJob, FalseStall
  <2>2. i # j => job'[j] = job[j]
    BY <1>t, <2>1 DEF Stall
  <2>3. i = j => job'[j].state \in {"waiting", "failed"}
    BY <1>t, <2>1 DEF Stall, Job
  <2>4. QED
    BY <2>1, <2>2, <2>3 DEF Promises
<1>5. ASSUME NEW a \in Admins, RequeueFind(a) \/ RequeueStep(a) \/ RequeueCrash(a)
      PROVE  Promises(j)'
  <2>1. UNCHANGED worker
    BY <1>5 DEF RequeueFind, RequeueStep, RequeueTransition, PublishRequeue, RequeueRestore,
       RequeueThrows, RequeueCrash
  <2>2. job'[j] = job[j]
    BY <1>t, <1>5 DEF RequeueFind, RequeueStep, RequeueTransition, PublishRequeue, RequeueRestore,
       RequeueThrows, RequeueCrash, Promises
  <2>3. QED
    BY <2>1, <2>2 DEF Promises
<1>6. QED
  BY <1>1, <1>2, <1>3, <1>4, <1>5 DEF Activity, WorkerStep

(* A requeue request that cares for a row does so until it has a job, or is over. *)
LEMMA RequestKept ==
    ASSUME SystemTypeOK, DispatchActivity, NEW a \in Admins, NEW m \in Messages, Asked(a, m),
           Waits(m)'
    PROVE  Promised(m)' \/ Requested(m)' \/ GivenUp(m)'
<1>t. /\ admin \in [Admins -> Admin] /\ job \in [JobIds -> Job]
      /\ row \in [Messages -> SmsMessage]
      /\ faults \in [errors: Nat, crashes: Nat, falseStalls: Nat, requeues: Nat]
  BY DEF SystemTypeOK, TypeOK
<1>a. admin[a].pc # "idle" /\ IdleAdmin.pc = "idle" /\ admin[a].pc # "transition"
  BY DEF Asked, IdleAdmin
<1>1. CASE admin'[a] = admin[a]
  BY <1>1 DEF Requested, Asked
<1>2. CASE admin'[a] # admin[a]
  <2>1. \A w \in Workers : ~(WorkerStep(w) \/ Crash(w))
    <3> SUFFICES ASSUME NEW w \in Workers, WorkerStep(w) \/ Crash(w) PROVE FALSE
      OBVIOUS
    <3>1. UNCHANGED admin
      BY DispatchKeepsJobs DEF WorkerStep, Process, JobCompletes, JobFails, Crash
    <3>2. QED
      BY <1>2, <3>1
  <2>2. PICK b \in Admins : RequeueFind(b) \/ RequeueStep(b) \/ RequeueCrash(b)
    BY <1>2, <2>1 DEF DispatchActivity, Activity, RecoverStalledJob, FalseStall
  <2>3. b = a
    BY <1>t, <1>2, <2>2 DEF RequeueFind, RequeueStep, RequeueTransition, PublishRequeue,
       RequeueRestore, RequeueThrows, RequeueCrash
  <2>4. CASE PublishRequeue(a)
    <3>1. PICK g \in 1 .. MaxRequeues : job' = [job EXCEPT ![<<m, g>>] = PublishedJob]
      BY <2>4 DEF PublishRequeue, Asked
    <3>2. <<m, g>> \in JobIds /\ MessageOf(<<m, g>>) = m
      BY BoundAssumption DEF JobIds, MessageOf
    <3>3. job'[<<m, g>>].state = "waiting"
      BY <1>t, <3>1, <3>2 DEF PublishedJob, AbsentJob
    <3>4. QED
      BY <3>2, <3>3 DEF Promised, Promises
  <2>5. CASE RequeueRestore(a)
    <3>1. row'[m] = RestoreFatalFailure(row[m], admin[a].provider)
      BY <1>t, <2>5 DEF RequeueRestore, SetRow, Asked
    <3>2. row[m] \in SmsMessage
      BY <1>t
    <3>3. RestoreFatalFailure(row[m], admin[a].provider).status = "FATAL_FAILURE"
      BY <3>2 DEF RestoreFatalFailure, SmsMessage
    <3>4. QED
      BY <3>1, <3>3 DEF Waits
  <2>6. CASE RequeueThrows(a) /\ admin[a].pc = "requeueSms"
    <3>1. admin'[a] = [admin[a] EXCEPT !.pc = "restore"]
      BY <1>t, <2>6 DEF RequeueThrows
    <3>2. admin'[a].pc = "restore" /\ admin'[a].message = m
      BY <1>t, <3>1 DEF Asked, Admin
    <3>3. QED
      BY <3>2 DEF Requested, Asked
  <2>7. CASE (RequeueThrows(a) /\ admin[a].pc # "requeueSms") \/ RequeueCrash(a)
    <3>1. admin'[a] = IdleAdmin
      BY <1>t, <2>7 DEF RequeueThrows, RequeueCrash
    <3>2. \/ faults'.crashes # faults.crashes
          \/ faults'.errors # faults.errors /\ admin[a].pc # "requeueSms"
      BY <1>t, <2>7 DEF RequeueThrows, RequeueCrash, ErrorHappens
    <3>3. CutShort(a)
      BY <1>a, <3>1, <3>2 DEF CutShort
    <3>4. m \in interrupted'
      BY <3>3 DEF DispatchActivity, Asked
    <3>5. QED
      BY <3>4 DEF GivenUp
  <2>8. QED
    BY <1>a, <2>2, <2>3, <2>4, <2>5, <2>6, <2>7 DEF RequeueFind, RequeueStep, RequeueTransition
<1>3. QED
  BY <1>1, <1>2

(* Nothing but a requeue makes a settled row wait again. *)
LEMMA OnlyRequeuesReopen ==
    ASSUME SystemTypeOK, DispatchActivity, NEW m \in Messages, ~Waits(m), Waits(m)'
    PROVE  Requested(m)' \/ GivenUp(m)'
<1>t. /\ admin \in [Admins -> Admin] /\ row \in [Messages -> SmsMessage]
      /\ worker \in [Workers -> Worker]
      /\ faults \in [errors: Nat, crashes: Nat, falseStalls: Nat, requeues: Nat]
      /\ row[m] \in SmsMessage
  BY DEF SystemTypeOK, TypeOK
<1>1. ASSUME NEW w \in Workers, WorkerStep(w) \/ Crash(w) PROVE FALSE
  <2>1. CASE UNCHANGED row
    BY <2>1 DEF Waits
  <2>2. CASE ClaimMessage(w)
    <3>1. \/ UNCHANGED row
          \/ MayMarkProcessing(row[MessageOfWorker(w)])
             /\ row' = [row EXCEPT ![MessageOfWorker(w)] = MarkProcessing(row[MessageOfWorker(w)])]
      BY <2>2 DEF ClaimMessage, SetRow
    <3>2. row'[m] # row[m] => MayMarkProcessing(row[m])
      BY <1>t, <3>1
    <3>3. QED
      BY <3>2 DEF Waits, MayMarkProcessing, ClaimableStatuses
  <2>3. CASE CountAttempt(w)
    <3>1. row'[m] = row[m] \/ row'[m] = IncrementAttempts(row[m])
      BY <1>t, <2>3 DEF CountAttempt, SetRow
    <3>2. IncrementAttempts(row[m]).status = row[m].status
      BY <1>t DEF IncrementAttempts, SmsMessage
    <3>3. QED
      BY <3>1, <3>2 DEF Waits
  <2>4. CASE RecordSent(w)
    <3> DEFINE r == MarkSent(row[m], ProviderOfWorker(w), worker[w].pid)
    <3>1. row'[m] = row[m] \/ row'[m] = r
      BY <1>t, <2>4 DEF RecordSent, SetRow
    <3>2. r.status = "SENT"
      BY <1>t DEF MarkSent, SmsMessage
    <3>3. QED
      BY <3>1, <3>2 DEF Waits
  <2>5. CASE RecordFatalFailure(w)
    <3> DEFINE r == MarkFatalFailure(row[m], ProviderOfWorker(w))
    <3>1. row'[m] = row[m] \/ row'[m] = r
      BY <1>t, <2>5 DEF RecordFatalFailure, SetRow
    <3>2. r.status = "FATAL_FAILURE"
      BY <1>t DEF MarkFatalFailure, SmsMessage
    <3>3. QED
      BY <3>1, <3>2 DEF Waits
  <2>6. QED
    BY <1>1, <2>1, <2>2, <2>3, <2>4, <2>5 DEF WorkerStep, DispatchStep, Process, FindById, Throttle,
       SendSms, EnqueueDeadLetter, CallThrows, JobCompletes, JobFails, Crash
<1>2. ASSUME NEW j \in JobIds, RecoverStalledJob(j) \/ FalseStall(j) PROVE FALSE
  BY <1>2 DEF RecoverStalledJob, FalseStall, Waits
<1>3. PICK a \in Admins : RequeueFind(a) \/ RequeueStep(a) \/ RequeueCrash(a)
  BY <1>1, <1>2 DEF DispatchActivity, Activity
<1>4. CASE RequeueTransition(a) /\ row' # row
  <2>1. /\ SetRow(admin[a].message, TransitionFatalFailureToQueued(row[admin[a].message]))
        /\ admin[a].pc = "transition"
    BY <1>4 DEF RequeueTransition
  <2>2. m = admin[a].message
    BY <1>t, <2>1 DEF SetRow, Waits
  <2>3. CASE admin' = [admin EXCEPT ![a].pc = "requeueSms"]
    <3>1. admin'[a] = [admin[a] EXCEPT !.pc = "requeueSms"]
      BY <1>t, <2>3
    <3>2. Asked(a, m)'
      BY <1>t, <2>2, <3>1 DEF Asked, Admin
    <3>3. QED
      BY <3>2 DEF Requested
  <2>4. CASE admin' = [admin EXCEPT ![a] = IdleAdmin] /\ ErrorHappens
    <3>1. admin'[a] = IdleAdmin /\ faults'.errors # faults.errors
      BY <1>t, <2>4 DEF ErrorHappens
    <3>2. CutShort(a)
      BY <2>1, <3>1 DEF CutShort
    <3>3. m \in interrupted'
      BY <2>2, <3>2 DEF DispatchActivity
    <3>4. QED
      BY <3>3 DEF GivenUp
  <2>5. QED
    BY <1>4, <2>3, <2>4 DEF RequeueTransition
<1>5. CASE RequeueRestore(a)
  <2> DEFINE r == RestoreFatalFailure(row[m], admin[a].provider)
  <2>1. row'[m] = row[m] \/ row'[m] = r
    BY <1>t, <1>5 DEF RequeueRestore, SetRow
  <2>2. r.status = "FATAL_FAILURE"
    BY <1>t DEF RestoreFatalFailure, SmsMessage
  <2>3. QED
    BY <2>1, <2>2 DEF Waits
<1>6. CASE UNCHANGED row
  BY <1>6 DEF Waits
<1>7. QED
  BY <1>3, <1>4, <1>5, <1>6 DEF RequeueFind, RequeueStep, PublishRequeue, RequeueThrows,
     RequeueCrash

LEMMA KeptByDispatch ==
    ASSUME SystemTypeOK, OwnersActive, \A n \in Messages : Kept(n), DispatchActivity,
           NEW m \in Messages
    PROVE  Kept(m)'
<1> SUFFICES ASSUME Waits(m)'
             PROVE  Promised(m)' \/ Publishing(m)' \/ Requested(m)' \/ GivenUp(m)'
  BY DEF Kept
<1>a. TypeOK /\ Activity
  BY DEF SystemTypeOK, DispatchActivity
<1>1. GivenUp(m) => GivenUp(m)'
  BY <1>a, FailedJobsStay DEF GivenUp, DispatchActivity
<1>2. Promised(m) => Promised(m)' \/ GivenUp(m)'
  <2>1. ASSUME NEW j \in JobIds, MessageOf(j) = m, Promises(j)
        PROVE  Promised(m)' \/ GivenUp(m)'
    <3>1. Promises(j)' \/ job'[j].state = "failed"
      BY <1>a, <2>1, PromiseKept
    <3>2. QED
      BY <2>1, <3>1 DEF Promised, GivenUp
  <2>2. QED
    BY <2>1 DEF Promised
<1>3. Requested(m) => Promised(m)' \/ Requested(m)' \/ GivenUp(m)'
  BY RequestKept DEF Requested
<1>4. Publishing(m) => Publishing(m)'
  BY DEF Publishing, DispatchActivity
<1>5. ~Waits(m) => Requested(m)' \/ GivenUp(m)'
  BY OnlyRequeuesReopen
<1>6. QED
  BY <1>1, <1>2, <1>3, <1>4, <1>5 DEF Kept

(* A creator publishes, or settles the row, or leaves it for good. *)
LEMMA KeptByCreator ==
    ASSUME SystemTypeOK, \A n \in Messages : Kept(n), NEW c \in Messages,
           CreatorStep(c) \/ AbandonPublication(c), NEW m \in Messages
    PROVE  Kept(m)'
<1> SUFFICES ASSUME Waits(m)'
             PROVE  Promised(m)' \/ Publishing(m)' \/ Requested(m)' \/ GivenUp(m)'
  BY DEF Kept
<1>t. /\ job \in [JobIds -> Job] /\ row \in [Messages -> SmsMessage]
      /\ creator \in [Messages -> CreatorPcs]
      /\ <<c, 0>> \in JobIds /\ MessageOf(<<c, 0>>) = c
  BY FirstJob DEF SystemTypeOK, TypeOK
<1>u. /\ UNCHANGED <<worker, admin, interrupted>>
      /\ \A n \in Messages : n # c => creator'[n] = creator[n] /\ row'[n] = row[n]
      /\ \A j \in JobIds : j # <<c, 0>> => job'[j] = job[j]
  BY CreatorChanges
<1>1. CASE m # c
  <2>1. \A j \in JobIds : MessageOf(j) = m => j # <<c, 0>>
    BY <1>t, <1>1
  <2>2. Waits(m)
    BY <1>u, <1>1 DEF Waits
  <2>3. Promised(m) => Promised(m)'
    BY <1>u, <2>1 DEF Promised, Promises
  <2>4. GivenUp(m) => GivenUp(m)'
    BY <1>u, <1>1, <2>1 DEF GivenUp
  <2>5. Requested(m) => Requested(m)'
    BY <1>u DEF Requested, Asked
  <2>6. Publishing(m) => Publishing(m)'
    BY <1>u, <1>1 DEF Publishing
  <2>7. QED
    BY <2>2, <2>3, <2>4, <2>5, <2>6 DEF Kept
<1>2. CASE m = c
  <2>1. CASE Publish(c)
    <3>1. job'[<<c, 0>>].state = "waiting"
      BY <1>t, <2>1 DEF Publish, PublishedJob, AbsentJob
    <3>2. QED
      BY <1>t, <1>2, <3>1 DEF Promised, Promises
  <2>2. CASE PublishFails(c)
    BY <1>t, <1>2, <2>2 DEF PublishFails, GotoCreator, Publishing
  <2>3. CASE RefusePublication(c)
    <3>1. row'[c] = MarkQueuePublishFailed(row[c]) /\ row[c] \in SmsMessage
      BY <1>t, <2>3 DEF RefusePublication, SetRow
    <3>2. MarkQueuePublishFailed(row[c]).status = "FAILED"
      BY <3>1 DEF MarkQueuePublishFailed, SmsMessage
    <3>3. QED
      BY <1>2, <3>1, <3>2 DEF Waits
  <2>4. CASE AbandonPublication(c)
    BY <1>t, <1>2, <2>4 DEF AbandonPublication, GotoCreator, GivenUp
  <2>5. QED
    BY <2>1, <2>2, <2>3, <2>4 DEF CreatorStep
<1>3. QED
  BY <1>1, <1>2

(* A callback never makes a row wait: SENT is the least it may report. *)
LEMMA KeptByHandler ==
    ASSUME SystemTypeOK, \A n \in Messages : Kept(n), NEW h \in Handlers,
           FindReported(h) \/ HandlerStep(h), NEW m \in Messages
    PROVE  Kept(m)'
<1> SUFFICES ASSUME Waits(m)'
             PROVE  Promised(m)' \/ Publishing(m)' \/ Requested(m)' \/ GivenUp(m)'
  BY DEF Kept
<1>u. UNCHANGED <<job, worker, admin, creator, interrupted>>
  BY HandlerChanges
<1>1. Waits(m)
  <2>1. CASE row'[m] = row[m]
    BY <2>1 DEF Waits
  <2>2. CASE row'[m] # row[m]
    <3>1. /\ ApplyReport(h) /\ m = handler[h].message /\ row[m] \in SmsMessage
          /\ handler[h].status \in Reports
      BY <2>2, HandlerChanges DEF FindReported, HandlerStep, HandlerFails, SystemTypeOK, TypeOK
    <3>2. row'[m] = ApplyDeliveryStatus(row[m], handler[h].status)
      BY <2>2, <3>1 DEF ApplyReport, SetRow, SystemTypeOK, TypeOK
    <3>3. handler[h].status \notin {"QUEUED", "PROCESSING"}
      BY <3>1, ReportsAssumption DEF DELIVERY_TERMINAL_STATUSES, DELIVERY_FAILURE_STATUSES
    <3>4. ApplyDeliveryStatus(row[m], handler[h].status).status = handler[h].status
      BY <3>1, StatusApplied
    <3>5. QED
      BY <3>2, <3>3, <3>4 DEF Waits
  <2>3. QED
    BY <2>1, <2>2
<1>2. QED
  BY <1>u, <1>1 DEF Kept, Promised, Promises, Publishing, Requested, Asked, GivenUp

LEMMA SystemOwnersActiveStep ==
    ASSUME SystemTypeOK, OwnersActive, [SystemNext]_systemVars
    PROVE  OwnersActive'
<1>1. CASE DispatchActivity
  BY <1>1, OwnersActiveStep DEF DispatchActivity, Next, SystemTypeOK
<1>2. ASSUME NEW c \in Messages, CreatorStep(c) \/ AbandonPublication(c)
      PROVE  OwnersActive'
  <2>1. job' = job \/ job' = [job EXCEPT ![<<c, 0>>] = PublishedJob]
    BY <1>2 DEF CreatorStep, Publish, PublishFails, RefusePublication, AbandonPublication
  <2>2. PublishedJob.owner = Null
    BY DEF PublishedJob, AbsentJob
  <2>3. QED
    BY <2>1, <2>2 DEF OwnersActive, SystemTypeOK, TypeOK
<1>3. ASSUME NEW h \in Handlers, FindReported(h) \/ HandlerStep(h)
      PROVE  OwnersActive'
  BY <1>3, HandlerChanges DEF OwnersActive
<1>4. CASE SystemRest \/ UNCHANGED systemVars
  BY <1>4 DEF SystemRest, systemVars, vars, OwnersActive
<1>5. QED
  BY <1>1, <1>2, <1>3, <1>4 DEF SystemNext

LEMMA KeptStep ==
    ASSUME SystemTypeOK, OwnersActive, \A m \in Messages : Kept(m), [SystemNext]_systemVars
    PROVE  \A m \in Messages : Kept(m)'
<1>1. CASE SystemRest \/ UNCHANGED systemVars
  BY <1>1 DEF SystemRest, systemVars, vars, Kept, Waits, Promised, Promises, Publishing, Requested,
     Asked, GivenUp
<1>2. QED
  BY <1>1, KeptByDispatch, KeptByCreator, KeptByHandler DEF SystemNext

LEMMA KeptInit == SystemInit => OwnersActive /\ \A m \in Messages : Kept(m)
BY DEF SystemInit, OwnersActive, AbsentJob, Kept, Publishing

(***************************************************************************)
(* A message that waits for a dispatch has somebody who will bring it      *)
(* about, or was given up with its creator, by BullMQ, or in a requeue     *)
(* that went wrong. Kept says more than the property: a job that is still  *)
(* active but whose run is about to return no longer counts, because       *)
(* JobCompletes would take it away with the row still waiting.             *)
(***************************************************************************)
THEOREM StrandedPaidFor == SystemSpec => []StrandedIsPaidFor
<1>1. SystemInit => SystemTypeOK /\ OwnersActive /\ \A m \in Messages : Kept(m)
  BY SystemTypeInit, KeptInit
<1>2. /\ SystemTypeOK /\ OwnersActive /\ \A m \in Messages : Kept(m)
      /\ [SystemNext]_systemVars
      => (SystemTypeOK /\ OwnersActive /\ \A m \in Messages : Kept(m))'
  BY SystemTypeStep, SystemOwnersActiveStep, KeptStep
<1>3. (\A m \in Messages : Kept(m)) => StrandedIsPaidFor
  BY DEF Kept, Waits, Promised, Promises, Publishing, Requested, Asked, Cared, StrandedIsPaidFor
<1>4. QED
  BY <1>1, <1>2, <1>3, PTL DEF SystemSpec

-----------------------------------------------------------------------------
(***************************************************************************)
(* What the actors write, whoever else is at work.                         *)
(***************************************************************************)

(* A worker on message m writes the row of m, in one of four ways. *)
SameFace(m) ==
    /\ row'[m].status = row[m].status
    /\ row'[m].providerMessageId = row[m].providerMessageId
WritesNothing(w, m) ==
    /\ SameFace(m)
    /\ worker'[w].pc \in DispatchPcs => worker[w].pc \in DispatchPcs
    /\ worker'[w].pc = "markSent" => worker[w].pc = "sendSms"
    /\ worker[w].pc # "markSent"
WritesClaim(w, m) ==
    /\ worker[w].pc = "markProcessing" /\ worker'[w].pc \in {"incrementAttempts", "threw"}
    /\ Waits(m) /\ row'[m].status = "PROCESSING"
    /\ row'[m].providerMessageId = row[m].providerMessageId
WritesSent(w, m) ==
    /\ worker[w].pc = "markSent" /\ worker'[w].pc \in {"returned", "threw"}
    /\ row'[m].status = "SENT" /\ row'[m].providerMessageId = worker[w].pid
WritesFatal(w, m) ==
    /\ worker[w].pc = "markFatalFailure" /\ worker'[w].pc \in {"enqueueDeadLetter", "threw"}
    /\ row'[m].status = "FATAL_FAILURE" /\ row'[m].providerMessageId = Null
FailsToWrite(w, m) == row' = row /\ worker'[w].pc = "threw"

LEMMA DispatchWrites ==
    ASSUME TypeOK, NEW w \in Workers, DispatchStep(w) \/ CallThrows(w),
           NEW m, m = MessageOfWorker(w)
    PROVE  /\ m \in Messages
           /\ \A n \in Messages : n # m => row'[n] = row[n]
           /\ row'[m].deliveredAt = row[m].deliveredAt
           /\ \/ WritesNothing(w, m) \/ WritesClaim(w, m) \/ WritesSent(w, m)
              \/ WritesFatal(w, m) \/ FailsToWrite(w, m)
<1>t. /\ worker \in [Workers -> Worker] /\ row \in [Messages -> SmsMessage]
      /\ worker[w].pc # "idle"
  BY DispatchMoves DEF TypeOK
<1>m. m \in Messages /\ row[m] \in SmsMessage
  BY <1>t, JobMessage DEF TypeOK, MessageOfWorker
<1>g. ASSUME NEW pc, Answered(w, pc) \/ Goto(w, pc)
      PROVE  worker'[w].pc \in {pc, "threw"}
  <2>1. PICK q \in {pc, "threw"} : worker' = [worker EXCEPT ![w] = [worker[w] EXCEPT !.pc = q]]
    BY <1>g, WorkerGoes
  <2>2. worker'[w].pc = q
    BY <1>t, <2>1 DEF Worker
  <2>3. QED
    BY <2>2
<1>s. ASSUME NEW r, SetRow(m, r), r.deliveredAt = row[m].deliveredAt
      PROVE  /\ \A n \in Messages : n # m => row'[n] = row[n]
             /\ row'[m].deliveredAt = row[m].deliveredAt /\ row'[m] = r
  BY <1>t, <1>m, <1>s DEF SetRow
<1>1. CASE FindById(w)
  <2>1. worker'[w].pc \in {"returned", "markProcessing", "threw"} /\ row' = row
    BY <1>1, <1>g DEF FindById
  <2>2. QED
    BY <1>1, <1>m, <2>1 DEF FindById, WritesNothing, SameFace, DispatchPcs
<1>2. CASE ClaimMessage(w)
  <2>1. CASE MayMarkProcessing(row[m])
    <3>1. SetRow(m, MarkProcessing(row[m])) /\ worker'[w].pc \in {"incrementAttempts", "threw"}
      BY <1>2, <1>g, <2>1 DEF ClaimMessage
    <3>2. /\ MarkProcessing(row[m]).deliveredAt = row[m].deliveredAt
          /\ MarkProcessing(row[m]).status = "PROCESSING"
          /\ MarkProcessing(row[m]).providerMessageId = row[m].providerMessageId
      BY <1>m DEF MarkProcessing, SmsMessage
    <3>3. /\ \A n \in Messages : n # m => row'[n] = row[n]
          /\ row'[m].deliveredAt = row[m].deliveredAt /\ row'[m] = MarkProcessing(row[m])
      BY <1>s, <3>1, <3>2
    <3>4. WritesClaim(w, m)
      BY <1>2, <2>1, <3>1, <3>2, <3>3
         DEF ClaimMessage, WritesClaim, Waits, MayMarkProcessing, ClaimableStatuses
    <3>5. QED
      BY <1>m, <3>3, <3>4
  <2>2. CASE ~MayMarkProcessing(row[m])
    <3>1. row' = row /\ worker'[w].pc \in {"returned", "threw"}
      BY <1>2, <1>g, <2>2 DEF ClaimMessage
    <3>2. QED
      BY <1>2, <1>m, <3>1 DEF ClaimMessage, WritesNothing, SameFace, DispatchPcs
  <2>3. QED
    BY <2>1, <2>2
<1>3. CASE CountAttempt(w)
  <2>1. SetRow(m, IncrementAttempts(row[m])) /\ worker'[w].pc \in {"throttle", "threw"}
    BY <1>3, <1>g DEF CountAttempt
  <2>2. /\ IncrementAttempts(row[m]).deliveredAt = row[m].deliveredAt
        /\ IncrementAttempts(row[m]).status = row[m].status
        /\ IncrementAttempts(row[m]).providerMessageId = row[m].providerMessageId
    BY <1>m DEF IncrementAttempts, SmsMessage
  <2>3. /\ \A n \in Messages : n # m => row'[n] = row[n]
        /\ row'[m].deliveredAt = row[m].deliveredAt /\ row'[m] = IncrementAttempts(row[m])
    BY <1>s, <2>1, <2>2
  <2>4. WritesNothing(w, m)
    BY <1>3, <2>1, <2>2, <2>3 DEF CountAttempt, WritesNothing, SameFace, DispatchPcs
  <2>5. QED
    BY <1>m, <2>3, <2>4
<1>4. CASE Throttle(w)
  <2>1. worker'[w].pc \in {"sendSms", "threw"} /\ row' = row
    BY <1>4, <1>g DEF Throttle
  <2>2. worker[w].pc = "throttle" /\ "throttle" \in DispatchPcs
    BY <1>4 DEF Throttle, DispatchPcs
  <2>3. QED
    BY <1>m, <2>1, <2>2 DEF WritesNothing, SameFace
<1>5. CASE SendSms(w)
  <2>1. worker[w].pc = "sendSms" /\ row' = row
    BY <1>5 DEF SendSms
  <2>2. QED
    BY <1>m, <2>1 DEF WritesNothing, SameFace, DispatchPcs
<1>6. CASE RecordSent(w)
  <2> DEFINE r == MarkSent(row[m], ProviderOfWorker(w), worker[w].pid)
  <2>1. /\ SetRow(m, r) /\ worker'[w].pc \in {"returned", "threw"}
        /\ worker[w].pc = "markSent"
    BY <1>6, <1>g DEF RecordSent
  <2>2. /\ r.deliveredAt = row[m].deliveredAt /\ r.status = "SENT"
        /\ r.providerMessageId = worker[w].pid
    BY <1>m DEF MarkSent, SmsMessage
  <2> HIDE DEF r
  <2>3. /\ \A n \in Messages : n # m => row'[n] = row[n]
        /\ row'[m].deliveredAt = row[m].deliveredAt /\ row'[m] = r
    BY <1>s, <2>1, <2>2
  <2>4. QED
    BY <1>m, <2>1, <2>2, <2>3 DEF WritesSent
<1>7. CASE RecordFatalFailure(w)
  <2> DEFINE r == MarkFatalFailure(row[m], ProviderOfWorker(w))
  <2>1. /\ SetRow(m, r) /\ worker'[w].pc \in {"enqueueDeadLetter", "threw"}
        /\ worker[w].pc = "markFatalFailure"
    BY <1>7, <1>g DEF RecordFatalFailure
  <2>2. /\ r.deliveredAt = row[m].deliveredAt /\ r.status = "FATAL_FAILURE"
        /\ r.providerMessageId = Null
    BY <1>m DEF MarkFatalFailure, SmsMessage
  <2> HIDE DEF r
  <2>3. /\ \A n \in Messages : n # m => row'[n] = row[n]
        /\ row'[m].deliveredAt = row[m].deliveredAt /\ row'[m] = r
    BY <1>s, <2>1, <2>2
  <2>4. QED
    BY <1>m, <2>1, <2>2, <2>3 DEF WritesFatal
<1>8. CASE EnqueueDeadLetter(w)
  <2>1. /\ worker[w].pc = "enqueueDeadLetter" /\ row' = row
        /\ worker'[w].pc \in {"returned", "threw"}
    BY <1>8, <1>g DEF EnqueueDeadLetter
  <2>2. QED
    BY <1>m, <2>1 DEF WritesNothing, SameFace, DispatchPcs
<1>9. CASE CallThrows(w)
  <2>1. row' = row /\ worker'[w].pc = "threw"
    BY <1>9, <1>g DEF CallThrows
  <2>2. QED
    BY <1>m, <2>1 DEF FailsToWrite
<1>10. QED
  BY <1>1, <1>2, <1>3, <1>4, <1>5, <1>6, <1>7, <1>8, <1>9 DEF DispatchStep

(* A requeue request writes the row of its message, in one of two ways. *)
Reopens(a) ==
    /\ RequeueTransition(a) /\ row[admin[a].message].status = "FATAL_FAILURE"
    /\ row'[admin[a].message].status = "QUEUED"
    /\ row'[admin[a].message].providerMessageId = Null
    /\ row'[admin[a].message].deliveredAt = row[admin[a].message].deliveredAt

LEMMA RequeueWrites ==
    ASSUME TypeOK, NEW a \in Admins, RequeueFind(a) \/ RequeueStep(a) \/ RequeueCrash(a)
    PROVE  /\ \A n \in Messages : row'[n] # row[n] => n = admin[a].message
           /\ UNCHANGED row \/ Reopens(a) \/ admin[a].pc = "restore"
           /\ \A b \in Admins : b # a => admin'[b] = admin[b]
           /\ UNCHANGED <<worker, accepted, keyed>>
<1>t. /\ admin \in [Admins -> Admin] /\ row \in [Messages -> SmsMessage]
  BY DEF TypeOK
<1>1. /\ \A b \in Admins : b # a => admin'[b] = admin[b]
      /\ UNCHANGED <<worker, accepted, keyed>>
  BY <1>t DEF RequeueFind, RequeueStep, RequeueTransition, PublishRequeue, RequeueRestore,
     RequeueThrows, RequeueCrash, outside
<1>2. \A n \in Messages : row'[n] # row[n] => n = admin[a].message
  BY <1>t DEF RequeueFind, RequeueStep, RequeueTransition, PublishRequeue, RequeueRestore,
     RequeueThrows, RequeueCrash, SetRow
<1>3. CASE RequeueTransition(a) /\ row' # row
  <2> DEFINE m == admin[a].message
             r == TransitionFatalFailureToQueued(row[m])
  <2>1. m \in Messages /\ row[m] \in SmsMessage
    BY <1>t, <1>3 DEF RequeueTransition, TypeOK
  <2>2. SetRow(m, r) /\ row[m].status = "FATAL_FAILURE"
    BY <1>3 DEF RequeueTransition, MayTransitionToQueued
  <2>3. row'[m] = r
    BY <1>t, <2>1, <2>2 DEF SetRow
  <2>4. /\ r.status = "QUEUED" /\ r.providerMessageId = Null
        /\ r.deliveredAt = row[m].deliveredAt
    BY <2>1 DEF TransitionFatalFailureToQueued, SmsMessage
  <2>5. QED
    BY <1>1, <1>2, <1>3, <2>2, <2>3, <2>4 DEF Reopens
<1>4. CASE RequeueRestore(a)
  BY <1>1, <1>2, <1>4 DEF RequeueRestore
<1>5. CASE UNCHANGED row
  BY <1>1, <1>2, <1>5
<1>6. QED
  BY <1>3, <1>4, <1>5 DEF RequeueFind, RequeueStep, PublishRequeue, RequeueThrows, RequeueCrash

-----------------------------------------------------------------------------
(***************************************************************************)
(* Where jobs come from. Until the creator of a message has published its  *)
(* job nobody else has heard of the message, and its row is as it was      *)
(* inserted or refused.                                                    *)
(***************************************************************************)
Started(j) == job[j].state # "absent"
Refused(m) == creator[m] = "refused"
Unstarted(m) ==
    ~Started(<<m, 0>>) =>
        /\ \A j \in JobIds : MessageOf(j) = m => ~Started(j)
        /\ \A a \in Admins : admin[a].pc # "idle" => admin[a].message # m
        /\ \A h \in Handlers : handler[h] # IdleHandler => handler[h].message # m
        /\ row[m].status = IF Refused(m) THEN "FAILED" ELSE "QUEUED"
        /\ row[m].providerMessageId = Null /\ row[m].deliveredAt = "unset"
CreatorKnows(m) ==
    /\ creator[m] = "enqueue" => ~Started(<<m, 0>>)
    /\ creator[m] \notin {"enqueue", "accepted"} => faults.errors # 0 \/ faults.crashes # 0
Origins ==
    /\ \A w \in Workers : worker[w].pc # "idle" => Started(worker[w].job)
    /\ \A m \in Messages : Unstarted(m) /\ CreatorKnows(m)

(* Without faults every active job has a worker, and no run throws. *)
MannedThen == Untroubled => Manned

(* A started job stays, and but for a creator only a requeue starts one. *)
LEMMA JobsMove ==
    ASSUME TypeOK, OwnersActive, Activity, NEW j \in JobIds
    PROVE  /\ Started(j) => Started(j)'
           /\ ~Started(j) /\ Started(j)' =>
                \E a \in Admins : PublishRequeue(a) /\ MessageOf(j) = admin[a].message
<1>t. job \in [JobIds -> Job] /\ Null \notin Workers
  BY WorkersAssumption DEF TypeOK
<1>1. ASSUME NEW w \in Workers, WorkerStep(w) \/ Crash(w)
      PROVE  Started(j) <=> Started(j)'
  <2>1. CASE DispatchStep(w) \/ CallThrows(w) \/ Crash(w)
    BY <2>1, DispatchKeepsJobs DEF Crash, Started
  <2>2. CASE Process(w)
    BY <1>t, <2>2 DEF Process, Job, Started
  <2>3. CASE JobCompletes(w)
    <3>1. worker[w].job \in JobIds
      BY <2>3 DEF JobCompletes, TypeOK
    <3>2. job[worker[w].job].owner = w => job[worker[w].job].state = "active"
      BY <1>t, <3>1 DEF OwnersActive
    <3>3. QED
      BY <1>t, <2>3, <3>1, <3>2 DEF JobCompletes, Owns, Job, Started
  <2>4. CASE JobFails(w)
    <3>1. worker[w].job \in JobIds
      BY <2>4 DEF JobFails, TypeOK
    <3>2. job[worker[w].job].owner = w => job[worker[w].job].state = "active"
      BY <1>t, <3>1 DEF OwnersActive
    <3>3. QED
      BY <1>t, <2>4, <3>1, <3>2 DEF JobFails, Owns, Job, Started
  <2>5. QED
    BY <1>1, <2>1, <2>2, <2>3, <2>4 DEF WorkerStep
<1>2. ASSUME NEW i \in JobIds, RecoverStalledJob(i) \/ FalseStall(i)
      PROVE  Started(j) <=> Started(j)'
  BY <1>t, <1>2 DEF RecoverStalledJob, FalseStall, Stall, Job, Started
<1>3. ASSUME NEW a \in Admins, RequeueFind(a) \/ RequeueStep(a) \/ RequeueCrash(a)
      PROVE  \/ Started(j) <=> Started(j)'
             \/ /\ ~Started(j) /\ Started(j)'
                /\ PublishRequeue(a) /\ MessageOf(j) = admin[a].message
  <2>1. CASE PublishRequeue(a)
    <3>1. PICK g \in 1 .. MaxRequeues :
            /\ job[<<admin[a].message, g>>].state = "absent"
            /\ job' = [job EXCEPT ![<<admin[a].message, g>>] = PublishedJob]
      BY <2>1 DEF PublishRequeue
    <3>2. CASE j = <<admin[a].message, g>>
      <4>1. job'[j] = PublishedJob /\ PublishedJob.state = "waiting"
        BY <1>t, <3>1, <3>2 DEF PublishedJob, AbsentJob
      <4>2. MessageOf(j) = admin[a].message
        BY <3>2 DEF MessageOf
      <4>3. QED
        BY <2>1, <3>1, <3>2, <4>1, <4>2 DEF Started
    <3>3. CASE j # <<admin[a].message, g>>
      BY <1>t, <3>1, <3>3 DEF Started
    <3>4. QED
      BY <3>2, <3>3
  <2>2. CASE UNCHANGED job
    BY <2>2 DEF Started
  <2>3. QED
    BY <1>3, <2>1, <2>2 DEF RequeueFind, RequeueStep, RequeueTransition, RequeueRestore,
       RequeueThrows, RequeueCrash
<1>4. QED
  BY <1>1, <1>2, <1>3 DEF Activity

(* The faults only ever grow in number. *)
LEMMA SystemFaultsGrow ==
    ASSUME SystemTypeOK, SystemTypeOK', [SystemNext]_systemVars
    PROVE  /\ faults.errors <= faults'.errors /\ faults.crashes <= faults'.crashes
           /\ faults.falseStalls <= faults'.falseStalls /\ faults.requeues <= faults'.requeues
           /\ {faults.errors, faults.crashes, faults.falseStalls, faults.requeues} \subseteq Nat
           /\ {faults'.errors, faults'.crashes, faults'.falseStalls, faults'.requeues}
                \subseteq Nat
<1>t. /\ TypeOK /\ TypeOK'
      /\ faults \in [errors: Nat, crashes: Nat, falseStalls: Nat, requeues: Nat]
      /\ faults' \in [errors: Nat, crashes: Nat, falseStalls: Nat, requeues: Nat]
  BY DEF SystemTypeOK, TypeOK
<1>1. CASE DispatchActivity
  BY <1>t, <1>1, FaultsGrow DEF DispatchActivity, Next
<1>2. CASE UNCHANGED faults
  BY <1>t, <1>2
<1>3. ASSUME NEW c \in Messages, CreatorStep(c) \/ AbandonPublication(c)
      PROVE  \/ UNCHANGED faults
             \/ faults' = [faults EXCEPT !.errors = @ + 1]
             \/ faults' = [faults EXCEPT !.crashes = @ + 1]
  BY <1>3 DEF CreatorStep, Publish, PublishFails, RefusePublication, AbandonPublication,
     ErrorHappens
<1>4. ASSUME NEW c \in Messages, CreatorStep(c) \/ AbandonPublication(c)
      PROVE  /\ faults.errors <= faults'.errors /\ faults.crashes <= faults'.crashes
             /\ faults.falseStalls <= faults'.falseStalls
             /\ faults.requeues <= faults'.requeues
  BY <1>t, <1>3, <1>4
<1>5. ASSUME NEW h \in Handlers, FindReported(h) \/ HandlerStep(h)
      PROVE  UNCHANGED faults
  BY <1>5, HandlerChanges
<1>6. CASE SystemRest \/ UNCHANGED systemVars
  BY <1>2, <1>6 DEF SystemRest, systemVars, vars
<1>7. QED
  BY <1>t, <1>1, <1>2, <1>4, <1>5, <1>6 DEF SystemNext

(* No fault ever comes with a creator's fault, nor with a fault at all. *)
LEMMA UntroubledMeans ==
    ASSUME SystemTypeOK
    PROVE  /\ Untroubled <=> faults.errors = 0 /\ faults.crashes = 0 /\ faults.falseStalls = 0
           /\ Untroubled => Apart
<1>1. faults.errors \in Nat /\ faults.crashes \in Nat /\ faults.falseStalls \in Nat
  BY DEF SystemTypeOK, TypeOK
<1>2. Untroubled <=> faults.errors = 0 /\ faults.crashes = 0 /\ faults.falseStalls = 0
  <2>1. Untroubled <=> faults.errors + faults.crashes + faults.falseStalls = 0
    BY DEF Untroubled
  <2>2. QED
    BY ONLY <1>1, <2>1
<1>3. QED
  BY <1>2 DEF Apart

LEMMA UntroubledMeansNext ==
    ASSUME SystemTypeOK'
    PROVE  Untroubled' <=> faults'.errors = 0 /\ faults'.crashes = 0 /\ faults'.falseStalls = 0
<1>1. faults'.errors \in Nat /\ faults'.crashes \in Nat /\ faults'.falseStalls \in Nat
  BY DEF SystemTypeOK, TypeOK
<1>2. Untroubled' <=> faults'.errors + faults'.crashes + faults'.falseStalls = 0
  BY DEF Untroubled
<1>3. QED
  BY ONLY <1>1, <1>2

LEMMA CalmBefore ==
    ASSUME SystemTypeOK, SystemTypeOK', [SystemNext]_systemVars
    PROVE  /\ Untroubled' => Untroubled
           /\ Apart' => Apart
<1>1. Apart' => Apart
  BY SystemFaultsGrow DEF Apart
<1>2. Untroubled' => Untroubled
  <2>1. /\ faults.errors <= faults'.errors /\ faults.crashes <= faults'.crashes
        /\ faults.falseStalls <= faults'.falseStalls
        /\ {faults.errors, faults.crashes, faults.falseStalls} \subseteq Nat
    BY SystemFaultsGrow
  <2>2. Untroubled' => faults.errors = 0 /\ faults.crashes = 0 /\ faults.falseStalls = 0
    BY <2>1, UntroubledMeansNext
  <2>3. QED
    BY <2>2, UntroubledMeans
<1>3. QED
  BY <1>1, <1>2

(* Without faults no creator fails. *)
LEMMA CreatorsSucceed ==
    ASSUME SystemTypeOK, SystemTypeOK', Origins, NEW c \in Messages,
           CreatorStep(c) \/ AbandonPublication(c), Untroubled, Untroubled'
    PROVE  Publish(c) /\ creator'[c] = "accepted" /\ UNCHANGED <<row, faults>>
<1>1. /\ faults.errors = 0 /\ faults.crashes = 0 /\ faults'.errors = 0 /\ faults'.crashes = 0
  BY UntroubledMeans, UntroubledMeansNext
<1>2. faults \in [errors: Nat, crashes: Nat, falseStalls: Nat, requeues: Nat]
  BY DEF SystemTypeOK, TypeOK
<1>3. ~ErrorHappens
  BY <1>1, <1>2 DEF ErrorHappens
<1>4. creator[c] # "markFailed"
  BY <1>1 DEF Origins, CreatorKnows
<1>5. ~AbandonPublication(c)
  BY <1>1, <1>2, <1>3 DEF AbandonPublication
<1>6. creator' = [creator EXCEPT ![c] = "accepted"] /\ UNCHANGED <<row, faults>> /\ Publish(c)
  BY <1>3, <1>4, <1>5 DEF CreatorStep, PublishFails, RefusePublication, Publish, GotoCreator
<1>7. QED
  BY <1>6 DEF SystemTypeOK

LEMMA OriginsByDispatch ==
    ASSUME SystemTypeOK, SystemTypeOK', OwnersActive, Origins, DispatchActivity
    PROVE  Origins'
<1>a. TypeOK /\ Activity /\ [Next]_vars
  BY DEF SystemTypeOK, DispatchActivity, Next
<1>t. /\ job \in [JobIds -> Job] /\ worker \in [Workers -> Worker]
      /\ admin \in [Admins -> Admin]
      /\ \A w \in Workers : worker[w].pc # "idle" => worker[w].job \in JobIds
  BY <1>a DEF TypeOK
<1>c. creator' = creator /\ handler' = handler
  BY DEF DispatchActivity
<1>j. \A j \in JobIds : Started(j) => Started(j)'
  BY <1>a, JobsMove
<1>1. ASSUME NEW w \in Workers, worker'[w].pc # "idle"
      PROVE  job'[worker'[w].job].state # "absent"
  <2>1. CASE worker'[w] = worker[w]
    BY <1>1, <1>t, <1>j, <2>1 DEF Origins, Started
  <2>2. CASE \E v \in Workers : DispatchStep(v) \/ CallThrows(v)
    <3>1. worker'[w].job = worker[w].job /\ worker[w].pc # "idle"
      BY <1>a, <1>1, <2>2, DispatchMoves
    <3>2. QED
      BY <1>t, <1>j, <3>1 DEF Origins, Started
  <2>3. CASE \E v \in Workers : Process(v)
    <3>1. PICK v \in Workers, i \in JobIds :
            /\ job' = [job EXCEPT ![i].state = "active", ![i].owner = v]
            /\ worker' = [worker EXCEPT ![v] = [IdleWorker EXCEPT !.pc = "findById", !.job = i]]
      BY <2>3 DEF Process
    <3>2. job'[i].state = "active"
      BY <1>t, <3>1 DEF Job
    <3>3. w = v => worker'[w].job = i
      BY <1>t, <3>1 DEF IdleWorker
    <3>4. w # v => worker'[w] = worker[w]
      BY <1>t, <3>1
    <3>5. QED
      BY <2>1, <3>2, <3>3, <3>4
  <2>4. CASE \E v \in Workers : JobCompletes(v) \/ JobFails(v) \/ Crash(v)
    <3>1. PICK v \in Workers : worker' = [worker EXCEPT ![v] = IdleWorker]
      BY <2>4 DEF JobCompletes, JobFails, Crash
    <3>2. worker'[v].pc = "idle"
      BY <1>t, <3>1 DEF IdleWorker
    <3>3. QED
      BY <1>t, <1>1, <2>1, <3>1, <3>2
  <2>5. QED
    BY <1>a, <2>1, <2>2, <2>3, <2>4, RequeueWrites
       DEF Activity, WorkerStep, RecoverStalledJob, FalseStall
<1>2. ASSUME NEW m \in Messages
      PROVE  Unstarted(m)'
  <2> SUFFICES ASSUME ~Started(<<m, 0>>)'
               PROVE  /\ \A j \in JobIds : MessageOf(j) = m => ~Started(j)'
                      /\ \A a \in Admins : admin'[a].pc # "idle" => admin'[a].message # m
                      /\ \A h \in Handlers :
                            handler'[h] # IdleHandler => handler'[h].message # m
                      /\ row'[m].status = IF Refused(m)' THEN "FAILED" ELSE "QUEUED"
                      /\ row'[m].providerMessageId = Null /\ row'[m].deliveredAt = "unset"
    BY DEF Unstarted
  <2>1. ~Started(<<m, 0>>)
    BY <1>j, FirstJob
  <2>2. /\ \A j \in JobIds : MessageOf(j) = m => ~Started(j)
        /\ \A a \in Admins : admin[a].pc # "idle" => admin[a].message # m
        /\ \A h \in Handlers : handler[h] # IdleHandler => handler[h].message # m
        /\ row[m].status = IF Refused(m) THEN "FAILED" ELSE "QUEUED"
        /\ row[m].providerMessageId = Null /\ row[m].deliveredAt = "unset"
    BY <2>1 DEF Origins, Unstarted
  <2>3. \A j \in JobIds : MessageOf(j) = m => ~Started(j)'
    BY <1>a, <2>2, JobsMove DEF PublishRequeue
  <2>4. row'[m] = row[m]
    <3>1. ASSUME NEW w \in Workers, DispatchStep(w) \/ CallThrows(w)
          PROVE  row'[m] = row[m]
      <4>1. MessageOfWorker(w) # m
        BY <1>a, <1>t, <2>2, <3>1, DispatchMoves DEF Origins, MessageOfWorker
      <4>2. QED
        BY <1>a, <3>1, <4>1, DispatchWrites
    <3>2. ASSUME NEW a \in Admins, RequeueFind(a) \/ RequeueStep(a) \/ RequeueCrash(a)
          PROVE  row'[m] = row[m]
      <4>1. CASE admin[a].message = m
        <5>1. admin[a].pc = "idle"
          BY <2>2, <4>1
        <5>2. QED
          BY <1>a, <3>2, <5>1, RequeueWrites DEF Reopens, RequeueTransition
      <4>2. CASE admin[a].message # m
        BY <1>a, <3>2, <4>2, RequeueWrites
      <4>3. QED
        BY <4>1, <4>2
    <3>3. QED
      BY <1>a, <3>1, <3>2 DEF Activity, WorkerStep, Process, JobCompletes, JobFails, Crash,
         RecoverStalledJob, FalseStall
  <2>5. ASSUME NEW a \in Admins, admin'[a].pc # "idle"
        PROVE  admin'[a].message # m
    <3>1. CASE admin'[a] = admin[a]
      BY <2>2, <2>5, <3>1
    <3>2. CASE admin'[a] # admin[a]
      <4>1. RequeueFind(a) \/ RequeueStep(a) \/ RequeueCrash(a)
        <5>1. \A w \in Workers : WorkerStep(w) \/ Crash(w) => UNCHANGED admin
          BY DispatchKeepsJobs DEF WorkerStep, Process, JobCompletes, JobFails, Crash
        <5>2. QED
          BY <1>a, <3>2, <5>1, RequeueWrites DEF Activity, RecoverStalledJob, FalseStall
      <4>2. CASE RequeueFind(a)
        <5>1. PICK n \in Messages :
                /\ row[n].status = "FATAL_FAILURE"
                /\ admin'[a] = [pc |-> "transition", message |-> n,
                                provider |-> row[n].selectedProvider]
          BY <1>t, <4>2 DEF RequeueFind
        <5>2. n # m
          BY <2>2, <5>1
        <5>3. QED
          BY <5>1, <5>2
      <4>3. CASE RequeueStep(a) \/ RequeueCrash(a)
        <5>1. admin[a].pc # "idle" /\ admin'[a] \in {[admin[a] EXCEPT !.pc = "requeueSms"],
                    [admin[a] EXCEPT !.pc = "restore"], IdleAdmin}
          BY <1>t, <4>3 DEF RequeueStep, RequeueTransition, PublishRequeue, RequeueRestore,
             RequeueThrows, RequeueCrash
        <5>2. admin'[a].message = admin[a].message
          BY <1>t, <2>5, <5>1 DEF Admin, IdleAdmin
        <5>3. QED
          BY <2>2, <5>1, <5>2
      <4>4. QED
        BY <4>1, <4>2, <4>3
    <3>3. QED
      BY <3>1, <3>2
  <2>6. QED
    BY <1>c, <2>2, <2>3, <2>4, <2>5 DEF Refused
<1>3. ASSUME NEW m \in Messages
      PROVE  CreatorKnows(m)'
  <2>1. faults'.errors = 0 => faults.errors = 0
    BY <1>a, FaultsGrow DEF SystemTypeOK
  <2>2. faults'.crashes = 0 => faults.crashes = 0
    BY <1>a, FaultsGrow DEF SystemTypeOK
  <2>3. creator[m] = "enqueue" => ~Started(<<m, 0>>)'
    <3>1. ASSUME creator[m] = "enqueue", Started(<<m, 0>>)' PROVE FALSE
      <4>1. ~Started(<<m, 0>>)
        BY <3>1 DEF Origins, CreatorKnows
      <4>2. PICK a \in Admins : PublishRequeue(a) /\ m = admin[a].message
        BY <1>a, <3>1, <4>1, JobsMove, FirstJob
      <4>3. QED
        BY <4>1, <4>2 DEF Origins, Unstarted, PublishRequeue
    <3>2. QED
      BY <3>1
  <2>4. QED
    BY <1>c, <2>1, <2>2, <2>3 DEF Origins, CreatorKnows
<1>4. QED
  BY <1>1, <1>2, <1>3 DEF Origins, Started

LEMMA CreatorJobs ==
    ASSUME SystemTypeOK, NEW c \in Messages, CreatorStep(c) \/ AbandonPublication(c)
    PROVE  \/ UNCHANGED job /\ ~Publish(c)
           \/ /\ Publish(c) /\ UNCHANGED row /\ creator[c] = "enqueue"
              /\ job' = [job EXCEPT ![<<c, 0>>] = PublishedJob]
              /\ job'[<<c, 0>>] = PublishedJob
              /\ creator'[c] \in {"accepted", "markFailed"}
<1>1. job \in [JobIds -> Job] /\ <<c, 0>> \in JobIds /\ creator \in [Messages -> CreatorPcs]
  BY FirstJob DEF SystemTypeOK, TypeOK
<1>2. CASE Publish(c)
  BY <1>1, <1>2 DEF Publish, GotoCreator
<1>3. CASE ~Publish(c)
  BY <1>3 DEF CreatorStep, PublishFails, RefusePublication, AbandonPublication
<1>4. QED
  BY <1>2, <1>3

LEMMA OriginsByCreator ==
    ASSUME SystemTypeOK, SystemTypeOK', Origins, [SystemNext]_systemVars, NEW c \in Messages,
           CreatorStep(c) \/ AbandonPublication(c)
    PROVE  Origins'
<1>t. /\ job \in [JobIds -> Job] /\ row \in [Messages -> SmsMessage]
      /\ creator \in [Messages -> CreatorPcs]
      /\ \A w \in Workers : worker[w].pc # "idle" => worker[w].job \in JobIds
  BY DEF SystemTypeOK, TypeOK
<1>u. /\ UNCHANGED <<worker, admin, handler>>
      /\ \A n \in Messages : n # c => creator'[n] = creator[n] /\ row'[n] = row[n]
      /\ \A j \in JobIds : j # <<c, 0>> => job'[j] = job[j]
  BY CreatorChanges
<1>j. /\ UNCHANGED job \/ (job'[<<c, 0>>].state = "waiting" /\ UNCHANGED row)
      /\ \A j \in JobIds : Started(j) => Started(j)'
  BY <1>u, CreatorJobs DEF PublishedJob, AbsentJob, Started
<1>1. \A w \in Workers : worker'[w].pc # "idle" => Started(worker[w].job)'
  BY <1>t, <1>u, <1>j DEF Origins
<1>2. ASSUME NEW m \in Messages
      PROVE  Unstarted(m)'
  <2> SUFFICES ASSUME ~Started(<<m, 0>>)'
               PROVE  /\ \A j \in JobIds : MessageOf(j) = m => ~Started(j)'
                      /\ \A a \in Admins : admin'[a].pc # "idle" => admin'[a].message # m
                      /\ \A h \in Handlers :
                            handler'[h] # IdleHandler => handler'[h].message # m
                      /\ row'[m].status = IF Refused(m)' THEN "FAILED" ELSE "QUEUED"
                      /\ row'[m].providerMessageId = Null /\ row'[m].deliveredAt = "unset"
    BY DEF Unstarted
  <2>1. ~Started(<<m, 0>>)
    BY <1>j, FirstJob
  <2>2. /\ \A j \in JobIds : MessageOf(j) = m => ~Started(j)
        /\ \A a \in Admins : admin[a].pc # "idle" => admin[a].message # m
        /\ \A h \in Handlers : handler[h] # IdleHandler => handler[h].message # m
        /\ row[m].status = IF Refused(m) THEN "FAILED" ELSE "QUEUED"
        /\ row[m].providerMessageId = Null /\ row[m].deliveredAt = "unset"
    BY <2>1 DEF Origins, Unstarted
  <2>3. \A j \in JobIds : MessageOf(j) = m => ~Started(j)'
    <3>1. \A j \in JobIds : MessageOf(j) = m /\ j # <<c, 0>> => ~Started(j)'
      BY <1>u, <2>2 DEF Started
    <3>2. <<c, 0>> \in JobIds /\ MessageOf(<<c, 0>>) = c
      BY FirstJob
    <3>3. QED
      BY <3>1, <3>2
  <2>4. /\ row'[m].status = IF Refused(m)' THEN "FAILED" ELSE "QUEUED"
        /\ row'[m].providerMessageId = Null /\ row'[m].deliveredAt = "unset"
    <3>1. CASE m # c
      BY <1>u, <2>2, <3>1 DEF Refused
    <3>2. CASE m = c /\ RefusePublication(c)
      <4>1. row'[c] = MarkQueuePublishFailed(row[c]) /\ row[c] \in SmsMessage
        BY <1>t, <3>2 DEF RefusePublication, SetRow
      <4>2. /\ MarkQueuePublishFailed(row[c]).status = "FAILED"
            /\ MarkQueuePublishFailed(row[c]).providerMessageId = row[c].providerMessageId
            /\ MarkQueuePublishFailed(row[c]).deliveredAt = row[c].deliveredAt
        BY <4>1 DEF MarkQueuePublishFailed, SmsMessage
      <4>3. creator'[c] = "refused"
        BY <1>t, <3>2 DEF RefusePublication, GotoCreator
      <4>4. QED
        BY <2>2, <3>2, <4>1, <4>2, <4>3 DEF Refused
    <3>3. CASE m = c /\ ~RefusePublication(c)
      <4>1. row' = row /\ creator[c] # "refused" /\ creator'[c] # "refused"
        BY <1>t, <3>3 DEF CreatorStep, Publish, PublishFails, AbandonPublication, GotoCreator
      <4>2. QED
        BY <2>2, <3>3, <4>1 DEF Refused
    <3>4. QED
      BY <3>1, <3>2, <3>3
  <2>5. QED
    BY <1>u, <2>2, <2>3, <2>4
<1>3. ASSUME NEW m \in Messages
      PROVE  CreatorKnows(m)'
  <2>f. /\ faults'.errors = 0 => faults.errors = 0
        /\ faults'.crashes = 0 => faults.crashes = 0
    BY SystemFaultsGrow
  <2>1. CASE m # c
    <3>1. creator'[m] = creator[m] /\ (Started(<<m, 0>>) <=> Started(<<m, 0>>)')
      BY <1>u, <2>1, FirstJob DEF Started
    <3>2. QED
      BY <2>f, <3>1 DEF Origins, CreatorKnows
  <2>2. CASE m = c
    <3>1. creator'[c] # "enqueue"
      BY <1>t DEF CreatorStep, Publish, PublishFails, RefusePublication, AbandonPublication,
         GotoCreator
    <3>2. ASSUME creator'[c] # "accepted"
          PROVE  faults'.errors # 0 \/ faults'.crashes # 0
      <4>1. CASE RefusePublication(c)
        BY <4>1 DEF RefusePublication, Origins, CreatorKnows
      <4>2. CASE ~RefusePublication(c)
        <5>1. ErrorHappens \/ faults' = [faults EXCEPT !.crashes = @ + 1]
          BY <1>t, <3>2, <4>2
             DEF CreatorStep, Publish, PublishFails, AbandonPublication, GotoCreator
        <5>2. faults \in [errors: Nat, crashes: Nat, falseStalls: Nat, requeues: Nat]
          BY DEF SystemTypeOK, TypeOK
        <5>3. QED
          BY <5>1, <5>2 DEF ErrorHappens
      <4>3. QED
        BY <4>1, <4>2
    <3>3. QED
      BY <2>2, <3>1, <3>2 DEF CreatorKnows
  <2>3. QED
    BY <2>1, <2>2
<1>4. QED
  BY <1>1, <1>2, <1>3, <1>u DEF Origins, Started

LEMMA OriginsByHandler ==
    ASSUME SystemTypeOK, SystemTypeOK', Origins, NEW h \in Handlers,
           FindReported(h) \/ HandlerStep(h)
    PROVE  Origins'
<1>u. /\ UNCHANGED <<job, worker, admin, faults, creator>>
      /\ \A g \in Handlers : g # h => handler'[g] = handler[g]
      /\ \A n \in Messages :
            row'[n] # row[n] => handler[h] # IdleHandler /\ n = handler[h].message
  BY HandlerChanges
<1>1. ASSUME NEW m \in Messages, ~Started(<<m, 0>>)
      PROVE  /\ \A g \in Handlers : handler'[g] # IdleHandler => handler'[g].message # m
             /\ row'[m] = row[m]
  <2>1. /\ \A g \in Handlers : handler[g] # IdleHandler => handler[g].message # m
        /\ row[m].providerMessageId = Null
    BY <1>1 DEF Origins, Unstarted
  <2>2. handler'[h] # IdleHandler => handler'[h].message # m
    <3>1. handler \in [Handlers -> Handler]
      BY DEF SystemTypeOK
    <3>2. ASSUME FindReported(h)
          PROVE  handler'[h].message # m
      <4>1. PICK n \in Messages, s \in Reports :
              /\ row[n].providerMessageId # Null
              /\ handler' = [handler EXCEPT ![h] = [message |-> n, status |-> s]]
        BY <3>2 DEF FindReported
      <4>2. n # m /\ handler'[h] = [message |-> n, status |-> s]
        BY <2>1, <3>1, <4>1
      <4>3. QED
        BY <4>2
    <3>3. HandlerStep(h) => handler'[h] = IdleHandler
      BY <3>1 DEF HandlerStep, ApplyReport, HandlerFails
    <3>4. QED
      BY <3>2, <3>3
  <2>3. QED
    BY <1>u, <2>1, <2>2
<1>2. \A m \in Messages : Unstarted(m)' /\ CreatorKnows(m)'
  <2>1. ASSUME NEW m \in Messages
        PROVE  Unstarted(m)'
    <3>1. Unstarted(m)
      BY DEF Origins
    <3>2. CASE Started(<<m, 0>>)
      BY <1>u, <3>2 DEF Unstarted, Started
    <3>3. CASE ~Started(<<m, 0>>)
      BY <1>u, <1>1, <3>1, <3>3 DEF Unstarted, Started, Refused
    <3>4. QED
      BY <3>2, <3>3
  <2>2. QED
    BY <1>u, <2>1 DEF Origins, CreatorKnows, Started
<1>3. QED
  BY <1>u, <1>2 DEF Origins, Started

LEMMA OriginsStep ==
    ASSUME SystemTypeOK, SystemTypeOK', OwnersActive, Origins, [SystemNext]_systemVars
    PROVE  Origins'
<1>1. CASE SystemRest \/ UNCHANGED systemVars
  BY <1>1 DEF SystemRest, systemVars, vars, Origins, Unstarted, CreatorKnows, Started, Refused
<1>2. QED
  BY <1>1, OriginsByDispatch, OriginsByCreator, OriginsByHandler DEF SystemNext

LEMMA SystemFootingStep ==
    ASSUME SystemTypeOK, SystemTypeOK', OwnersActive, Origins, Footing, [SystemNext]_systemVars
    PROVE  Footing'
<1>1. CASE DispatchActivity
  BY <1>1, FootingStep DEF DispatchActivity, Next, SystemTypeOK
<1>2. ASSUME NEW c \in Messages, CreatorStep(c) \/ AbandonPublication(c)
      PROVE  Footing'
  <2>1. /\ UNCHANGED <<worker, admin>>
        /\ \A j \in JobIds : j # <<c, 0>> => job'[j] = job[j]
    BY <1>2, CreatorChanges
  <2>2. /\ faults'.falseStalls = 0 => faults.falseStalls = 0
        /\ faults'.requeues = 0 => faults.requeues = 0
        /\ faults'.errors = 0 => faults.errors = 0
    BY SystemFaultsGrow
  <2>3. ASSUME NEW w \in Workers, worker[w].pc # "idle"
        PROVE  job'[worker[w].job] = job[worker[w].job]
    <3>1. worker[w].job \in JobIds /\ Started(worker[w].job)
      BY <2>3 DEF SystemTypeOK, TypeOK, Origins
    <3>2. Publish(c) => worker[w].job # <<c, 0>>
      BY <3>1 DEF Publish, Origins, CreatorKnows
    <3>3. ~Publish(c) => UNCHANGED job
      BY <1>2, CreatorJobs
    <3>4. QED
      BY <2>1, <3>1, <3>2, <3>3
  <2>4. <<c, 0>>[2] = 0
    OBVIOUS
  <2>5. faults'.falseStalls = 0 => \A w \in Workers : worker'[w].pc # "idle" => Owns(w)'
    BY <2>1, <2>2, <2>3 DEF Footing, Owns
  <2>6. QED
    BY <2>1, <2>2, <2>4, <2>5 DEF Footing
<1>3. ASSUME NEW h \in Handlers, FindReported(h) \/ HandlerStep(h)
      PROVE  Footing'
  BY <1>3, HandlerChanges DEF Footing, Owns
<1>4. CASE SystemRest \/ UNCHANGED systemVars
  BY <1>4 DEF SystemRest, systemVars, vars, Footing, Owns
<1>5. QED
  BY <1>1, <1>2, <1>3, <1>4 DEF SystemNext

LEMMA NoMishap ==
    ASSUME SystemTypeOK, SystemTypeOK', Untroubled'
    PROVE  /\ ~ErrorHappens
           /\ \A w \in Workers : ~Crash(w) /\ ~CallThrows(w)
           /\ \A a \in Admins : ~RequeueCrash(a) /\ ~RequeueThrows(a)
           /\ \A j \in JobIds : ~FalseStall(j)
<1>1. TypeOK /\ TypeOK'
  BY DEF SystemTypeOK
<1>2. QED
  BY <1>1, NothingFails DEF CallThrows, RequeueThrows

(* Without faults a run does not throw. *)
LEMMA NobodyThrows ==
    ASSUME SystemTypeOK, SystemTypeOK', Untroubled', NEW w \in Workers,
           DispatchStep(w) \/ CallThrows(w)
    PROVE  DispatchStep(w) /\ worker'[w].pc # "threw"
<1>t. worker \in [Workers -> Worker] /\ ~ErrorHappens /\ ~CallThrows(w)
  BY NoMishap DEF SystemTypeOK, TypeOK
<1>1. CASE SendSms(w)
  <2>1. ASSUME NEW r \in BOOLEAN, AfterFailedSend(w, r)
        PROVE  worker'[w].pc # "threw"
    BY <1>t, <2>1 DEF AfterFailedSend, Worker
  <2>2. ASSUME NEW pid, worker' = [worker EXCEPT ![w].pc = "markSent", ![w].pid = pid]
        PROVE  worker'[w].pc # "threw"
    BY <1>t, <2>2 DEF Worker
  <2>3. QED
    BY <1>1, <1>t, <2>1, <2>2 DEF SendSms, DispatchStep
<1>2. ASSUME NEW pc \in {"markProcessing", "returned", "incrementAttempts", "throttle", "sendSms",
                         "enqueueDeadLetter"}, Goto(w, pc)
      PROVE  worker'[w].pc # "threw"
  BY <1>t, <1>2 DEF Goto, Worker
<1>3. CASE FindById(w)
  BY <1>t, <1>2, <1>3 DEF FindById, DispatchStep
<1>4. CASE ClaimMessage(w) \/ CountAttempt(w) \/ Throttle(w)
  BY <1>t, <1>2, <1>4 DEF ClaimMessage, CountAttempt, Throttle, Answered, DispatchStep
<1>5. CASE RecordSent(w) \/ RecordFatalFailure(w) \/ EnqueueDeadLetter(w)
  BY <1>t, <1>2, <1>5 DEF RecordSent, RecordFatalFailure, EnqueueDeadLetter, Answered, DispatchStep
<1>6. QED
  BY <1>t, <1>1, <1>3, <1>4, <1>5 DEF DispatchStep

LEMMA MannedStep ==
    ASSUME SystemTypeOK, SystemTypeOK', OwnersActive, Footing, MannedThen,
           [SystemNext]_systemVars
    PROVE  MannedThen'
<1> SUFFICES ASSUME Untroubled' PROVE Manned'
  BY DEF MannedThen
<1>m. Manned /\ faults.falseStalls = 0
  BY CalmBefore, UntroubledMeans DEF MannedThen
<1>t. /\ job \in [JobIds -> Job] /\ worker \in [Workers -> Worker] /\ TypeOK
      /\ \A w \in Workers : worker[w].pc # "idle" => worker[w].job \in JobIds
      /\ Null \notin Workers
  BY WorkersAssumption DEF SystemTypeOK, TypeOK
<1>1. ASSUME NEW w \in Workers, DispatchStep(w) \/ CallThrows(w)
      PROVE  Manned'
  <2>1. /\ worker[w].pc # "idle" /\ UNCHANGED job
        /\ \A v \in Workers : v # w => worker'[v] = worker[v]
        /\ worker'[w].job = worker[w].job /\ worker'[w].pc # "idle"
    BY <1>1, <1>t, DispatchMoves
  <2>2. worker'[w].pc # "threw"
    BY <1>1, NobodyThrows
  <2>3. QED
    BY <1>m, <2>1, <2>2 DEF Manned, Works
<1>2. ASSUME NEW w \in Workers, Process(w)
      PROVE  Manned'
  <2>1. PICK i \in JobIds :
          /\ job' = [job EXCEPT ![i].state = "active", ![i].owner = w]
          /\ worker' = [worker EXCEPT ![w] = [IdleWorker EXCEPT !.pc = "findById", !.job = i]]
          /\ worker[w].pc = "idle"
    BY <1>2 DEF Process
  <2>2. /\ worker'[w].pc = "findById" /\ worker'[w].job = i
        /\ \A v \in Workers : v # w => worker'[v] = worker[v]
    BY <1>t, <2>1 DEF IdleWorker
  <2>3. job'[i].owner = w /\ \A j \in JobIds : j # i => job'[j] = job[j]
    BY <1>t, <2>1 DEF Job
  <2>4. ASSUME NEW j \in JobIds, job'[j].state = "active"
        PROVE  \E v \in Workers : Works(v, j)'
    <3>1. CASE j = i
      BY <2>2, <2>3, <3>1 DEF Works
    <3>2. CASE j # i
      <4>1. PICK v \in Workers : Works(v, j)
        BY <1>m, <2>3, <2>4, <3>2 DEF Manned
      <4>2. v # w
        BY <2>1, <4>1 DEF Works
      <4>3. QED
        BY <2>2, <2>3, <3>2, <4>1, <4>2 DEF Works
    <3>3. QED
      BY <3>1, <3>2
  <2>5. QED
    BY <1>m, <2>2, <2>4 DEF Manned
<1>3. ASSUME NEW w \in Workers, JobCompletes(w)
      PROVE  Manned'
  <2>1. /\ worker' = [worker EXCEPT ![w] = IdleWorker] /\ worker[w].pc = "returned"
        /\ worker[w].job \in JobIds
    BY <1>3, <1>t DEF JobCompletes
  <2>2. worker'[w].pc = "idle" /\ \A v \in Workers : v # w => worker'[v] = worker[v]
    BY <1>t, <2>1 DEF IdleWorker
  <2>3. Owns(w)
    BY <1>m, <2>1 DEF Footing
  <2>4. /\ job'[worker[w].job].state = "completed"
        /\ \A j \in JobIds : j # worker[w].job => job'[j] = job[j]
    BY <1>3, <1>t, <2>1, <2>3 DEF JobCompletes, Job
  <2>5. ASSUME NEW j \in JobIds, job'[j].state = "active"
        PROVE  \E v \in Workers : Works(v, j)'
    <3>1. j # worker[w].job /\ job'[j] = job[j]
      BY <2>4, <2>5
    <3>2. PICK v \in Workers : Works(v, j)
      BY <1>m, <2>5, <3>1 DEF Manned
    <3>3. v # w
      BY <3>1, <3>2 DEF Works
    <3>4. QED
      BY <2>2, <3>1, <3>2, <3>3 DEF Works
  <2>6. QED
    BY <1>m, <2>2, <2>5 DEF Manned
<1>4. ASSUME NEW w \in Workers
      PROVE  ~JobFails(w) /\ ~Crash(w)
  BY <1>m, NoMishap DEF JobFails, Manned
<1>5. ASSUME NEW j \in JobIds
      PROVE  ~RecoverStalledJob(j) /\ ~FalseStall(j)
  <2>1. ~RecoverStalledJob(j)
    BY <1>m DEF RecoverStalledJob, Manned, Works
  <2>2. QED
    BY <2>1, NoMishap
<1>6. ASSUME NEW a \in Admins, RequeueFind(a) \/ RequeueStep(a) \/ RequeueCrash(a)
      PROVE  Manned'
  <2>1. UNCHANGED worker
    BY <1>6, <1>t, RequeueWrites
  <2>2. CASE UNCHANGED job
    BY <1>m, <2>1, <2>2 DEF Manned, Works
  <2>3. CASE PublishRequeue(a)
    <3>1. PICK n \in Messages, g \in 1 .. MaxRequeues :
            job' = [job EXCEPT ![<<n, g>>] = PublishedJob]
      BY <1>t, <2>3 DEF PublishRequeue, TypeOK
    <3>2. \A j \in JobIds : job'[j] = job[j] \/ job'[j].state = "waiting"
      BY <1>t, <3>1 DEF PublishedJob, AbsentJob
    <3>3. ASSUME NEW j \in JobIds, job'[j].state = "active"
          PROVE  \E v \in Workers : Works(v, j)'
      BY <1>m, <2>1, <3>2, <3>3 DEF Manned, Works
    <3>4. QED
      BY <1>m, <2>1, <3>3 DEF Manned
  <2>4. QED
    BY <1>6, <2>2, <2>3 DEF RequeueFind, RequeueStep, RequeueTransition, RequeueRestore,
       RequeueThrows, RequeueCrash
<1>7. CASE DispatchActivity
  BY <1>7, <1>1, <1>2, <1>3, <1>4, <1>5, <1>6 DEF DispatchActivity, Activity, WorkerStep
<1>8. ASSUME NEW c \in Messages, CreatorStep(c) \/ AbandonPublication(c)
      PROVE  Manned'
  <2>1. UNCHANGED worker
    BY <1>8, CreatorChanges
  <2>2. \A j \in JobIds : job'[j] = job[j] \/ job'[j].state = "waiting"
    BY <1>8, CreatorChanges, CreatorJobs DEF PublishedJob, AbsentJob
  <2>3. ASSUME NEW j \in JobIds, job'[j].state = "active"
        PROVE  \E v \in Workers : Works(v, j)'
    BY <1>m, <2>1, <2>2, <2>3 DEF Manned, Works
  <2>4. QED
    BY <1>m, <2>1, <2>3 DEF Manned
<1>9. ASSUME NEW h \in Handlers, FindReported(h) \/ HandlerStep(h)
      PROVE  Manned'
  BY <1>m, <1>9, HandlerChanges DEF Manned, Works
<1>10. CASE SystemRest \/ UNCHANGED systemVars
  BY <1>m, <1>10 DEF SystemRest, systemVars, vars, Manned, Works
<1>11. QED
  BY <1>7, <1>8, <1>9, <1>10 DEF SystemNext

(* What the rest is built on: types, jobs and owners, and who may be where. *)
Base == SystemTypeOK /\ OwnersActive /\ Footing /\ Origins /\ MannedThen

LEMMA AlwaysBase == SystemSpec => []Base
<1>1. SystemInit => Base
  <2> SUFFICES ASSUME SystemInit PROVE Base
    OBVIOUS
  <2>1. SystemTypeOK /\ OwnersActive
    BY SystemTypeInit, KeptInit
  <2>2. Footing /\ MannedThen
    BY DEF SystemInit, Undispatched, Footing, MannedThen, Manned, IdleWorker, IdleAdmin, AbsentJob,
       NoFaults
  <2>3. Origins
    <3>1. ASSUME NEW m \in Messages
          PROVE  /\ creator[m] = "enqueue" /\ row[m].status = "QUEUED"
                 /\ row[m].providerMessageId = Null /\ row[m].deliveredAt = "unset"
      BY DEF SystemInit, Undispatched, QueuedMessage
    <3>2. /\ \A w \in Workers : worker[w].pc = "idle"
          /\ \A a \in Admins : admin[a].pc = "idle"
          /\ \A h \in Handlers : handler[h] = IdleHandler
          /\ \A j \in JobIds : ~Started(j)
      BY DEF SystemInit, Undispatched, IdleWorker, IdleAdmin, AbsentJob, Started
    <3>3. QED
      BY <3>1, <3>2, FirstJob DEF Origins, Unstarted, CreatorKnows, Refused
  <2>4. QED
    BY <2>1, <2>2, <2>3 DEF Base
<1>2. Base /\ [SystemNext]_systemVars => Base'
  BY SystemTypeStep, SystemOwnersActiveStep, SystemFootingStep, OriginsStep, MannedStep DEF Base
<1>3. QED
  BY <1>1, <1>2, PTL DEF SystemSpec

-----------------------------------------------------------------------------
(***************************************************************************)
(* Without faults a message has at most one thing that will move it on: a  *)
(* job, or a requeue request about to publish one; and a settled message   *)
(* has none.                                                               *)
(***************************************************************************)
Tokens(m) ==
    /\ \A i, j \in JobIds :
        MessageOf(i) = m /\ MessageOf(j) = m /\ Promises(i) /\ Promises(j) => i = j
    /\ \A a, b \in Admins : Asked(a, m) /\ Asked(b, m) => a = b
    /\ Requested(m) => ~Promised(m)
    /\ Promised(m) \/ Requested(m) => Waits(m)
OneToken == Untroubled => \A m \in Messages : Tokens(m)

(* Under Apart the middle of a dispatch of a message has one worker in it. *)
BusyPcs == WorkerPcs \ ({"idle"} \cup SettledPcs)
LEMMA SoleWorker ==
    ASSUME Base, OneToken, Apart, NEW m, NEW v \in Workers, NEW w \in Workers,
           worker[v].pc \in BusyPcs, worker[w].pc \in BusyPcs,
           MessageOfWorker(v) = m, MessageOfWorker(w) = m
    PROVE  v = w
<1>1. /\ worker[v].job \in JobIds /\ worker[w].job \in JobIds
      /\ job[worker[v].job].owner = v /\ job[worker[w].job].owner = w
      /\ Started(worker[v].job) /\ Started(worker[w].job) /\ v # Null /\ w # Null
  BY WorkersAssumption DEF Base, SystemTypeOK, TypeOK, Footing, Apart, Owns, Origins, BusyPcs
<1>2. CASE faults.requeues = 0
  <2>1. worker[v].job[2] = 0 /\ worker[w].job[2] = 0
    BY <1>1, <1>2 DEF Base, Footing, Started
  <2>2. worker[v].job = worker[w].job
    BY <1>1, <2>1 DEF JobIds, MessageOf, MessageOfWorker
  <2>3. QED
    BY <1>1, <2>2
<1>3. CASE faults.errors = 0 /\ faults.crashes = 0
  <2>1. Untroubled
    BY <1>3, UntroubledMeans DEF Apart, Base
  <2>2. Promises(worker[v].job) /\ Promises(worker[w].job)
    BY <1>1 DEF Base, OwnersActive, Promises, BusyPcs
  <2>3. m \in Messages
    BY <1>1, JobMessage DEF MessageOfWorker
  <2>4. worker[v].job = worker[w].job
    BY <1>1, <2>1, <2>2, <2>3 DEF OneToken, Tokens, MessageOfWorker
  <2>5. QED
    BY <1>1, <2>4
<1>4. QED
  BY <1>2, <1>3 DEF Apart

LEMMA DispatchersBusy ==
    /\ DispatchPcs \subseteq BusyPcs
    /\ "findById" \in BusyPcs /\ "markProcessing" \in BusyPcs
BY DEF DispatchPcs, BusyPcs, WorkerPcs, DatabasePcs, QueuePcs, SettledPcs

(***************************************************************************)
(* What a row says, unless its publication was taken back under a job that *)
(* exists, and as long as requeues and faults stay apart: a message being  *)
(* dispatched is PROCESSING, the external id is there exactly from SENT on,*)
(* a callback at work on a row has found it by that id, and a delivery     *)
(* time belongs to a delivered message.                                    *)
(***************************************************************************)
Undelivered == {"QUEUED", "PROCESSING", "FATAL_FAILURE"}
Quiet(m) == Apart /\ ~(Refused(m) /\ Started(<<m, 0>>))
ClaimStands(m) ==
    \A w \in Workers :
        worker[w].pc \in DispatchPcs /\ MessageOfWorker(w) = m => row[m].status = "PROCESSING"
IdTold(m) ==
    row[m].providerMessageId = Null <=> row[m].status \in Undelivered \/ Refused(m)
ReportsFind(m) ==
    \A h \in Handlers :
        handler[h] # IdleHandler /\ handler[h].message = m => row[m].providerMessageId # Null
Truth(m) == ClaimStands(m) /\ IdTold(m) /\ ReportsFind(m) /\ DeliveredTimeAgrees(m)
Truths == \A m \in Messages : Quiet(m) => Truth(m)

LEMMA RefusedMeans ==
    ASSUME Base, NEW m \in Messages, Refused(m), Quiet(m)
    PROVE  /\ ~Started(<<m, 0>>) /\ row[m].status = "FAILED"
           /\ \A w \in Workers : worker[w].pc # "idle" => MessageOfWorker(w) # m
           /\ \A a \in Admins : admin[a].pc # "idle" => admin[a].message # m
<1>1. ~Started(<<m, 0>>)
  BY DEF Quiet
<1>2. /\ row[m].status = "FAILED"
      /\ \A a \in Admins : admin[a].pc # "idle" => admin[a].message # m
      /\ \A j \in JobIds : MessageOf(j) = m => ~Started(j)
  BY <1>1 DEF Base, Origins, Unstarted
<1>3. QED
  BY <1>1, <1>2 DEF Base, Origins, MessageOfWorker, SystemTypeOK, TypeOK

(* Once a row is no longer quiet it never is again. *)
LEMMA QuietBefore ==
    ASSUME Base, SystemTypeOK', [SystemNext]_systemVars, NEW m \in Messages, Quiet(m)'
    PROVE  Quiet(m)
<1>1. Apart
  BY CalmBefore DEF Base, Quiet
<1>2. Refused(m) => Refused(m)'
  <2>1. ASSUME NEW c \in Messages, CreatorStep(c) \/ AbandonPublication(c)
        PROVE  Refused(m) => Refused(m)'
    BY <2>1, CreatorChanges
       DEF Base, SystemTypeOK, Refused, CreatorStep, Publish, PublishFails, RefusePublication,
           AbandonPublication, GotoCreator
  <2>2. ASSUME NEW h \in Handlers, FindReported(h) \/ HandlerStep(h)
        PROVE  UNCHANGED creator
    BY <2>2, HandlerChanges DEF Base
  <2>3. QED
    BY <2>1, <2>2 DEF SystemNext, DispatchActivity, SystemRest, systemVars, Refused
<1>3. Started(<<m, 0>>) => Started(<<m, 0>>)'
  <2>1. CASE DispatchActivity
    BY <2>1, JobsMove, FirstJob DEF Base, SystemTypeOK, DispatchActivity
  <2>2. ASSUME NEW c \in Messages, CreatorStep(c) \/ AbandonPublication(c)
        PROVE  Started(<<m, 0>>) => Started(<<m, 0>>)'
    BY <2>2, CreatorChanges, CreatorJobs, FirstJob
       DEF Base, PublishedJob, AbsentJob, Started
  <2>3. ASSUME NEW h \in Handlers, FindReported(h) \/ HandlerStep(h)
        PROVE  UNCHANGED job
    BY <2>3, HandlerChanges DEF Base
  <2>4. QED
    BY <2>1, <2>2, <2>3 DEF SystemNext, SystemRest, systemVars, vars, Started
<1>4. QED
  BY <1>1, <1>2, <1>3 DEF Quiet

LEMMA TruthByDispatch ==
    ASSUME Base, OneToken, NEW w \in Workers, DispatchStep(w) \/ CallThrows(w),
           UNCHANGED <<creator, handler>>, NEW n \in Messages, Quiet(n), Truth(n)
    PROVE  Truth(n)'
<1> SUFFICES ASSUME NEW m, m = MessageOfWorker(w) PROVE Truth(n)'
  OBVIOUS
<1>t. /\ worker \in [Workers -> Worker] /\ TypeOK /\ NullAssumption
      /\ worker[w].pc = "markSent" => worker[w].pid \in Nat
  BY NullAssumption DEF Base, SystemTypeOK, TypeOK, NullAssumption
<1>d. /\ worker[w].pc # "idle" /\ worker'[w].pc # "idle"
      /\ \A v \in Workers : v # w => worker'[v] = worker[v]
      /\ worker'[w].job = worker[w].job /\ MessageOfWorker(w)' = m
  BY <1>t, DispatchMoves DEF MessageOfWorker
<1>w. /\ m \in Messages
      /\ \A k \in Messages : k # m => row'[k] = row[k]
      /\ row'[m].deliveredAt = row[m].deliveredAt
      /\ \/ WritesNothing(w, m) \/ WritesClaim(w, m) \/ WritesSent(w, m)
         \/ WritesFatal(w, m) \/ FailsToWrite(w, m)
  BY <1>t, DispatchWrites
<1>o. \A v \in Workers : v # w => MessageOfWorker(v)' = MessageOfWorker(v)
  BY <1>d DEF MessageOfWorker
<1>r. Refused(n)' <=> Refused(n)
  BY DEF Refused
<1>1. CASE n # m
  <2>1. row'[n] = row[n]
    BY <1>w, <1>1
  <2>2. ClaimStands(n)'
    BY <1>d, <1>o, <1>1, <2>1 DEF Truth, ClaimStands
  <2>3. QED
    BY <1>r, <2>1, <2>2 DEF Truth, IdTold, ReportsFind, DeliveredTimeAgrees
<1>2. CASE n = m
  <2>n. ~Refused(n)
    BY <1>d, <1>2, RefusedMeans
  <2>s. ASSUME worker[w].pc \in DispatchPcs
        PROVE  /\ row[n].status = "PROCESSING" /\ row[n].providerMessageId = Null
               /\ row[n].deliveredAt # "set"
               /\ \A h \in Handlers : handler[h] # IdleHandler => handler[h].message # n
               /\ \A v \in Workers :
                    worker[v].pc \in DispatchPcs /\ MessageOfWorker(v) = n => v = w
    <3>1. row[n].status = "PROCESSING"
      BY <1>2, <2>s DEF Truth, ClaimStands
    <3>2. row[n].providerMessageId = Null /\ row[n].deliveredAt # "set"
      BY <3>1 DEF Truth, IdTold, Undelivered, DeliveredTimeAgrees
    <3>3. \A h \in Handlers : handler[h] # IdleHandler => handler[h].message # n
      BY <3>2 DEF Truth, ReportsFind
    <3>4. \A v \in Workers : worker[v].pc \in DispatchPcs /\ MessageOfWorker(v) = n => v = w
      BY <1>2, <2>s, SoleWorker, DispatchersBusy DEF Quiet
    <3>5. QED
      BY <3>1, <3>2, <3>3, <3>4
  <2>1. CASE WritesNothing(w, m) \/ FailsToWrite(w, m)
    <3>1. /\ row'[n].status = row[n].status
          /\ row'[n].providerMessageId = row[n].providerMessageId
          /\ worker'[w].pc \in DispatchPcs => worker[w].pc \in DispatchPcs
      BY <1>2, <2>1 DEF WritesNothing, SameFace, FailsToWrite, DispatchPcs
    <3>2. ClaimStands(n)'
      BY <1>d, <1>o, <1>2, <3>1 DEF Truth, ClaimStands
    <3>3. QED
      BY <1>r, <1>w, <1>2, <3>1, <3>2 DEF Truth, IdTold, ReportsFind, DeliveredTimeAgrees
  <2>2. CASE WritesClaim(w, m)
    <3>1. /\ row'[n].status = "PROCESSING" /\ row[n].status \in {"QUEUED", "PROCESSING"}
          /\ row'[n].providerMessageId = row[n].providerMessageId
      BY <1>2, <2>2 DEF WritesClaim, Waits
    <3>2. IdTold(n)'
      BY <1>r, <3>1 DEF Truth, IdTold, Undelivered
    <3>3. DeliveredTimeAgrees(n)'
      BY <1>w, <1>2, <3>1 DEF Truth, DeliveredTimeAgrees
    <3>4. QED
      BY <3>1, <3>2, <3>3 DEF Truth, ClaimStands, ReportsFind
  <2>3. CASE WritesSent(w, m)
    <3>1. /\ worker[w].pc = "markSent" /\ worker'[w].pc \notin DispatchPcs
          /\ row'[n].status = "SENT" /\ row'[n].providerMessageId = worker[w].pid
      BY <1>2, <2>3 DEF WritesSent, DispatchPcs
    <3>2. worker[w].pc \in DispatchPcs
      BY <3>1 DEF DispatchPcs
    <3>3. ClaimStands(n)'
      BY <1>d, <1>o, <2>s, <3>1, <3>2 DEF ClaimStands
    <3>4. row'[n].providerMessageId # Null
      BY <1>t, <3>1 DEF NullAssumption
    <3>5. DeliveredTimeAgrees(n)' /\ IdTold(n)' /\ ReportsFind(n)'
      BY <1>r, <1>w, <1>2, <2>n, <2>s, <3>1, <3>2, <3>4
         DEF DeliveredTimeAgrees, IdTold, Undelivered, ReportsFind
    <3>6. QED
      BY <3>3, <3>5 DEF Truth
  <2>4. CASE WritesFatal(w, m)
    <3>1. /\ worker[w].pc = "markFatalFailure" /\ worker'[w].pc \notin DispatchPcs
          /\ row'[n].status = "FATAL_FAILURE" /\ row'[n].providerMessageId = Null
      BY <1>2, <2>4 DEF WritesFatal, DispatchPcs
    <3>2. worker[w].pc \in DispatchPcs
      BY <3>1 DEF DispatchPcs
    <3>3. ClaimStands(n)'
      BY <1>d, <1>o, <2>s, <3>1, <3>2 DEF ClaimStands
    <3>4. DeliveredTimeAgrees(n)' /\ IdTold(n)' /\ ReportsFind(n)'
      BY <1>r, <1>w, <1>2, <2>n, <2>s, <3>1, <3>2
         DEF DeliveredTimeAgrees, IdTold, Undelivered, ReportsFind
    <3>5. QED
      BY <3>3, <3>4 DEF Truth
  <2>5. QED
    BY <1>w, <2>1, <2>2, <2>3, <2>4
<1>3. QED
  BY <1>1, <1>2

(* A requeue finds the row settled: nobody is dispatching it, no callback holds it. *)
LEMMA TruthByRequeue ==
    ASSUME Base, NEW a \in Admins, RequeueFind(a) \/ RequeueStep(a) \/ RequeueCrash(a),
           UNCHANGED <<creator, handler>>, NEW n \in Messages, Quiet(n), Truth(n)
    PROVE  Truth(n)'
<1>t. TypeOK
  BY DEF Base, SystemTypeOK
<1>w. /\ \A k \in Messages : row'[k] # row[k] => k = admin[a].message
      /\ UNCHANGED row \/ Reopens(a) \/ admin[a].pc = "restore"
      /\ UNCHANGED worker
  BY <1>t, RequeueWrites
<1>r. admin[a].pc # "restore"
  <2>1. faults.requeues # 0 => faults.errors = 0
    BY DEF Quiet, Apart
  <2>2. QED
    BY <2>1 DEF Base, Footing
<1>1. CASE row'[n] = row[n]
  BY <1>w, <1>1
     DEF Truth, ClaimStands, IdTold, ReportsFind, DeliveredTimeAgrees, Refused, MessageOfWorker
<1>2. CASE row'[n] # row[n]
  <2>1. /\ row[n].status = "FATAL_FAILURE" /\ row'[n].status = "QUEUED"
        /\ row'[n].providerMessageId = Null /\ row'[n].deliveredAt = row[n].deliveredAt
    BY <1>w, <1>r, <1>2 DEF Reopens
  <2>2. /\ row[n].providerMessageId = Null /\ row[n].deliveredAt # "set"
        /\ \A w \in Workers : worker[w].pc \in DispatchPcs => MessageOfWorker(w) # n
    BY <2>1 DEF Truth, IdTold, Undelivered, DeliveredTimeAgrees, ClaimStands
  <2>3. QED
    BY <1>w, <2>1, <2>2
       DEF Truth, ClaimStands, IdTold, ReportsFind, DeliveredTimeAgrees, Undelivered,
           MessageOfWorker
<1>3. QED
  BY <1>1, <1>2

LEMMA TruthByActivity ==
    ASSUME Base, OneToken, DispatchActivity, NEW n \in Messages, Quiet(n), Truth(n)
    PROVE  Truth(n)'
<1>t. worker \in [Workers -> Worker]
  BY DEF Base, SystemTypeOK, TypeOK
<1>c. UNCHANGED <<creator, handler>>
  BY DEF DispatchActivity
<1>1. ASSUME NEW w \in Workers, Process(w) \/ JobCompletes(w) \/ JobFails(w) \/ Crash(w)
      PROVE  Truth(n)'
  <2>1. /\ UNCHANGED row
        /\ \A v \in Workers : worker'[v] = worker[v] \/ worker'[v].pc \in {"idle", "findById"}
    <3>1. PICK W : worker' = [worker EXCEPT ![w] = W] /\ W.pc \in {"idle", "findById"}
      <4>1. CASE Process(w)
        <5>1. PICK i \in JobIds :
                worker' = [worker EXCEPT ![w] = [IdleWorker EXCEPT !.pc = "findById", !.job = i]]
          BY <4>1 DEF Process
        <5>2. [IdleWorker EXCEPT !.pc = "findById", !.job = i].pc = "findById"
          BY DEF IdleWorker
        <5>3. QED
          BY <5>1, <5>2
      <4>2. CASE JobCompletes(w) \/ JobFails(w) \/ Crash(w)
        <5>1. worker' = [worker EXCEPT ![w] = IdleWorker]
          BY <4>2 DEF JobCompletes, JobFails, Crash
        <5>2. IdleWorker.pc = "idle"
          BY DEF IdleWorker
        <5>3. QED
          BY <5>1, <5>2
      <4>3. QED
        BY <1>1, <4>1, <4>2
    <3>2. UNCHANGED row
      BY <1>1 DEF Process, JobCompletes, JobFails, Crash
    <3>3. QED
      BY <1>t, <3>1, <3>2
  <2>2. ClaimStands(n)'
    BY <2>1 DEF Truth, ClaimStands, MessageOfWorker, DispatchPcs
  <2>3. QED
    BY <1>c, <2>1, <2>2 DEF Truth, IdTold, ReportsFind, DeliveredTimeAgrees, Refused
<1>2. ASSUME NEW j \in JobIds, RecoverStalledJob(j) \/ FalseStall(j)
      PROVE  Truth(n)'
  BY <1>c, <1>2 DEF RecoverStalledJob, FalseStall, Truth, ClaimStands, IdTold, ReportsFind,
     DeliveredTimeAgrees, Refused, MessageOfWorker
<1>3. QED
  BY <1>c, <1>1, <1>2, TruthByDispatch, TruthByRequeue DEF DispatchActivity, Activity, WorkerStep

(* A creator refuses only a row nobody else has heard of. *)
LEMMA TruthByCreator ==
    ASSUME Base, NEW c \in Messages, CreatorStep(c) \/ AbandonPublication(c),
           NEW n \in Messages, Quiet(n), Quiet(n)', Truth(n)
    PROVE  Truth(n)'
<1>t. /\ row \in [Messages -> SmsMessage] /\ creator \in [Messages -> CreatorPcs]
  BY DEF Base, SystemTypeOK, TypeOK
<1>u. /\ UNCHANGED <<worker, handler>>
      /\ \A k \in Messages : k # c => creator'[k] = creator[k] /\ row'[k] = row[k]
  BY CreatorChanges DEF Base
<1>1. CASE n # c \/ ~RefusePublication(c)
  <2>1. row'[n] = row[n]
    BY <1>u, <1>1 DEF CreatorStep, Publish, PublishFails, AbandonPublication
  <2>2. Refused(n)' <=> Refused(n)
    BY <1>t, <1>u, <1>1
       DEF CreatorStep, Publish, PublishFails, AbandonPublication, GotoCreator, Refused
  <2>3. QED
    BY <1>u, <2>1, <2>2
       DEF Truth, ClaimStands, IdTold, ReportsFind, DeliveredTimeAgrees, MessageOfWorker
<1>2. CASE n = c /\ RefusePublication(c)
  <2>1. Refused(n)' /\ UNCHANGED job
    BY <1>t, <1>2 DEF RefusePublication, GotoCreator, Refused
  <2>2. ~Started(<<n, 0>>)
    BY <2>1 DEF Quiet, Started
  <2>3. /\ row[n].providerMessageId = Null /\ row[n].deliveredAt = "unset"
        /\ \A j \in JobIds : MessageOf(j) = n => ~Started(j)
        /\ \A h \in Handlers : handler[h] # IdleHandler => handler[h].message # n
    BY <2>2 DEF Base, Origins, Unstarted
  <2>4. \A w \in Workers : worker[w].pc # "idle" => MessageOfWorker(w) # n
    BY <2>3 DEF Base, Origins, MessageOfWorker, SystemTypeOK, TypeOK
  <2>5. row'[n] = MarkQueuePublishFailed(row[n]) /\ row[n] \in SmsMessage
    BY <1>t, <1>2 DEF RefusePublication, SetRow
  <2>6. /\ MarkQueuePublishFailed(row[n]).providerMessageId = row[n].providerMessageId
        /\ MarkQueuePublishFailed(row[n]).deliveredAt = row[n].deliveredAt
    BY <2>5 DEF MarkQueuePublishFailed, SmsMessage
  <2>7. ClaimStands(n)'
    BY <1>u, <2>4 DEF ClaimStands, MessageOfWorker, DispatchPcs
  <2>8. IdTold(n)' /\ DeliveredTimeAgrees(n)'
    BY <2>1, <2>3, <2>5, <2>6 DEF IdTold, DeliveredTimeAgrees
  <2>9. ReportsFind(n)'
    BY <1>u, <2>3 DEF ReportsFind
  <2>10. QED
    BY <2>7, <2>8, <2>9 DEF Truth
<1>3. QED
  BY <1>1, <1>2

(* What a callback writes, once it has found a row that is sent. *)
LEMMA ReportWrites ==
    ASSUME Base, NEW h \in Handlers, FindReported(h) \/ HandlerStep(h),
           NEW n \in Messages, Quiet(n), Truth(n), row'[n] # row[n]
    PROVE  /\ row[n].providerMessageId # Null
           /\ row[n].status \notin Undelivered /\ row'[n].status \notin Undelivered
           /\ ~Refused(n)
           /\ row'[n].providerMessageId = row[n].providerMessageId
           /\ row'[n].deliveredAt = "set" => row'[n].status = "DELIVERED"
           /\ \/ row[n].status = "SENT" /\ row'[n].status \in DELIVERY_TERMINAL_STATUSES
              \/ row[n].status \in DELIVERY_FAILURE_STATUSES /\ row'[n].status = "DELIVERED"
<1> DEFINE s == handler[h].status
<1>1. /\ ApplyReport(h) /\ handler[h] # IdleHandler /\ n = handler[h].message
      /\ row[n] \in SmsMessage /\ s \in Reports
  BY HandlerChanges DEF Base, FindReported, HandlerStep, HandlerFails, SystemTypeOK, TypeOK
<1>2. /\ row'[n] = ApplyDeliveryStatus(row[n], s)
      /\ row[n].status \in AllowedPreviousStatusesFor(s)
  BY <1>1 DEF Base, ApplyReport, SetRow, SystemTypeOK, TypeOK, MayApplyDeliveryStatus
<1>3. row[n].providerMessageId # Null
  BY <1>1 DEF Truth, ReportsFind
<1>4. row[n].status \notin Undelivered /\ ~Refused(n)
  BY <1>3 DEF Truth, IdTold
<1>5. row'[n].status = s
  BY <1>1, <1>2, StatusApplied
<1>6. row[n].deliveredAt = "set" => row[n].status = "DELIVERED"
  BY DEF Truth, DeliveredTimeAgrees
<1> HIDE DEF s
<1>7. s # "SENT"
  BY <1>2, <1>4 DEF AllowedPreviousStatusesFor, Undelivered, DELIVERY_FAILURE_STATUSES
<1>8. s \in DELIVERY_TERMINAL_STATUSES
  BY <1>1, <1>7, ReportsAssumption
<1>9. \/ s = "DELIVERED" /\ row[n].status \in {"SENT"} \cup DELIVERY_FAILURE_STATUSES
      \/ s \in DELIVERY_FAILURE_STATUSES /\ s # "DELIVERED" /\ row[n].status = "SENT"
  <2>1. CASE s = "DELIVERED"
    <3>1. AllowedPreviousStatusesFor(s) = {"QUEUED", "PROCESSING", "SENT"}
                                            \cup DELIVERY_FAILURE_STATUSES
      BY <2>1 DEF AllowedPreviousStatusesFor, DELIVERY_FAILURE_STATUSES
    <3>2. QED
      BY <1>2, <1>4, <2>1, <3>1 DEF Undelivered
  <2>2. CASE s \in DELIVERY_FAILURE_STATUSES
    <3>1. s # "DELIVERED" /\ s # "SENT"
      BY <2>2 DEF DELIVERY_FAILURE_STATUSES
    <3>2. AllowedPreviousStatusesFor(s) = {"QUEUED", "PROCESSING", "SENT"}
      BY <2>2, <3>1 DEF AllowedPreviousStatusesFor, DELIVERY_FAILURE_STATUSES
    <3>3. QED
      BY <1>2, <1>4, <2>2, <3>1, <3>2 DEF Undelivered
  <2>3. QED
    BY <1>8, <2>1, <2>2 DEF DELIVERY_TERMINAL_STATUSES
<1>10. /\ row'[n].providerMessageId = row[n].providerMessageId
       /\ s # "DELIVERED" => row'[n].deliveredAt = row[n].deliveredAt
  <2>1. CASE s = "DELIVERED"
    <3>1. row'[n] = [row[n] EXCEPT !.status = s, !.deliveredAt = "set", !.failedAt = "unset"]
      BY <1>2, <2>1 DEF ApplyDeliveryStatus, DELIVERY_FAILURE_STATUSES
    <3>2. QED
      BY <1>1, <2>1, <3>1 DEF SmsMessage
  <2>2. CASE s # "DELIVERED"
    <3>1. row'[n] = [row[n] EXCEPT !.status = s, !.failedAt = "set"]
      <4>1. s \in DELIVERY_FAILURE_STATUSES
        BY <1>9, <2>2
      <4>2. ApplyDeliveryStatus(row[n], s) = [row[n] EXCEPT !.status = s, !.failedAt = "set"]
        BY <2>2, <4>1 DEF ApplyDeliveryStatus, DELIVERY_FAILURE_STATUSES
      <4>3. QED
        BY <1>2, <4>2
    <3>2. QED
      BY <1>1, <2>2, <3>1 DEF SmsMessage
  <2>3. QED
    BY <2>1, <2>2
<1>11. row'[n].status \notin Undelivered
  BY <1>5, <1>8 DEF Undelivered, DELIVERY_TERMINAL_STATUSES, DELIVERY_FAILURE_STATUSES
<1>12. row'[n].deliveredAt = "set" => row'[n].status = "DELIVERED"
  BY <1>5, <1>6, <1>9, <1>10
<1>13. \/ row[n].status = "SENT" /\ row'[n].status \in DELIVERY_TERMINAL_STATUSES
       \/ row[n].status \in DELIVERY_FAILURE_STATUSES /\ row'[n].status = "DELIVERED"
  BY <1>5, <1>8, <1>9
<1>14. QED
  BY <1>3, <1>4, <1>10, <1>11, <1>12, <1>13

LEMMA TruthByHandler ==
    ASSUME Base, NEW h \in Handlers, FindReported(h) \/ HandlerStep(h),
           NEW n \in Messages, Quiet(n), Truth(n)
    PROVE  Truth(n)'
<1>t. handler \in [Handlers -> Handler] /\ n \in Messages
  BY DEF Base, SystemTypeOK
<1>u. /\ UNCHANGED <<worker, creator>>
      /\ \A g \in Handlers : g # h => handler'[g] = handler[g]
  BY HandlerChanges DEF Base
<1>i. row'[n].providerMessageId = row[n].providerMessageId
  BY ReportWrites
<1>1. ClaimStands(n)'
  <2>1. CASE row'[n] = row[n]
    BY <1>u, <2>1 DEF Truth, ClaimStands, MessageOfWorker
  <2>2. CASE row'[n] # row[n]
    BY <1>u, <2>2, ReportWrites DEF Truth, ClaimStands, MessageOfWorker, Undelivered
  <2>3. QED
    BY <2>1, <2>2
<1>2. IdTold(n)' /\ DeliveredTimeAgrees(n)'
  <2>1. CASE row'[n] = row[n]
    BY <1>u, <2>1 DEF Truth, IdTold, DeliveredTimeAgrees, Refused
  <2>2. CASE row'[n] # row[n]
    BY <1>u, <2>2, ReportWrites DEF IdTold, DeliveredTimeAgrees, Refused
  <2>3. QED
    BY <2>1, <2>2
<1>3. ReportsFind(n)'
  <2>1. handler'[h] # IdleHandler /\ handler'[h].message = n =>
            row[n].providerMessageId # Null
    <3>1. ASSUME FindReported(h), handler'[h].message = n
          PROVE  row[n].providerMessageId # Null
      <4>1. PICK m \in Messages, s \in Reports :
              /\ row[m].providerMessageId # Null
              /\ handler' = [handler EXCEPT ![h] = [message |-> m, status |-> s]]
        BY <3>1 DEF FindReported
      <4>2. handler'[h] = [message |-> m, status |-> s]
        BY <1>t, <4>1
      <4>3. QED
        BY <3>1, <4>1, <4>2
    <3>2. HandlerStep(h) => handler'[h] = IdleHandler
      BY <1>t DEF HandlerStep, ApplyReport, HandlerFails
    <3>3. QED
      BY <3>1, <3>2
  <2>2. QED
    BY <1>u, <1>i, <2>1 DEF Truth, ReportsFind
<1>4. QED
  BY <1>1, <1>2, <1>3 DEF Truth

LEMMA TruthsStep ==
    ASSUME Base, Base', OneToken, Truths, [SystemNext]_systemVars
    PROVE  Truths'
<1> SUFFICES ASSUME NEW n \in Messages, Quiet(n)'
             PROVE  Truth(n)'
  BY DEF Truths
<1>1. Quiet(n) /\ Truth(n)
  BY QuietBefore DEF Truths, Base
<1>2. CASE SystemRest \/ UNCHANGED systemVars
  BY <1>1, <1>2 DEF SystemRest, systemVars, vars, Truth, ClaimStands, IdTold, ReportsFind,
     DeliveredTimeAgrees, Refused, MessageOfWorker
<1>3. QED
  BY <1>1, <1>2, TruthByActivity, TruthByCreator, TruthByHandler DEF SystemNext

-----------------------------------------------------------------------------
(* A token stays the only one. *)

LEMMA TokensKept ==
    ASSUME NEW m, Tokens(m),
           \A j \in JobIds : MessageOf(j) = m /\ Promises(j)' => Promises(j),
           \A a \in Admins : Asked(a, m)' => Asked(a, m),
           Waits(m) /\ (Promised(m)' \/ Requested(m)') => Waits(m)'
    PROVE  Tokens(m)'
<1>1. Promised(m)' => Promised(m)
  BY DEF Promised
<1>2. Requested(m)' => Requested(m)
  BY DEF Requested
<1>3. QED
  BY <1>1, <1>2 DEF Tokens

LEMMA TokensByDispatch ==
    ASSUME Base, SystemTypeOK', Untroubled, Untroubled', OneToken,
           NEW w \in Workers, DispatchStep(w) \/ CallThrows(w), NEW n \in Messages
    PROVE  Tokens(n)'
<1> SUFFICES ASSUME NEW m, m = MessageOfWorker(w) PROVE Tokens(n)'
  OBVIOUS
<1>t. TypeOK /\ Tokens(n) /\ Apart
  BY UntroubledMeans DEF Base, SystemTypeOK, OneToken
<1>d. /\ worker[w].pc # "idle" /\ UNCHANGED <<job, admin>>
      /\ \A v \in Workers : v # w => worker'[v] = worker[v]
      /\ worker'[w].job = worker[w].job /\ worker'[w].pc # "threw"
  BY <1>t, DispatchMoves, NobodyThrows DEF Base
<1>w. /\ m \in Messages
      /\ \A k \in Messages : k # m => row'[k] = row[k]
      /\ \/ WritesNothing(w, m) \/ WritesClaim(w, m) \/ WritesSent(w, m) \/ WritesFatal(w, m)
  BY <1>t, <1>d, DispatchWrites DEF FailsToWrite
<1>o. worker[w].job \in JobIds /\ job[worker[w].job].owner = w /\ w # Null
  BY <1>t, <1>d, WorkersAssumption DEF TypeOK, Base, Footing, Apart, Owns
<1>b. worker[w].pc \in SettledPcs => worker'[w].pc \in SettledPcs
  <2>1. ASSUME worker[w].pc = "enqueueDeadLetter"
        PROVE  worker'[w].pc = "returned"
    <3>1. EnqueueDeadLetter(w) /\ Goto(w, "returned")
      BY <1>d, <2>1, NoMishap DEF Base, DispatchStep, FindById, ClaimMessage, CountAttempt,
         Throttle, SendSms, RecordSent, RecordFatalFailure, EnqueueDeadLetter
    <3>2. QED
      BY <1>t, <3>1 DEF Goto, TypeOK, Worker
  <2>2. worker[w].pc # "returned"
    BY NoMishap DEF Base, DispatchStep, FindById, ClaimMessage, CountAttempt, Throttle, SendSms,
       RecordSent, RecordFatalFailure, EnqueueDeadLetter
  <2>3. QED
    BY <2>1, <2>2 DEF SettledPcs
<1>1. \A j \in JobIds : Promises(j)' => Promises(j)
  BY <1>d, <1>b DEF Promises
<1>2. ASSUME Waits(n), Promised(n)' \/ Requested(n)', n = m, WritesSent(w, m) \/ WritesFatal(w, m)
      PROVE  FALSE
  <2>1. worker[w].pc \notin SettledPcs /\ worker'[w].pc \in SettledPcs
    BY <1>d, <1>2 DEF WritesSent, WritesFatal, SettledPcs
  <2>2. job[worker[w].job].state = "active"
    BY <1>o DEF Base, OwnersActive
  <2>3. Promises(worker[w].job) /\ MessageOf(worker[w].job) = n
    BY <1>o, <1>2, <2>1, <2>2 DEF Promises, MessageOfWorker
  <2>4. ~Requested(n)
    BY <1>o, <1>t, <2>3 DEF Tokens, Promised
  <2>5. ~Requested(n)'
    BY <1>d, <2>4 DEF Requested, Asked
  <2>6. PICK j \in JobIds : MessageOf(j) = n /\ Promises(j)'
    BY <1>2, <2>5 DEF Promised
  <2>7. j = worker[w].job
    BY <1>1, <1>o, <1>t, <2>3, <2>6 DEF Tokens
  <2>8. job'[j].state = "active" /\ job'[j].owner = w
    BY <1>d, <1>o, <2>2, <2>7
  <2>9. QED
    BY <1>d, <2>1, <2>6, <2>7, <2>8 DEF Promises
<1>3. Waits(n) /\ (Promised(n)' \/ Requested(n)') => Waits(n)'
  <2>1. n # m => row'[n] = row[n]
    BY <1>w
  <2>2. n = m /\ (WritesNothing(w, m) \/ WritesClaim(w, m)) /\ Waits(n) => Waits(n)'
    BY DEF WritesNothing, SameFace, WritesClaim, Waits
  <2>3. QED
    BY <1>w, <1>2, <2>1, <2>2 DEF Waits
<1>4. \A a \in Admins : Asked(a, n)' => Asked(a, n)
  BY <1>d DEF Asked
<1>5. QED
  BY <1>t, <1>1, <1>3, <1>4, TokensKept

LEMMA TokensByQueue ==
    ASSUME Base, SystemTypeOK', Untroubled, Untroubled', OneToken, NEW w \in Workers,
           Process(w) \/ JobCompletes(w) \/ JobFails(w) \/ Crash(w), NEW n \in Messages
    PROVE  Tokens(n)'
<1>t. /\ job \in [JobIds -> Job] /\ worker \in [Workers -> Worker] /\ Tokens(n)
      /\ faults.falseStalls = 0 /\ Null \notin Workers
  BY UntroubledMeans, WorkersAssumption DEF Base, SystemTypeOK, TypeOK, OneToken
<1>k. UNCHANGED <<row, admin>>
  BY DEF Process, JobCompletes, JobFails, Crash
<1>1. ASSUME \A j \in JobIds : Promises(j)' => Promises(j)
      PROVE  Tokens(n)'
  BY <1>t, <1>k, <1>1, TokensKept DEF Asked, Waits
<1>2. CASE Process(w)
  <2>1. PICK i \in JobIds :
          /\ job[i].state = "waiting" /\ worker[w].pc = "idle"
          /\ job' = [job EXCEPT ![i].state = "active", ![i].owner = w]
          /\ worker' = [worker EXCEPT ![w] = [IdleWorker EXCEPT !.pc = "findById", !.job = i]]
    BY <1>2 DEF Process
  <2>2. Promises(i)
    BY <2>1 DEF Promises
  <2>3. ASSUME NEW j \in JobIds, j # i, Promises(j)'
        PROVE  Promises(j)
    <3>1. job'[j] = job[j] /\ \A v \in Workers : v # w => worker'[v] = worker[v]
      BY <1>t, <2>1, <2>3
    <3>2. worker[w].pc \notin SettledPcs
      BY <2>1 DEF SettledPcs
    <3>3. QED
      BY <2>3, <3>1, <3>2 DEF Promises
  <2>4. QED
    BY <1>1, <2>2, <2>3
<1>3. CASE JobCompletes(w)
  <2>1. /\ worker' = [worker EXCEPT ![w] = IdleWorker] /\ worker[w].pc = "returned"
        /\ worker[w].job \in JobIds
    BY <1>3 DEF JobCompletes, Base, SystemTypeOK, TypeOK
  <2>2. Owns(w)
    BY <1>t, <2>1 DEF Base, Footing
  <2>3. /\ job'[worker[w].job].state = "completed"
        /\ \A j \in JobIds : j # worker[w].job => job'[j] = job[j]
    BY <1>3, <1>t, <2>1, <2>2 DEF JobCompletes, Job
  <2>4. ASSUME NEW j \in JobIds, Promises(j)'
        PROVE  Promises(j)
    <3>1. j # worker[w].job /\ job'[j] = job[j]
      BY <2>3, <2>4 DEF Promises
    <3>2. \A v \in Workers : v # w => worker'[v] = worker[v]
      BY <1>t, <2>1
    <3>3. QED
      BY <2>4, <3>1, <3>2 DEF Promises
  <2>5. QED
    BY <1>1, <2>4
<1>4. ~JobFails(w) /\ ~Crash(w)
  BY NoMishap DEF Base, MannedThen, Manned, JobFails
<1>5. QED
  BY <1>2, <1>3, <1>4

LEMMA TokensByRequeue ==
    ASSUME Base, SystemTypeOK', Untroubled, Untroubled', OneToken, NEW a \in Admins,
           RequeueFind(a) \/ RequeueStep(a) \/ RequeueCrash(a), NEW n \in Messages
    PROVE  Tokens(n)'
<1>t. /\ job \in [JobIds -> Job] /\ admin \in [Admins -> Admin] /\ TypeOK
      /\ row \in [Messages -> SmsMessage] /\ Tokens(n) /\ ~ErrorHappens
  BY NoMishap DEF Base, SystemTypeOK, TypeOK, OneToken
<1>w. /\ \A k \in Messages : row'[k] # row[k] => k = admin[a].message
      /\ UNCHANGED row \/ Reopens(a) \/ admin[a].pc = "restore"
      /\ \A b \in Admins : b # a => admin'[b] = admin[b]
      /\ UNCHANGED worker
  BY <1>t, RequeueWrites
<1>r. ~RequeueRestore(a)
  BY UntroubledMeans DEF Base, Footing, RequeueRestore
<1>1. CASE RequeueFind(a)
  <2>1. admin'[a].pc = "transition" /\ UNCHANGED <<row, job>>
    BY <1>1, <1>t DEF RequeueFind
  <2>2. \A b \in Admins : Asked(b, n)' => Asked(b, n)
    BY <1>w, <2>1 DEF Asked
  <2>3. QED
    BY <1>t, <1>w, <2>1, <2>2, TokensKept DEF Promises, Waits
<1>2. CASE RequeueTransition(a)
  <2>u. UNCHANGED job
    BY <1>2 DEF RequeueTransition
  <2>1. CASE UNCHANGED row
    <3>1. admin'[a] = IdleAdmin
      <4>1. MayTransitionToQueued(row[admin[a].message]) => FALSE
        <5>1. SUFFICES ASSUME MayTransitionToQueued(row[admin[a].message]) PROVE FALSE
          OBVIOUS
        <5>2. /\ admin[a].message \in Messages
              /\ row' = [row EXCEPT ![admin[a].message] =
                            TransitionFatalFailureToQueued(row[admin[a].message])]
          BY <1>2, <1>t, <5>1 DEF RequeueTransition, TypeOK, SetRow
        <5>3. /\ row[admin[a].message].status = "FATAL_FAILURE"
              /\ row[admin[a].message] \in SmsMessage
          BY <1>t, <5>1, <5>2 DEF MayTransitionToQueued
        <5>4. TransitionFatalFailureToQueued(row[admin[a].message]).status = "QUEUED"
          BY <5>3 DEF TransitionFatalFailureToQueued, SmsMessage
        <5>5. row'[admin[a].message].status = "QUEUED"
          BY <1>t, <5>2, <5>4
        <5>6. QED
          BY <2>1, <5>3, <5>5
      <4>2. QED
        BY <1>2, <1>t, <4>1 DEF RequeueTransition
    <3>2. \A b \in Admins : Asked(b, n)' => Asked(b, n)
      BY <1>w, <3>1 DEF Asked, IdleAdmin
    <3>3. QED
      BY <1>t, <1>w, <2>u, <2>1, <3>2, TokensKept DEF Promises, Waits
  <2>2. CASE Reopens(a)
    <3> DEFINE m == admin[a].message
    <3>1. admin'[a].message = m /\ row[m].status = "FATAL_FAILURE" /\ row'[m].status = "QUEUED"
      BY <1>t, <1>2, <2>2 DEF RequeueTransition, Reopens, Admin, MayTransitionToQueued
    <3>2. CASE n # m
      <4>1. row'[n] = row[n] /\ ~Asked(a, n)'
        BY <1>w, <3>1, <3>2 DEF Asked
      <4>2. \A b \in Admins : Asked(b, n)' => Asked(b, n)
        BY <1>w, <4>1 DEF Asked
      <4>3. QED
        BY <1>t, <1>w, <2>u, <4>1, <4>2, TokensKept DEF Promises, Waits
    <3>3. CASE n = m
      <4>1. ~Promised(n) /\ ~Requested(n)
        BY <1>t, <3>1, <3>3 DEF Tokens, Waits
      <4>2. ~Promised(n)'
        BY <1>w, <2>u, <4>1 DEF Promised, Promises
      <4>3. \A b \in Admins : Asked(b, n)' => b = a
        BY <1>w, <4>1 DEF Requested, Asked
      <4>4. \A j \in JobIds : MessageOf(j) = n => ~Promises(j)'
        BY <4>2 DEF Promised
      <4>5. Waits(n)'
        BY <3>1, <3>3 DEF Waits
      <4>6. QED
        BY <4>2, <4>3, <4>4, <4>5 DEF Tokens
    <3>4. QED
      BY <3>2, <3>3
  <2>3. QED
    BY <1>2, <1>w, <2>1, <2>2 DEF RequeueTransition
<1>3. CASE PublishRequeue(a)
  <2> DEFINE m == admin[a].message
  <2>1. /\ admin[a].pc = "requeueSms" /\ m \in Messages /\ admin'[a] = IdleAdmin
        /\ UNCHANGED row
    BY <1>3, <1>t DEF PublishRequeue, TypeOK
  <2>2. PICK g \in 1 .. MaxRequeues : job' = [job EXCEPT ![<<m, g>>] = PublishedJob]
    BY <1>3 DEF PublishRequeue
  <2>3. \A j \in JobIds : MessageOf(j) # m \/ j # <<m, g>> => job'[j] = job[j]
    BY <1>t, <2>2 DEF MessageOf
  <2>4. \A b \in Admins : Asked(b, n)' => Asked(b, n) /\ b # a
    BY <1>w, <2>1 DEF Asked, IdleAdmin
  <2>5. CASE n # m
    <3>1. \A j \in JobIds : MessageOf(j) = n /\ Promises(j)' => Promises(j)
      BY <1>w, <2>3, <2>5 DEF Promises
    <3>2. QED
      BY <1>t, <2>1, <2>4, <3>1, TokensKept DEF Waits
  <2>6. CASE n = m
    <3>1. Asked(a, n) /\ Requested(n)
      BY <2>1, <2>6 DEF Asked, Requested
    <3>2. ~Promised(n) /\ Waits(n)
      BY <1>t, <3>1 DEF Tokens
    <3>3. \A j \in JobIds : MessageOf(j) = n /\ Promises(j)' => j = <<m, g>>
      BY <1>w, <2>3, <3>2 DEF Promised, Promises
    <3>4. ~Requested(n)'
      BY <1>t, <2>4, <3>1 DEF Requested, Tokens
    <3>5. Waits(n)'
      BY <2>1, <3>2 DEF Waits
    <3>6. QED
      BY <3>3, <3>4, <3>5 DEF Tokens, Requested
  <2>7. QED
    BY <2>5, <2>6
<1>4. QED
  BY <1>r, <1>1, <1>2, <1>3, NoMishap DEF Base, RequeueStep

LEMMA TokensByCreator ==
    ASSUME Base, SystemTypeOK', Untroubled, Untroubled', OneToken, NEW c \in Messages,
           CreatorStep(c) \/ AbandonPublication(c), NEW n \in Messages
    PROVE  Tokens(n)'
<1>t. /\ job \in [JobIds -> Job] /\ Tokens(n)
      /\ <<c, 0>> \in JobIds /\ MessageOf(<<c, 0>>) = c
  BY FirstJob DEF Base, SystemTypeOK, TypeOK, OneToken
<1>u. /\ UNCHANGED <<worker, admin, row>> /\ Publish(c)
      /\ \A j \in JobIds : j # <<c, 0>> => job'[j] = job[j]
  BY CreatorChanges, CreatorsSucceed DEF Base
<1>1. \A a \in Admins : Asked(a, n)' <=> Asked(a, n)
  BY <1>u DEF Asked
<1>2. CASE n # c
  <2>1. \A j \in JobIds : MessageOf(j) = n /\ Promises(j)' => Promises(j)
    BY <1>t, <1>u, <1>2 DEF Promises
  <2>2. QED
    BY <1>t, <1>u, <1>1, <2>1, TokensKept DEF Waits
<1>3. CASE n = c
  <2>1. ~Started(<<c, 0>>)
    BY <1>u DEF Publish, Base, Origins, CreatorKnows
  <2>2. /\ \A j \in JobIds : MessageOf(j) = n => ~Started(j)
        /\ \A a \in Admins : admin[a].pc # "idle" => admin[a].message # n
        /\ row[n].status = IF Refused(n) THEN "FAILED" ELSE "QUEUED"
    BY <1>3, <2>1 DEF Base, Origins, Unstarted
  <2>3. \A j \in JobIds : MessageOf(j) = n /\ Promises(j)' => j = <<c, 0>>
    BY <1>u, <2>2 DEF Started, Promises
  <2>4. \A a \in Admins : ~Asked(a, n)'
    BY <1>1, <2>2 DEF Asked
  <2>5. Waits(n)'
    BY <1>u, <1>3, <2>2 DEF Waits, Refused, Publish
  <2>6. QED
    BY <2>3, <2>4, <2>5 DEF Tokens, Requested
<1>4. QED
  BY <1>2, <1>3

LEMMA TokensByHandler ==
    ASSUME Base, Untroubled, OneToken, Truths, NEW h \in Handlers,
           FindReported(h) \/ HandlerStep(h), NEW n \in Messages
    PROVE  Tokens(n)'
<1>1. UNCHANGED <<job, worker, admin, creator>> /\ Tokens(n)
  BY HandlerChanges DEF Base, OneToken
<1>2. Quiet(n)
  <2>1. Apart /\ faults.errors = 0 /\ faults.crashes = 0
    BY UntroubledMeans DEF Base
  <2>2. ~Refused(n)
    BY <2>1 DEF Base, Origins, CreatorKnows, Refused
  <2>3. QED
    BY <2>1, <2>2 DEF Quiet
<1>3. Waits(n) => Waits(n)'
  BY <1>2, ReportWrites DEF Truths, Waits, Undelivered
<1>4. QED
  BY <1>1, <1>3, TokensKept DEF Promises, Asked

LEMMA OneTokenStep ==
    ASSUME Base, SystemTypeOK', OneToken, Truths, [SystemNext]_systemVars
    PROVE  OneToken'
<1> SUFFICES ASSUME Untroubled', NEW n \in Messages
             PROVE  Tokens(n)'
  BY DEF OneToken
<1>1. Untroubled /\ Tokens(n)
  BY CalmBefore DEF Base, OneToken
<1>2. CASE SystemRest \/ UNCHANGED systemVars
  BY <1>1, <1>2, TokensKept DEF SystemRest, systemVars, vars, Promises, Asked, Waits
<1>3. ASSUME NEW j \in JobIds
      PROVE  ~RecoverStalledJob(j) /\ ~FalseStall(j)
  BY <1>1, NoMishap DEF Base, RecoverStalledJob, MannedThen, Manned, Works
<1>4. QED
  BY <1>1, <1>2, <1>3, TokensByDispatch, TokensByQueue, TokensByRequeue, TokensByCreator,
     TokensByHandler DEF SystemNext, DispatchActivity, Activity, WorkerStep

LEMMA AlwaysTruths == SystemSpec => [](Base /\ OneToken /\ Truths)
<1>1. SystemInit => OneToken /\ Truths
  <2> SUFFICES ASSUME SystemInit, NEW m \in Messages PROVE Tokens(m) /\ Truth(m)
    BY DEF OneToken, Truths
  <2>1. /\ \A j \in JobIds : ~Promises(j)
        /\ \A a \in Admins : ~Asked(a, m)
    BY DEF SystemInit, Undispatched, AbsentJob, Promises, Asked, IdleAdmin
  <2>2. Tokens(m)
    BY <2>1 DEF Tokens, Promised, Requested
  <2>3. /\ row[m].status = "QUEUED" /\ row[m].providerMessageId = Null
        /\ row[m].deliveredAt = "unset"
        /\ \A w \in Workers : worker[w].pc = "idle"
        /\ \A h \in Handlers : handler[h] = IdleHandler
    BY DEF SystemInit, Undispatched, QueuedMessage, IdleWorker
  <2>4. Truth(m)
    BY <2>3 DEF Truth, ClaimStands, IdTold, ReportsFind, DeliveredTimeAgrees, Undelivered,
       DispatchPcs
  <2>5. QED
    BY <2>2, <2>4
<1>2. Base /\ Base' /\ OneToken /\ Truths /\ [SystemNext]_systemVars => (OneToken /\ Truths)'
  BY OneTokenStep, TruthsStep DEF Base
<1>3. QED
  BY <1>1, <1>2, AlwaysBase, PTL DEF SystemSpec

LEMMA MeetOrQuiet ==
    ASSUME Base, NEW m \in Messages
    PROVE  WritersMayMeet(m) \/ Quiet(m)
<1>1. /\ faults.falseStalls \in Nat /\ faults.requeues \in Nat
      /\ faults.errors \in Nat /\ faults.crashes \in Nat
  BY DEF Base, SystemTypeOK, TypeOK
<1>2. CASE ~Apart
  <2>1. \/ faults.falseStalls # 0
        \/ faults.requeues # 0 /\ (faults.errors # 0 \/ faults.crashes # 0)
    BY <1>2 DEF Apart
  <2>2. \/ faults.falseStalls > 0
        \/ faults.requeues > 0 /\ faults.errors + faults.crashes > 0
    BY ONLY <1>1, <2>1
  <2>3. QED
    BY <2>2 DEF WritersMayMeet
<1>3. QED
  BY <1>2 DEF Quiet, WritersMayMeet, PublishedInDoubt, Refused, Started

(***************************************************************************)
(* What a row says of its outcome is true unless writers of it meet:       *)
(* FAILED without an external id means that the publication was refused,   *)
(* FAILED with one that a provider said so, and only a delivered message   *)
(* has a delivery time.                                                    *)
(***************************************************************************)
THEOREM OutcomeTold == SystemSpec => []OutcomeIsTold
<1>1. Base /\ OneToken /\ Truths => OutcomeIsTold
  <2> SUFFICES ASSUME Base, Truths, NEW m \in Messages, ~WritersMayMeet(m)
               PROVE  FailuresToldApart(m) /\ DeliveredTimeAgrees(m)
    BY DEF OutcomeIsTold
  <2>1. Truth(m)
    BY MeetOrQuiet DEF Truths
  <2>2. QED
    BY <2>1 DEF Truth, IdTold, Undelivered, Refused, FailuresToldApart
<1>2. QED
  BY <1>1, AlwaysTruths, PTL

(* The moves of DeliveryLifecycle, as pairs of statuses. *)
PromisedMoves ==
    {<<"QUEUED", "PROCESSING">>, <<"PROCESSING", "SENT">>,
     <<"PROCESSING", "FATAL_FAILURE">>, <<"FATAL_FAILURE", "QUEUED">>}
        \cup ({"SENT"} \X DELIVERY_TERMINAL_STATUSES)
        \cup (DELIVERY_FAILURE_STATUSES \X {"DELIVERED"})
MovesRow(m) ==
    /\ \A n \in Messages : n # m => row'[n] = row[n]
    /\ \/ row'[m].status = row[m].status
       \/ <<row[m].status, row'[m].status>> \in PromisedMoves
       \/ row[m].status = "QUEUED" /\ row'[m].status = "FAILED" /\ creator[m] = "markFailed"
       \/ row'[m] # row[m] /\ WritersMayMeet(m)

LEMMA RowMoves ==
    ASSUME Base, OneToken, Truths, SystemNext
    PROVE  UNCHANGED row \/ \E m \in Messages : MovesRow(m)
<1>t. TypeOK
  BY DEF Base, SystemTypeOK
<1>1. ASSUME NEW w \in Workers, DispatchStep(w) \/ CallThrows(w)
      PROVE  \E m \in Messages : MovesRow(m)
  <2> SUFFICES ASSUME NEW m, m = MessageOfWorker(w) PROVE \E k \in Messages : MovesRow(k)
    OBVIOUS
  <2>1. /\ m \in Messages
        /\ \A n \in Messages : n # m => row'[n] = row[n]
        /\ \/ WritesNothing(w, m) \/ WritesClaim(w, m) \/ WritesSent(w, m)
           \/ WritesFatal(w, m) \/ FailsToWrite(w, m)
    BY <1>t, <1>1, DispatchWrites
  <2>2. CASE WritesNothing(w, m) \/ FailsToWrite(w, m)
    BY <2>1, <2>2 DEF MovesRow, WritesNothing, SameFace, FailsToWrite
  <2>3. CASE WritesClaim(w, m)
    <3>1. row'[m].status = "PROCESSING" /\ row[m].status \in {"QUEUED", "PROCESSING"}
      BY <2>3 DEF WritesClaim, Waits
    <3>2. QED
      BY <2>1, <3>1 DEF MovesRow, PromisedMoves
  <2>4. CASE WritesSent(w, m) \/ WritesFatal(w, m)
    <3>1. /\ worker[w].pc \in DispatchPcs /\ row'[m].status \in {"SENT", "FATAL_FAILURE"}
      BY <2>4 DEF WritesSent, WritesFatal, DispatchPcs
    <3>2. CASE row[m].status = "PROCESSING"
      BY <2>1, <3>1, <3>2 DEF MovesRow, PromisedMoves
    <3>3. CASE row[m].status # "PROCESSING"
      <4>1. ~Truth(m)
        BY <3>1, <3>3 DEF Truth, ClaimStands
      <4>2. WritersMayMeet(m)
        BY <2>1, <4>1, MeetOrQuiet DEF Truths
      <4>3. QED
        BY <2>1, <4>2 DEF MovesRow
    <3>4. QED
      BY <3>2, <3>3
  <2>5. QED
    BY <2>1, <2>2, <2>3, <2>4
<1>2. ASSUME NEW a \in Admins, RequeueFind(a) \/ RequeueStep(a) \/ RequeueCrash(a), row' # row
      PROVE  \E m \in Messages : MovesRow(m)
  <2>1. /\ \A k \in Messages : row'[k] # row[k] => k = admin[a].message
        /\ Reopens(a) \/ admin[a].pc = "restore"
    BY <1>t, <1>2, RequeueWrites
  <2>2. admin[a].message \in Messages
    BY <1>t, <2>1 DEF TypeOK, Reopens, RequeueTransition
  <2>3. CASE Reopens(a)
    BY <2>1, <2>2, <2>3 DEF Reopens, MovesRow, PromisedMoves
  <2>4. CASE admin[a].pc = "restore"
    <3>1. ~Apart
      BY <2>4 DEF Base, Footing, Apart
    <3>2. WritersMayMeet(admin[a].message)
      BY <2>2, <3>1, MeetOrQuiet DEF Quiet
    <3>3. QED
      BY <2>1, <2>2, <3>2 DEF MovesRow
  <2>5. QED
    BY <2>1, <2>3, <2>4
<1>3. ASSUME NEW c \in Messages, CreatorStep(c) \/ AbandonPublication(c)
      PROVE  UNCHANGED row \/ \E m \in Messages : MovesRow(m)
  <2>1. CASE ~RefusePublication(c)
    BY <1>3, <2>1 DEF CreatorStep, Publish, PublishFails, AbandonPublication
  <2>2. CASE RefusePublication(c)
    <3>1. \A n \in Messages : n # c => row'[n] = row[n]
      BY <1>3, CreatorChanges DEF Base
    <3>2. creator[c] = "markFailed" /\ row'[c] = MarkQueuePublishFailed(row[c])
          /\ row[c] \in SmsMessage
      BY <1>t, <2>2 DEF RefusePublication, SetRow, TypeOK
    <3>3. row'[c].status = "FAILED"
      BY <3>2 DEF MarkQueuePublishFailed, SmsMessage
    <3>4. CASE Started(<<c, 0>>)
      BY <3>1, <3>2, <3>4 DEF MovesRow, WritersMayMeet, PublishedInDoubt, Started
    <3>5. CASE ~Started(<<c, 0>>)
      BY <3>1, <3>2, <3>3, <3>5 DEF Base, Origins, Unstarted, Refused, MovesRow
    <3>6. QED
      BY <3>4, <3>5
  <2>3. QED
    BY <2>1, <2>2
<1>4. ASSUME NEW h \in Handlers, FindReported(h) \/ HandlerStep(h), row' # row
      PROVE  \E m \in Messages : MovesRow(m)
  <2>1. /\ \A n \in Messages : row'[n] # row[n] => n = handler[h].message
        /\ handler[h] # IdleHandler
    BY <1>4, HandlerChanges DEF Base, FindReported, HandlerStep, ApplyReport, HandlerFails
  <2> DEFINE m == handler[h].message
  <2>2. m \in Messages
    BY <2>1 DEF Base, SystemTypeOK
  <2>3. CASE row'[m] = row[m]
    BY <2>1, <2>2, <2>3 DEF MovesRow
  <2>4. CASE row'[m] # row[m] /\ WritersMayMeet(m)
    BY <2>1, <2>2, <2>4 DEF MovesRow
  <2>5. CASE row'[m] # row[m] /\ ~WritersMayMeet(m)
    <3>1. Quiet(m) /\ Truth(m)
      BY <2>2, <2>5, MeetOrQuiet DEF Truths
    <3>2. <<row[m].status, row'[m].status>> \in PromisedMoves
      <4>1. \/ row[m].status = "SENT" /\ row'[m].status \in DELIVERY_TERMINAL_STATUSES
            \/ row[m].status \in DELIVERY_FAILURE_STATUSES /\ row'[m].status = "DELIVERED"
        BY <1>4, <2>2, <2>5, <3>1, ReportWrites
      <4>2. QED
        BY <4>1 DEF PromisedMoves
    <3>3. QED
      BY <2>1, <2>2, <3>2 DEF MovesRow
  <2>6. QED
    BY <2>3, <2>4, <2>5
<1>5. ASSUME NEW w \in Workers, Process(w) \/ JobCompletes(w) \/ JobFails(w) \/ Crash(w)
      PROVE  UNCHANGED row
  BY <1>5 DEF Process, JobCompletes, JobFails, Crash
<1>6. ASSUME NEW j \in JobIds, RecoverStalledJob(j) \/ FalseStall(j)
      PROVE  UNCHANGED row
  BY <1>6 DEF RecoverStalledJob, FalseStall
<1>7. CASE SystemRest
  BY <1>7 DEF SystemRest, systemVars, vars
<1>8. QED
  BY <1>1, <1>2, <1>3, <1>4, <1>5, <1>6, <1>7
     DEF SystemNext, DispatchActivity, Activity, WorkerStep

(***************************************************************************)
(* The system implements the lifecycle of DeliveryLifecycle, but for a     *)
(* refused publication and for the rows whose writers may meet: whatever   *)
(* workers, requeues, creators and callbacks do, and in whatever order.    *)
(***************************************************************************)
THEOREM StatusMoves == SystemSpec => StatusMovesAsPromised
<1> DEFINE bar == [m \in Messages |-> row[m].status]
           Allowed == \/ Delivery!DeliveryNext
                      \/ \E m \in Messages :
                           \/ Delivery!Move(m, "QUEUED", "FAILED") /\ creator[m] = "markFailed"
                           \/ row'[m] # row[m] /\ WritersMayMeet(m)
<1>1. Base /\ OneToken /\ Truths /\ [SystemNext]_systemVars => [Allowed]_bar
  <2> SUFFICES ASSUME Base, OneToken, Truths, [SystemNext]_systemVars
               PROVE  Allowed \/ bar' = bar
    OBVIOUS
  <2>1. CASE UNCHANGED row
    BY <2>1
  <2>2. ASSUME NEW m \in Messages, MovesRow(m)
        PROVE  Allowed \/ bar' = bar
    <3>1. CASE row'[m].status = row[m].status
      BY <2>2, <3>1 DEF MovesRow
    <3>2. CASE row'[m] # row[m] /\ WritersMayMeet(m)
      BY <3>2
    <3>m. ASSUME NEW from, NEW to, row[m].status = from, row'[m].status = to
          PROVE  Delivery!Move(m, from, to)
      BY <2>2, <3>m DEF MovesRow, Delivery!Move
    <3>3. CASE row[m].status = "QUEUED" /\ row'[m].status = "FAILED" /\ creator[m] = "markFailed"
      BY <3>m, <3>3
    <3>4. CASE <<row[m].status, row'[m].status>> \in PromisedMoves
      <4>2. CASE row[m].status = "SENT" /\ row'[m].status \in DELIVERY_TERMINAL_STATUSES
        <5>1. PICK s \in DELIVERY_TERMINAL_STATUSES : row'[m].status = s
          BY <4>2
        <5>2. Delivery!Move(m, "SENT", s)
          BY <3>m, <4>2, <5>1
        <5>3. Delivery!Settle(m)
          BY <5>1, <5>2 DEF Delivery!Settle, Delivery!Failures, DELIVERY_TERMINAL_STATUSES,
             DELIVERY_FAILURE_STATUSES
        <5>4. QED
          BY <5>3 DEF Delivery!DeliveryNext
      <4>3. CASE row[m].status \in DELIVERY_FAILURE_STATUSES /\ row'[m].status = "DELIVERED"
        <5>1. PICK s \in DELIVERY_FAILURE_STATUSES : row[m].status = s
          BY <4>3
        <5>2. Delivery!Move(m, s, "DELIVERED")
          BY <3>m, <4>3, <5>1
        <5>3. Delivery!Upgrade(m)
          BY <5>1, <5>2 DEF Delivery!Upgrade, Delivery!Failures, DELIVERY_FAILURE_STATUSES
        <5>4. QED
          BY <5>3 DEF Delivery!DeliveryNext
      <4>4. CASE <<row[m].status, row'[m].status>> \in
                    {<<"QUEUED", "PROCESSING">>, <<"PROCESSING", "SENT">>,
                     <<"PROCESSING", "FATAL_FAILURE">>, <<"FATAL_FAILURE", "QUEUED">>}
        <5>1. \/ Delivery!Move(m, "QUEUED", "PROCESSING")
              \/ Delivery!Move(m, "PROCESSING", "SENT")
              \/ Delivery!Move(m, "PROCESSING", "FATAL_FAILURE")
              \/ Delivery!Move(m, "FATAL_FAILURE", "QUEUED")
          BY <3>m, <4>4
        <5>2. \/ Delivery!Claim(m) \/ Delivery!Send(m)
              \/ Delivery!Exhaust(m) \/ Delivery!Requeue(m)
          BY <5>1 DEF Delivery!Claim, Delivery!Send, Delivery!Exhaust, Delivery!Requeue
        <5>3. QED
          BY <5>2 DEF Delivery!DeliveryNext, Delivery!Next
      <4>5. QED
        BY <3>4, <4>2, <4>3, <4>4 DEF PromisedMoves
    <3>5. QED
      BY <2>2, <3>1, <3>2, <3>3, <3>4 DEF MovesRow
  <2>3. QED
    BY <2>1, <2>2, RowMoves DEF systemVars, vars
<1> HIDE DEF bar
<1>2. SystemSpec => [][Allowed]_bar
  <2> HIDE DEF Allowed
  <2>1. QED
    BY <1>1, AlwaysTruths, PTL DEF SystemSpec
<1>3. [Allowed]_bar => [Allowed]_<<bar>>
  OBVIOUS
<1>4. QED
  BY <1>2, <1>3, PTL DEF StatusMovesAsPromised, bar

-----------------------------------------------------------------------------
(***************************************************************************)
(* What the providers know of a message and what the row says of it agree, *)
(* as long as nothing fails: a message that waits or was exhausted was not *)
(* accepted, but for the moment before markSent; any other was, once, and  *)
(* carries the id. A provider with a key keeps no id of its own accord.    *)
(***************************************************************************)
SendsMark(w, m) == worker[w].pc = "markSent" /\ MessageOfWorker(w) = m
WaitsUnaccepted(m) == Waits(m) => accepted[m] = 0 \/ \E w \in Workers : SendsMark(w, m)
MarksFirst(m) ==
    \A w \in Workers : SendsMark(w, m) => accepted[m] = 1 /\ worker[w].pid = 1
Recorded(m) ==
    /\ row[m].status = "FATAL_FAILURE" => accepted[m] = 0
    /\ row[m].status \notin Undelivered =>
            accepted[m] = 1 /\ row[m].providerMessageId = 1
KeyUnused(m) == accepted[m] = 0 => \A p \in KeyedProviders : keyed[m][p] = Null
Account(m) == WaitsUnaccepted(m) /\ MarksFirst(m) /\ Recorded(m) /\ KeyUnused(m)
Accounts == Untroubled => \A m \in Messages : Account(m)

(* Steps after which the same workers are about to run markSent on n. *)
LEMMA AccountKept ==
    ASSUME NEW n, Account(n), UNCHANGED <<accepted[n], keyed[n]>>,
           row'[n].providerMessageId = row[n].providerMessageId,
           \/ row'[n].status = row[n].status
           \/ Waits(n) /\ row'[n].status = "PROCESSING"
           \/ row[n].status = "FATAL_FAILURE" /\ row'[n].status = "QUEUED"
           \/ row[n].status \notin Undelivered /\ row'[n].status \notin Undelivered,
           \A w \in Workers : SendsMark(w, n)' <=> SendsMark(w, n),
           \A w \in Workers : SendsMark(w, n) => worker'[w].pid = worker[w].pid
    PROVE  Account(n)'
<1>1. WaitsUnaccepted(n)'
  BY DEF Account, WaitsUnaccepted, Waits, Recorded, Undelivered
<1>2. MarksFirst(n)'
  BY DEF Account, MarksFirst
<1>3. Recorded(n)'
  BY DEF Account, Recorded, Waits, Undelivered
<1>4. KeyUnused(n)'
  BY DEF Account, KeyUnused
<1>5. QED
  BY <1>1, <1>2, <1>3, <1>4 DEF Account

(* Nobody else is about to record a send of the message a worker is at. *)
LEMMA NoOtherMark ==
    ASSUME Base, OneToken, Untroubled, NEW m \in Messages, NEW w \in Workers,
           worker[w].pc \in BusyPcs, worker[w].pc # "markSent", MessageOfWorker(w) = m
    PROVE  \A v \in Workers : ~SendsMark(v, m)
<1>1. Apart /\ "markSent" \in BusyPcs
  BY UntroubledMeans, DispatchersBusy DEF Base, DispatchPcs
<1>2. QED
  BY <1>1, SoleWorker DEF SendsMark

(* Without faults rows are quiet and what they say is true. *)
LEMMA UntroubledTruth ==
    ASSUME Base, Truths, Untroubled, NEW m \in Messages
    PROVE  Apart /\ ~Refused(m) /\ Quiet(m) /\ Truth(m)
<1>1. Apart /\ faults.errors = 0 /\ faults.crashes = 0
  BY UntroubledMeans DEF Base
<1>2. ~Refused(m)
  BY <1>1 DEF Base, Origins, CreatorKnows, Refused
<1>3. QED
  BY <1>1, <1>2 DEF Quiet, Truths

(* The first send a provider accepts is the only one. *)
LEMMA AccountBySend ==
    ASSUME Base, SystemTypeOK', Untroubled, Untroubled', OneToken, Truths, NEW w \in Workers,
           SendSms(w), NEW m \in Messages, m = MessageOfWorker(w), Account(m)
    PROVE  Account(m)'
<1>t. /\ worker \in [Workers -> Worker] /\ worker[w] \in Worker
      /\ accepted \in [Messages -> Nat]
      /\ keyed \in [Messages -> [KeyedProviders -> Nat \cup {Null}]]
      /\ ~ErrorHappens /\ worker[w].pc = "sendSms" /\ UNCHANGED row
  BY NoMishap DEF Base, SystemTypeOK, TypeOK, SendSms
<1>1. row[m].status = "PROCESSING"
  BY <1>t, UntroubledTruth DEF Truth, ClaimStands, DispatchPcs
<1>2. \A v \in Workers : ~SendsMark(v, m)
  BY <1>t, NoOtherMark, DispatchersBusy DEF DispatchPcs
<1>3. accepted[m] = 0 /\ \A p \in KeyedProviders : keyed[m][p] = Null
  BY <1>1, <1>2 DEF Account, WaitsUnaccepted, KeyUnused, Waits
<1>4. ASSUME NEW pid, Accepts(m, ProviderOfWorker(w), pid),
             worker' = [worker EXCEPT ![w].pc = "markSent", ![w].pid = pid]
      PROVE  Account(m)'
  <2>1. pid = 1 /\ accepted'[m] = 1
    BY <1>t, <1>3, <1>4 DEF Accepts
  <2>2. worker' = [worker EXCEPT ![w] = [worker[w] EXCEPT !.pc = "markSent", !.pid = 1]]
    BY <1>t, <1>4, <2>1
  <2>3. /\ worker'[w] = [worker[w] EXCEPT !.pc = "markSent", !.pid = 1]
        /\ \A v \in Workers : v # w => worker'[v] = worker[v]
    BY <1>t, <2>2
  <2>4. worker'[w].pc = "markSent" /\ worker'[w].pid = 1 /\ worker'[w].job = worker[w].job
    BY <1>t, <2>3 DEF Worker
  <2>5. SendsMark(w, m)'
    BY <2>4 DEF SendsMark, MessageOfWorker
  <2>6. \A v \in Workers : SendsMark(v, m)' => v = w
    BY <1>2, <2>3 DEF SendsMark, MessageOfWorker
  <2>7. QED
    BY <1>t, <1>1, <2>1, <2>4, <2>5, <2>6
       DEF Account, WaitsUnaccepted, MarksFirst, Recorded, KeyUnused, Undelivered
<1>5. ASSUME NEW r \in BOOLEAN, AfterFailedSend(w, r), UNCHANGED <<accepted, keyed>>
      PROVE  Account(m)'
  <2>1. \A v \in Workers : v # w => worker'[v] = worker[v]
    BY <1>t, <1>5 DEF AfterFailedSend
  <2>2. worker'[w].pc # "markSent"
    BY <1>t, <1>5 DEF AfterFailedSend, Worker
  <2>3. \A v \in Workers : ~SendsMark(v, m)'
    BY <1>2, <2>1, <2>2 DEF SendsMark, MessageOfWorker
  <2>4. QED
    BY <1>t, <1>2, <1>5, <2>3, AccountKept
<1>6. QED
  BY <1>t, <1>4, <1>5 DEF SendSms

(* A step of a worker leaves what the providers know of the others alone. *)
LEMMA OtherAccounts ==
    ASSUME TypeOK, NEW w \in Workers, DispatchStep(w) \/ CallThrows(w), NEW n \in Messages,
           n # MessageOfWorker(w), Account(n)
    PROVE  Account(n)'
<1>d. /\ worker[w].pc # "idle" /\ worker'[w].pc # "idle"
      /\ \A v \in Workers : v # w => worker'[v] = worker[v]
      /\ worker'[w].job = worker[w].job
  BY DispatchMoves
<1>1. row'[n] = row[n]
  <2> SUFFICES ASSUME NEW m, m = MessageOfWorker(w), n # m PROVE row'[n] = row[n]
    OBVIOUS
  <2>1. QED
    BY DispatchWrites
<1>2. UNCHANGED <<accepted[n], keyed[n]>>
  <2>1. CASE SendSms(w)
    BY <2>1 DEF TypeOK, SendSms, Accepts
  <2>2. CASE ~SendSms(w)
    BY <2>2 DEF DispatchStep, FindById, ClaimMessage, CountAttempt, Throttle, RecordSent,
       RecordFatalFailure, EnqueueDeadLetter, CallThrows, outside
  <2>3. QED
    BY <2>1, <2>2
<1>3. \A v \in Workers : SendsMark(v, n)' \/ SendsMark(v, n) => worker'[v] = worker[v]
  BY <1>d DEF SendsMark, MessageOfWorker
<1>4. \A v \in Workers : SendsMark(v, n)' <=> SendsMark(v, n)
  BY <1>3 DEF SendsMark, MessageOfWorker
<1>5. QED
  BY <1>1, <1>2, <1>3, <1>4, AccountKept

LEMMA AccountByDispatch ==
    ASSUME Base, SystemTypeOK', Untroubled, Untroubled', OneToken, Truths,
           NEW w \in Workers, DispatchStep(w) \/ CallThrows(w), NEW n \in Messages, Account(n)
    PROVE  Account(n)'
<1> SUFFICES ASSUME NEW m, m = MessageOfWorker(w) PROVE Account(n)'
  OBVIOUS
<1>t. /\ TypeOK /\ worker \in [Workers -> Worker]
      /\ worker[w].pc = "markSent" => worker[w].pid \in Nat
  BY DEF Base, SystemTypeOK, TypeOK
<1>s. DispatchStep(w) /\ worker'[w].pc # "threw"
  BY NobodyThrows DEF Base
<1>d. /\ worker[w].pc # "idle" /\ worker'[w].pc # "idle"
      /\ \A v \in Workers : v # w => worker'[v] = worker[v]
      /\ worker'[w].job = worker[w].job
  BY <1>t, DispatchMoves
<1>w. /\ m \in Messages
      /\ \A k \in Messages : k # m => row'[k] = row[k]
      /\ \/ WritesNothing(w, m) \/ WritesClaim(w, m) \/ WritesSent(w, m)
         \/ WritesFatal(w, m)
  BY <1>t, <1>s, DispatchWrites DEF FailsToWrite
<1>1. CASE n # m
  BY <1>t, <1>1, OtherAccounts
<1>2. CASE n = m /\ SendSms(w)
  BY <1>2, AccountBySend
<1>3. CASE n = m /\ ~SendSms(w)
  <2>1. worker[w].pc # "sendSms" /\ UNCHANGED <<accepted, keyed>>
    BY <1>s, <1>3 DEF DispatchStep, FindById, ClaimMessage, CountAttempt, Throttle, RecordSent,
       RecordFatalFailure, EnqueueDeadLetter, outside
  <2>2. ASSUME worker[w].pc # "markSent", worker'[w].pc # "markSent"
        PROVE  /\ \A v \in Workers : SendsMark(v, m)' \/ SendsMark(v, m) => worker'[v] = worker[v]
               /\ \A v \in Workers : SendsMark(v, m)' <=> SendsMark(v, m)
    <3>1. \A v \in Workers : SendsMark(v, m)' \/ SendsMark(v, m) => worker'[v] = worker[v]
      BY <1>d, <2>2 DEF SendsMark
    <3>2. QED
      BY <3>1 DEF SendsMark, MessageOfWorker
  <2>3. CASE WritesNothing(w, m)
    BY <1>3, <2>1, <2>2, <2>3, AccountKept DEF WritesNothing, SameFace
  <2>4. CASE WritesClaim(w, m)
    BY <1>3, <2>1, <2>2, <2>4, AccountKept DEF WritesClaim
  <2>5. CASE WritesSent(w, m)
    <3>1. SendsMark(w, m) /\ accepted[m] = 1 /\ worker[w].pid = 1
      BY <1>3, <2>5 DEF WritesSent, SendsMark, Account, MarksFirst
    <3>2. /\ row'[m].status = "SENT" /\ row'[m].providerMessageId = 1
          /\ worker'[w].pc # "markSent"
      BY <2>5, <3>1 DEF WritesSent
    <3>3. \A v \in Workers : SendsMark(v, m)' => SendsMark(v, m) /\ worker'[v] = worker[v]
      BY <1>d, <3>2 DEF SendsMark, MessageOfWorker
    <3>4. QED
      BY <1>3, <2>1, <3>1, <3>2, <3>3
         DEF Account, WaitsUnaccepted, MarksFirst, Recorded, KeyUnused, Waits, Undelivered
  <2>6. CASE WritesFatal(w, m)
    <3>1. worker[w].pc = "markFatalFailure" /\ worker'[w].pc = "enqueueDeadLetter"
      BY <1>s, <2>6 DEF WritesFatal
    <3>2. \A v \in Workers : ~SendsMark(v, m)
      BY <1>w, <3>1, NoOtherMark, DispatchersBusy DEF DispatchPcs
    <3>3. row[m].status = "PROCESSING"
      BY <1>w, <3>1, UntroubledTruth DEF Truth, ClaimStands, DispatchPcs
    <3>4. accepted'[m] = 0
      BY <1>3, <2>1, <3>2, <3>3 DEF Account, WaitsUnaccepted, Waits
    <3>5. row'[m].status = "FATAL_FAILURE"
      BY <2>6 DEF WritesFatal
    <3>6. \A v \in Workers : ~SendsMark(v, m)'
      BY <1>d, <3>1, <3>2 DEF SendsMark, MessageOfWorker
    <3>7. QED
      BY <1>3, <2>1, <3>4, <3>5, <3>6
         DEF Account, WaitsUnaccepted, MarksFirst, Recorded, KeyUnused, Waits, Undelivered
  <2>7. QED
    BY <1>w, <2>3, <2>4, <2>5, <2>6
<1>4. QED
  BY <1>1, <1>2, <1>3

LEMMA AccountByRequeue ==
    ASSUME Base, SystemTypeOK', Untroubled, Untroubled', Truths, NEW a \in Admins,
           RequeueFind(a) \/ RequeueStep(a) \/ RequeueCrash(a), NEW n \in Messages, Account(n)
    PROVE  Account(n)'
<1>t. TypeOK /\ faults.errors = 0 /\ IdTold(n) /\ ~Refused(n)
  BY UntroubledMeans, UntroubledTruth DEF Base, SystemTypeOK, Truth
<1>1. /\ \A k \in Messages : row'[k] # row[k] => k = admin[a].message
      /\ UNCHANGED row \/ Reopens(a) \/ admin[a].pc = "restore"
      /\ UNCHANGED <<worker, accepted, keyed>>
  BY <1>t, RequeueWrites
<1>2. admin[a].pc # "restore"
  BY <1>t DEF Base, Footing
<1>3. \/ row'[n] = row[n]
      \/ /\ row[n].status = "FATAL_FAILURE" /\ row'[n].status = "QUEUED"
         /\ row'[n].providerMessageId = Null
  BY <1>1, <1>2 DEF Reopens
<1>4. row'[n].providerMessageId = row[n].providerMessageId
  BY <1>t, <1>3 DEF IdTold, Undelivered
<1>5. QED
  BY <1>1, <1>3, <1>4, AccountKept DEF SendsMark, MessageOfWorker

LEMMA AccountsStep ==
    ASSUME Base, SystemTypeOK', OneToken, Truths, Accounts, [SystemNext]_systemVars
    PROVE  Accounts'
<1> SUFFICES ASSUME Untroubled', NEW n \in Messages
             PROVE  Account(n)'
  BY DEF Accounts
<1>1. Untroubled /\ Account(n)
  BY CalmBefore DEF Base, Accounts
<1>t. worker \in [Workers -> Worker]
  BY DEF Base, SystemTypeOK, TypeOK
<1>k. ASSUME row'[n].status = row[n].status \/
                (row[n].status \notin Undelivered /\ row'[n].status \notin Undelivered),
             row'[n].providerMessageId = row[n].providerMessageId,
             UNCHANGED <<worker, accepted, keyed>>
      PROVE  Account(n)'
  BY <1>1, <1>k, AccountKept DEF SendsMark, MessageOfWorker
<1>2. CASE SystemRest \/ UNCHANGED systemVars
  BY <1>2, <1>k DEF SystemRest, systemVars, vars, outside
<1>3. ASSUME NEW w \in Workers, Process(w) \/ JobCompletes(w) \/ JobFails(w)
      PROVE  Account(n)'
  <2>1. /\ UNCHANGED <<row, accepted, keyed>> /\ worker[w].pc \in {"idle", "returned", "threw"}
        /\ \A v \in Workers : v # w => worker'[v] = worker[v]
    <3>1. CASE Process(w)
      BY <1>t, <3>1 DEF Process, outside
    <3>2. CASE JobCompletes(w)
      BY <1>t, <3>2 DEF JobCompletes, outside
    <3>3. CASE JobFails(w)
      BY <1>t, <3>3 DEF JobFails, outside
    <3>4. QED
      BY <1>3, <3>1, <3>2, <3>3
  <2>2. worker'[w].pc # "markSent"
    <3>1. CASE Process(w)
      <4>1. PICK i \in JobIds :
              worker' = [worker EXCEPT ![w] = [IdleWorker EXCEPT !.pc = "findById", !.job = i]]
        BY <3>1 DEF Process
      <4>2. [IdleWorker EXCEPT !.pc = "findById", !.job = i].pc = "findById"
        BY DEF IdleWorker
      <4>3. QED
        BY <1>t, <4>1, <4>2
    <3>2. CASE JobCompletes(w) \/ JobFails(w)
      BY <1>t, <3>2 DEF JobCompletes, JobFails, IdleWorker
    <3>3. QED
      BY <1>3, <3>1, <3>2
  <2>3. \A v \in Workers : SendsMark(v, n)' \/ SendsMark(v, n) => worker'[v] = worker[v]
    BY <2>1, <2>2 DEF SendsMark
  <2>4. \A v \in Workers : SendsMark(v, n)' <=> SendsMark(v, n)
    BY <2>3 DEF SendsMark, MessageOfWorker
  <2>5. QED
    BY <1>1, <2>1, <2>3, <2>4, AccountKept
<1>4. ASSUME NEW j \in JobIds, RecoverStalledJob(j) \/ FalseStall(j)
      PROVE  Account(n)'
  BY <1>4, <1>k DEF RecoverStalledJob, FalseStall, outside
<1>5. ASSUME NEW c \in Messages, CreatorStep(c) \/ AbandonPublication(c)
      PROVE  Account(n)'
  <2>1. UNCHANGED <<row, worker, accepted, keyed>>
    BY <1>1, <1>5, CreatorsSucceed DEF Base, Publish, creatorOnly, outside
  <2>2. QED
    BY <1>k, <2>1
<1>6. ASSUME NEW h \in Handlers, FindReported(h) \/ HandlerStep(h)
      PROVE  Account(n)'
  <2>1. UNCHANGED <<worker, accepted, keyed>>
    BY <1>6 DEF FindReported, HandlerStep, ApplyReport, HandlerFails, handlerOnly, outside
  <2>2. Quiet(n) /\ Truth(n)
    BY <1>1, UntroubledTruth
  <2>3. \/ row'[n] = row[n]
        \/ /\ row[n].status \notin Undelivered /\ row'[n].status \notin Undelivered
           /\ row'[n].providerMessageId = row[n].providerMessageId
    BY <1>6, <2>2, ReportWrites
  <2>4. QED
    BY <1>k, <2>1, <2>3
<1>7. \A w \in Workers : ~Crash(w)
  BY NoMishap DEF Base
<1>8. QED
  BY <1>1, <1>2, <1>3, <1>4, <1>5, <1>6, <1>7, AccountByDispatch, AccountByRequeue
     DEF SystemNext, DispatchActivity, Activity, WorkerStep

(***************************************************************************)
(* The id a provider issued is on the row or with the worker about to run  *)
(* markSent, as long as nothing fails: no report on it finds no row but in *)
(* that one moment, whatever creators, requeues and callbacks do.          *)
(***************************************************************************)
THEOREM IssuedIdKnown == SystemSpec => []IssuedIdIsKnown
<1>1. SystemInit => Accounts
  <2> SUFFICES ASSUME SystemInit, NEW m \in Messages PROVE Account(m)
    BY DEF Accounts
  <2>1. /\ row[m].status = "QUEUED" /\ accepted[m] = 0
        /\ \A p \in KeyedProviders : keyed[m][p] = Null
        /\ \A w \in Workers : worker[w].pc = "idle"
    BY DEF SystemInit, Undispatched, QueuedMessage, IdleWorker
  <2>2. QED
    BY <2>1 DEF Account, WaitsUnaccepted, MarksFirst, Recorded, KeyUnused, SendsMark, Undelivered
<1>2. /\ Base /\ Base' /\ OneToken /\ Truths /\ Accounts /\ [SystemNext]_systemVars
      => Accounts'
  BY AccountsStep DEF Base
<1>3. Base /\ Accounts => IssuedIdIsKnown
  <2> SUFFICES ASSUME Base, Accounts, Faultless, NEW m \in Messages, NEW pid \in 1 .. accepted[m]
               PROVE  \/ row[m].providerMessageId = pid
                      \/ \E w \in Workers : /\ worker[w].pc = "markSent"
                                            /\ MessageOfWorker(w) = m /\ worker[w].pid = pid
    BY DEF IssuedIdIsKnown
  <2>1. Account(m) /\ accepted[m] \in Nat /\ accepted[m] # 0
    BY DEF Base, SystemTypeOK, TypeOK, Accounts, Faultless, Untroubled
  <2>2. CASE row[m].status \notin Undelivered
    BY <2>1, <2>2 DEF Account, Recorded
  <2>3. CASE row[m].status \in Undelivered
    <3>1. Waits(m)
      BY <2>1, <2>3 DEF Account, Recorded, Undelivered, Waits
    <3>2. PICK w \in Workers : SendsMark(w, m)
      BY <2>1, <3>1 DEF Account, WaitsUnaccepted
    <3>3. accepted[m] = 1 /\ worker[w].pid = 1
      BY <2>1, <3>2 DEF Account, MarksFirst
    <3>4. QED
      BY <3>2, <3>3 DEF SendsMark
  <2>4. QED
    BY <2>2, <2>3
<1>4. QED
  BY <1>1, <1>2, <1>3, AlwaysTruths, PTL DEF SystemSpec
=============================================================================
