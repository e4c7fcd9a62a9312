------------------------- MODULE SmsDispatch_proofs -------------------------
(***************************************************************************)
(* Theorems about SmsDispatch, for any number of messages, workers,        *)
(* requests, providers, retries and faults.                                *)
(***************************************************************************)
EXTENDS SmsDispatch, FiniteSetTheorems, TLAPS

-----------------------------------------------------------------------------
(* The UPDATE statements keep the type of a row. *)
LEMMA RowUpdates ==
    ASSUME NEW r \in SmsMessage, NEW p \in Providers \cup {Null}, NEW pid \in Nat
    PROVE  /\ MarkProcessing(r) \in SmsMessage
           /\ IncrementAttempts(r) \in SmsMessage
           /\ MarkSent(r, p, pid) \in SmsMessage
           /\ MarkFatalFailure(r, p) \in SmsMessage
           /\ TransitionFatalFailureToQueued(r) \in SmsMessage
           /\ RestoreFatalFailure(r, p) \in SmsMessage
<1>1. MarkProcessing(r) \in SmsMessage
  BY DEF SmsMessage, SmsStatuses, MarkProcessing
<1>2. IncrementAttempts(r) \in SmsMessage
  BY DEF SmsMessage, IncrementAttempts
<1>3. MarkSent(r, p, pid) \in SmsMessage
  BY DEF SmsMessage, SmsStatuses, Timestamp, MarkSent
<1>4. MarkFatalFailure(r, p) \in SmsMessage
  BY DEF SmsMessage, SmsStatuses, Timestamp, MarkFatalFailure
<1>5. TransitionFatalFailureToQueued(r) \in SmsMessage
  BY DEF SmsMessage, SmsStatuses, Timestamp, TransitionFatalFailureToQueued
<1>6. RestoreFatalFailure(r, p) \in SmsMessage
  BY DEF SmsMessage, SmsStatuses, Timestamp, RestoreFatalFailure
<1>7. QED
  BY <1>1, <1>2, <1>3, <1>4, <1>5, <1>6

(* A provider index of a worker is a position of the priority list. *)
LEMMA ProviderAt ==
    ASSUME NEW k \in 1 .. Len(ProviderOrder)
    PROVE  ProviderOrder[k] \in Providers
BY OrderAssumption

LEMMA InitialWorker == IdleWorker \in Worker /\ IdleWorker.pc = "idle"
BY OrderAssumption, RetryAssumption DEF IdleWorker, Worker, WorkerPcs

LEMMA InitialAdmin == IdleAdmin \in Admin /\ IdleAdmin.pc = "idle"
BY DEF IdleAdmin, Admin, AdminPcs

(* A job that is settled, retried or stalled keeps its type. *)
LEMMA JobUpdates ==
    ASSUME NEW x \in Job, NEW s \in JobStates
    PROVE  /\ [x EXCEPT !.state = s, !.owner = Null] \in Job
           /\ [x EXCEPT !.state = s, !.failures = x.failures + 1, !.owner = Null] \in Job
           /\ [x EXCEPT !.state = s, !.stalls = x.stalls + 1, !.owner = Null] \in Job
<1>1. x.failures + 1 \in Nat /\ x.stalls + 1 \in Nat
  BY DEF Job
<1>2. QED
  BY <1>1 DEF Job

LEMMA JobMessage ==
    ASSUME NEW j \in JobIds
    PROVE  MessageOf(j) \in Messages
BY DEF JobIds, MessageOf

LEMMA TypeInit == Init => TypeOK
BY InitialWorker, InitialAdmin, BoundAssumption
   DEF Init, Undispatched, TypeOK, QueuedMessage, SmsMessage, SmsStatuses, Timestamp, Job, JobStates,
       PublishedJob, AbsentJob, NoFaults

(* A worker that is sent on to another call keeps its type. *)
LEMMA GotoType ==
    ASSUME TypeOK, NEW w \in Workers, worker[w].pc # "idle",
           NEW pc \in WorkerPcs, pc # "markSent", Goto(w, pc)
    PROVE  /\ worker' \in [Workers -> Worker]
           /\ \A v \in Workers : worker'[v].pc # "idle" => worker'[v].job \in JobIds
           /\ \A v \in Workers : worker'[v].pc = "markSent" => worker'[v].pid \in Nat
BY DEF TypeOK, Worker, Goto

LEMMA AnsweredType ==
    ASSUME TypeOK, NEW w \in Workers, worker[w].pc # "idle",
           NEW pc \in WorkerPcs, pc # "markSent", Answered(w, pc)
    PROVE  /\ worker' \in [Workers -> Worker]
           /\ \A v \in Workers : worker'[v].pc # "idle" => worker'[v].job \in JobIds
           /\ \A v \in Workers : worker'[v].pc = "markSent" => worker'[v].pid \in Nat
           /\ faults' \in [errors: Nat, crashes: Nat, falseStalls: Nat, requeues: Nat]
<1>1. "threw" \in WorkerPcs /\ "threw" # "markSent"
  BY DEF WorkerPcs
<1>2. CASE Goto(w, pc) /\ UNCHANGED faults
  BY <1>2, GotoType DEF TypeOK
<1>3. CASE Goto(w, "threw") /\ ErrorHappens
  BY <1>1, <1>3, GotoType DEF TypeOK, ErrorHappens
<1>4. QED
  BY <1>2, <1>3 DEF Answered

-----------------------------------------------------------------------------
(* Type correctness, one lemma per actor. *)

(* An acceptance keeps the types of what the providers know. *)
LEMMA AcceptsType ==
    ASSUME TypeOK, NEW m \in Messages, NEW p \in Providers,
           NEW pid \in 1 .. (accepted[m] + 1), Accepts(m, p, pid)
    PROVE  /\ accepted' \in [Messages -> Nat]
           /\ keyed' \in [Messages -> [KeyedProviders -> Nat \cup {Null}]]
<1>1. pid \in Nat
  BY DEF TypeOK
<1>2. CASE UNCHANGED <<accepted, keyed>>
  BY <1>2 DEF TypeOK
<1>3. CASE /\ accepted' = [accepted EXCEPT ![m] = pid]
           /\ keyed' = IF p \in KeyedProviders THEN [keyed EXCEPT ![m][p] = pid] ELSE keyed
  BY <1>1, <1>3 DEF TypeOK
<1>4. QED
  BY <1>2, <1>3 DEF Accepts

LEMMA TypeDispatch ==
    ASSUME TypeOK, NEW w \in Workers, DispatchStep(w)
    PROVE  TypeOK'
<1> DEFINE m == MessageOfWorker(w)
<1>w. /\ worker[w].pc \in DatabasePcs \cup QueuePcs \cup {"sendSms"}
      /\ worker[w].pc # "idle"
  BY DEF DispatchStep, FindById, ClaimMessage, CountAttempt, Throttle, SendSms, RecordSent,
         RecordFatalFailure, EnqueueDeadLetter, DatabasePcs, QueuePcs
<1>m. m \in Messages /\ row[m] \in SmsMessage /\ worker[w].job \in JobIds
  BY <1>w, JobMessage DEF TypeOK, MessageOfWorker
<1>p. worker[w] \in Worker /\ ProviderOfWorker(w) \in Providers
  BY ProviderAt DEF TypeOK, Worker, ProviderOfWorker
<1>pcs. /\ {"returned", "markProcessing", "incrementAttempts", "throttle", "sendSms",
            "enqueueDeadLetter", "markFatalFailure", "threw"} \subseteq WorkerPcs
  BY DEF WorkerPcs, DatabasePcs, QueuePcs
<1>1. CASE FindById(w)
  BY <1>1, <1>w, <1>pcs, GotoType DEF FindById, TypeOK, outside
<1>2. CASE ClaimMessage(w)
  <2>1. row' \in [Messages -> SmsMessage]
    BY <1>2, <1>m, RowUpdates, NullAssumption DEF ClaimMessage, SetRow, TypeOK
  <2>2. QED
    BY <1>2, <2>1, <1>w, <1>pcs, AnsweredType DEF ClaimMessage, TypeOK, outside
<1>3. CASE CountAttempt(w)
  <2>1. row' \in [Messages -> SmsMessage]
    BY <1>3, <1>m, RowUpdates DEF CountAttempt, SetRow, TypeOK
  <2>2. QED
    BY <1>3, <2>1, <1>w, <1>pcs, AnsweredType DEF CountAttempt, TypeOK, outside
<1>4. CASE Throttle(w)
  BY <1>4, <1>w, <1>pcs, GotoType DEF Throttle, TypeOK, outside
<1>5. CASE SendSms(w)
  <2>1. worker[w].pc = "sendSms" /\ accepted[m] \in Nat /\ calls[m] \in Nat
    BY <1>5, <1>m DEF SendSms, TypeOK
  <2>2. ASSUME NEW retryable \in BOOLEAN, AfterFailedSend(w, retryable)
        PROVE  /\ worker' \in [Workers -> Worker]
               /\ \A v \in Workers : worker'[v].pc # "idle" => worker'[v].job \in JobIds
               /\ \A v \in Workers : worker'[v].pc = "markSent" => worker'[v].pid \in Nat
    <3>1. worker[w].provider + 1 \in 1 .. Len(ProviderOrder)
            \/ ~(worker[w].provider < Len(ProviderOrder))
      BY <1>p, OrderAssumption DEF Worker
    <3>2. worker[w].attempt < MaxRetries => worker[w].attempt + 1 \in 1 .. MaxRetries
      BY <1>p, RetryAssumption DEF Worker
    <3>3. 1 \in 1 .. MaxRetries
      BY RetryAssumption
    <3>4. QED
      BY <2>2, <3>1, <3>2, <3>3, <1>p, <1>m, <1>pcs DEF AfterFailedSend, TypeOK, Worker
  <2>3. /\ worker' \in [Workers -> Worker]
        /\ \A v \in Workers : worker'[v].pc # "idle" => worker'[v].job \in JobIds
        /\ \A v \in Workers : worker'[v].pc = "markSent" => worker'[v].pid \in Nat
    <3>1. ASSUME NEW pid \in 1 .. (accepted[m] + 1),
                 worker' = [worker EXCEPT ![w].pc = "markSent", ![w].pid = pid]
          PROVE  /\ worker' \in [Workers -> Worker]
                 /\ \A v \in Workers : worker'[v].pc # "idle" => worker'[v].job \in JobIds
                 /\ \A v \in Workers : worker'[v].pc = "markSent" => worker'[v].pid \in Nat
      <4>1. pid \in Nat
        BY <2>1
      <4>2. "markSent" \in WorkerPcs
        BY DEF WorkerPcs, DatabasePcs
      <4>3. [worker[w] EXCEPT !.pc = "markSent", !.pid = pid] \in Worker
        BY <4>1, <4>2, <1>p DEF Worker
      <4>4. QED
        BY <3>1, <4>1, <4>3, <1>m DEF TypeOK
    <3>2. CASE \E retryable \in BOOLEAN : AfterFailedSend(w, retryable)
      BY <2>2, <3>2
    <3>3. QED
      BY <1>5, <3>1, <3>2 DEF SendSms
  <2>4. /\ accepted' \in [Messages -> Nat]
        /\ keyed' \in [Messages -> [KeyedProviders -> Nat \cup {Null}]]
    <3>1. \/ UNCHANGED <<accepted, keyed>>
          \/ \E pid \in 1 .. (accepted[m] + 1) : Accepts(m, ProviderOfWorker(w), pid)
      BY <1>5 DEF SendSms
    <3>2. QED
      BY <3>1, <1>m, <1>p, AcceptsType DEF TypeOK
  <2>8. calls' \in [Messages -> Nat]
    BY <1>5, <1>m DEF SendSms, TypeOK
  <2>5. jobCalls' \in [JobIds -> Nat]
    BY <1>5, <1>m DEF SendSms, TypeOK
  <2>6. faults' \in [errors: Nat, crashes: Nat, falseStalls: Nat, requeues: Nat]
    <3>1. UNCHANGED faults \/ ErrorHappens
      BY <1>5 DEF SendSms
    <3>2. QED
      BY <3>1 DEF ErrorHappens, TypeOK
  <2>7. QED
    BY <1>5, <2>3, <2>4, <2>5, <2>6, <2>8 DEF SendSms, TypeOK
<1>6. CASE RecordSent(w)
  <2>1. row' \in [Messages -> SmsMessage]
    <3>1. worker[w].pid \in Nat
      BY <1>6 DEF RecordSent, TypeOK
    <3>2. QED
      BY <1>6, <1>m, <1>p, <3>1, RowUpdates DEF RecordSent, SetRow, TypeOK
  <2>2. QED
    BY <1>6, <2>1, <1>w, <1>pcs, AnsweredType DEF RecordSent, TypeOK, outside
<1>7. CASE RecordFatalFailure(w)
  <2>1. row' \in [Messages -> SmsMessage]
    BY <1>7, <1>m, <1>p, RowUpdates DEF RecordFatalFailure, SetRow, TypeOK
  <2>2. QED
    BY <1>7, <2>1, <1>w, <1>pcs, AnsweredType DEF RecordFatalFailure, TypeOK, outside
<1>8. CASE EnqueueDeadLetter(w)
  <2>1. Answered(w, "returned")
    BY <1>8 DEF EnqueueDeadLetter, Answered
  <2>2. deadLetters' \in [Messages -> Nat] /\ dlqFailed' \subseteq JobIds
    BY <1>8, <1>m DEF EnqueueDeadLetter, TypeOK
  <2>3. QED
    BY <1>8, <2>1, <2>2, <1>w, <1>pcs, AnsweredType DEF EnqueueDeadLetter, TypeOK
<1>9. QED
  BY <1>1, <1>2, <1>3, <1>4, <1>5, <1>6, <1>7, <1>8 DEF DispatchStep

LEMMA TypeQueue ==
    ASSUME TypeOK, NEW w \in Workers,
           Process(w) \/ CallThrows(w) \/ JobCompletes(w) \/ JobFails(w) \/ Crash(w)
    PROVE  TypeOK'
<1>1. CASE Process(w)
  <2>1. PICK j \in JobIds :
            /\ job' = [job EXCEPT ![j].state = "active", ![j].owner = w]
            /\ worker' = [worker EXCEPT
                    ![w] = [IdleWorker EXCEPT !.pc = "findById", !.job = j]]
    BY <1>1 DEF Process
  <2>2. [IdleWorker EXCEPT !.pc = "findById", !.job = j] \in Worker
    BY InitialWorker DEF IdleWorker, Worker, WorkerPcs, DatabasePcs
  <2>3. /\ worker' \in [Workers -> Worker]
        /\ \A v \in Workers : worker'[v].pc # "idle" => worker'[v].job \in JobIds
        /\ \A v \in Workers : worker'[v].pc = "markSent" => worker'[v].pid \in Nat
    BY <2>1, <2>2 DEF TypeOK, IdleWorker
  <2>4. [job[j] EXCEPT !.state = "active", !.owner = w] \in Job
    BY DEF TypeOK, Job, JobStates
  <2>5. job' = [job EXCEPT ![j] = [job[j] EXCEPT !.state = "active", !.owner = w]]
    BY <2>1 DEF TypeOK, Job
  <2>6. job' \in [JobIds -> Job]
    BY <2>4, <2>5 DEF TypeOK
  <2>7. QED
    BY <1>1, <2>3, <2>6 DEF Process, TypeOK, outside
<1>2. CASE CallThrows(w)
  <2>1. worker[w].pc # "idle" /\ worker[w].job \in JobIds
    BY <1>2 DEF CallThrows, DatabasePcs, QueuePcs, TypeOK
  <2>2. Answered(w, "threw") /\ "threw" \in WorkerPcs
    BY <1>2 DEF CallThrows, Answered, WorkerPcs
  <2>3. dlqFailed' \subseteq JobIds
    BY <1>2, <2>1 DEF CallThrows, TypeOK
  <2>4. QED
    BY <1>2, <2>1, <2>2, <2>3, AnsweredType DEF CallThrows, TypeOK
<1>3. ASSUME worker' = [worker EXCEPT ![w] = IdleWorker]
      PROVE  /\ worker' \in [Workers -> Worker]
             /\ \A v \in Workers : worker'[v].pc # "idle" => worker'[v].job \in JobIds
             /\ \A v \in Workers : worker'[v].pc = "markSent" => worker'[v].pid \in Nat
  BY <1>3, InitialWorker DEF TypeOK
<1>4. CASE JobCompletes(w)
  <2>1. worker[w].job \in JobIds
    BY <1>4 DEF JobCompletes, TypeOK
  <2>2. job' \in [JobIds -> Job]
    <3> DEFINE j == worker[w].job
    <3>1. job' = job \/ job' = [job EXCEPT ![j] = [@ EXCEPT !.state = "completed", !.owner = Null]]
      BY <1>4, <2>1 DEF JobCompletes, TypeOK, Job
    <3>2. [job[j] EXCEPT !.state = "completed", !.owner = Null] \in Job
      BY <2>1 DEF TypeOK, Job, JobStates
    <3>3. QED
      BY <3>1, <3>2, <2>1 DEF TypeOK
  <2>3. QED
    BY <1>3, <1>4, <2>2 DEF JobCompletes, TypeOK, outside
<1>5. CASE JobFails(w)
  <2> DEFINE j == worker[w].job
             s == IF job[j].failures + 1 < JobAttempts THEN "waiting" ELSE "failed"
  <2>1. j \in JobIds
    BY <1>5 DEF JobFails, TypeOK
  <2>2. job' \in [JobIds -> Job]
    <3>1. \/ job' = job
          \/ job' = [job EXCEPT ![j] = [@ EXCEPT !.state = s, !.failures = job[j].failures + 1,
                                                 !.owner = Null]]
      BY <1>5, <2>1 DEF JobFails, TypeOK, Job
    <3>2. [job[j] EXCEPT !.state = s, !.failures = job[j].failures + 1, !.owner = Null] \in Job
      <4>1. job[j] \in Job /\ s \in JobStates
        BY <2>1 DEF TypeOK, JobStates
      <4>2. QED
        BY <4>1, JobUpdates
    <3>3. QED
      BY <3>1, <3>2, <2>1 DEF TypeOK
  <2>3. QED
    BY <1>3, <1>5, <2>2 DEF JobFails, TypeOK, outside
<1>6. CASE Crash(w)
  BY <1>3, <1>6 DEF Crash, TypeOK, outside
<1>7. QED
  BY <1>1, <1>2, <1>4, <1>5, <1>6

LEMMA TypeStall ==
    ASSUME TypeOK, NEW j \in JobIds, RecoverStalledJob(j) \/ FalseStall(j)
    PROVE  TypeOK'
<1> DEFINE s == IF job[j].stalls < MaxStalledCount THEN "waiting" ELSE "failed"
<1>1. Stall(j)
  BY DEF RecoverStalledJob, FalseStall
<1>2. job' = [job EXCEPT ![j] = [@ EXCEPT !.state = s, !.stalls = job[j].stalls + 1,
                                          !.owner = Null]]
  BY <1>1 DEF Stall, TypeOK, Job
<1>3. [job[j] EXCEPT !.state = s, !.stalls = job[j].stalls + 1, !.owner = Null] \in Job
  <2>1. job[j] \in Job /\ s \in JobStates
    BY DEF TypeOK, JobStates
  <2>2. QED
    BY <2>1, JobUpdates
<1>4. job' \in [JobIds -> Job]
  BY <1>2, <1>3 DEF TypeOK
<1>5. faults' \in [errors: Nat, crashes: Nat, falseStalls: Nat, requeues: Nat]
  BY DEF RecoverStalledJob, FalseStall, TypeOK
<1>6. QED
  BY <1>4, <1>5 DEF RecoverStalledJob, FalseStall, TypeOK, outside

LEMMA TypeRequeue ==
    ASSUME TypeOK, NEW a \in Admins,
           RequeueFind(a) \/ RequeueStep(a) \/ RequeueCrash(a)
    PROVE  TypeOK'
<1>t. /\ admin \in [Admins -> Admin]
      /\ \A b \in Admins : admin[b].pc # "idle" => admin[b].message \in Messages
  BY DEF TypeOK
<1>1. CASE RequeueFind(a)
  <2>1. PICK m \in Messages :
            admin' = [admin EXCEPT ![a] = [pc |-> "transition", message |-> m,
                                           provider |-> row[m].selectedProvider]]
    BY <1>1 DEF RequeueFind
  <2>2. /\ admin' \in [Admins -> Admin]
        /\ \A b \in Admins : admin'[b].pc # "idle" => admin'[b].message \in Messages
    <3>1. row[m].selectedProvider \in Providers \cup {Null}
      BY DEF TypeOK, SmsMessage
    <3>2. QED
      BY <1>t, <2>1, <3>1 DEF Admin, AdminPcs
  <2>3. faults' \in [errors: Nat, crashes: Nat, falseStalls: Nat, requeues: Nat]
    <3>1. faults' = [faults EXCEPT !.requeues = @ + 1]
      BY <1>1 DEF RequeueFind
    <3>2. faults \in [errors: Nat, crashes: Nat, falseStalls: Nat, requeues: Nat]
      BY DEF TypeOK
    <3>3. QED
      BY <3>1, <3>2
  <2>4. UNCHANGED <<row, job, worker, accepted, keyed, calls, jobCalls, deadLetters, dlqFailed>>
    BY <1>1 DEF RequeueFind, outside
  <2>5. QED
    BY <2>2, <2>3, <2>4 DEF TypeOK
<1> DEFINE m == admin[a].message
<1>m. admin[a].pc # "idle" => m \in Messages /\ row[m] \in SmsMessage /\ admin[a] \in Admin
  BY DEF TypeOK
<1>f. UNCHANGED faults \/ ErrorHappens
        => faults' \in [errors: Nat, crashes: Nat, falseStalls: Nat, requeues: Nat]
  BY DEF ErrorHappens, TypeOK
<1>a. ASSUME NEW pc \in AdminPcs, admin[a].pc # "idle",
             admin' = [admin EXCEPT ![a].pc = pc] \/ admin' = [admin EXCEPT ![a] = IdleAdmin]
      PROVE  /\ admin' \in [Admins -> Admin]
             /\ \A b \in Admins : admin'[b].pc # "idle" => admin'[b].message \in Messages
  BY <1>a, <1>t, InitialAdmin DEF Admin
<1>pcs. {"requeueSms", "restore"} \subseteq AdminPcs
  BY DEF AdminPcs
<1>2. CASE RequeueTransition(a)
  <2>1. row' \in [Messages -> SmsMessage]
    <3>1. row' = row \/ row' = [row EXCEPT ![m] = TransitionFatalFailureToQueued(row[m])]
      BY <1>2 DEF RequeueTransition, SetRow
    <3>2. TransitionFatalFailureToQueued(row[m]) \in SmsMessage
      BY <1>2, <1>m, RowUpdates DEF RequeueTransition
    <3>3. QED
      BY <3>1, <3>2 DEF TypeOK
  <2>2. \/ admin' = [admin EXCEPT ![a].pc = "requeueSms"]
        \/ admin' = [admin EXCEPT ![a] = IdleAdmin]
    BY <1>2 DEF RequeueTransition
  <2>3. admin[a].pc # "idle" /\ (UNCHANGED faults \/ ErrorHappens)
    BY <1>2 DEF RequeueTransition
  <2>4. QED
    BY <1>2, <2>1, <2>2, <2>3, <1>a, <1>f, <1>pcs DEF RequeueTransition, TypeOK, outside
<1>3. CASE PublishRequeue(a)
  <2>1. job' \in [JobIds -> Job]
    <3>1. PublishedJob \in Job
      BY DEF PublishedJob, AbsentJob, Job, JobStates
    <3>2. QED
      BY <1>3, <3>1 DEF PublishRequeue, TypeOK
  <2>2. \/ admin' = [admin EXCEPT ![a].pc = "restore"]
        \/ admin' = [admin EXCEPT ![a] = IdleAdmin]
    BY <1>3 DEF PublishRequeue
  <2>3. admin[a].pc # "idle" /\ (UNCHANGED faults \/ ErrorHappens)
    BY <1>3 DEF PublishRequeue
  <2>4. QED
    BY <1>3, <2>1, <2>2, <2>3, <1>a, <1>f, <1>pcs DEF PublishRequeue, TypeOK, outside
<1>4. CASE RequeueRestore(a)
  <2>1. RestoreFatalFailure(row[m], admin[a].provider) \in SmsMessage
    BY <1>4, <1>m, RowUpdates DEF RequeueRestore, Admin
  <2>2. row' \in [Messages -> SmsMessage]
    BY <1>4, <2>1 DEF RequeueRestore, SetRow, TypeOK
  <2>3. QED
    BY <1>4, <2>2, <1>a, <1>pcs DEF RequeueRestore, TypeOK, outside
<1>5. CASE RequeueThrows(a)
  <2>1. \/ admin' = [admin EXCEPT ![a].pc = "restore"]
        \/ admin' = [admin EXCEPT ![a] = IdleAdmin]
    BY <1>5 DEF RequeueThrows
  <2>2. admin[a].pc # "idle" /\ ErrorHappens
    BY <1>5 DEF RequeueThrows
  <2>3. QED
    BY <1>5, <2>1, <2>2, <1>a, <1>f, <1>pcs DEF RequeueThrows, TypeOK, outside
<1>6. CASE RequeueCrash(a)
  <2>1. faults' \in [errors: Nat, crashes: Nat, falseStalls: Nat, requeues: Nat]
    BY <1>6 DEF RequeueCrash, TypeOK
  <2>2. QED
    BY <1>6, <2>1, <1>a, <1>pcs DEF RequeueCrash, TypeOK, outside
<1>7. QED
  BY <1>1, <1>2, <1>3, <1>4, <1>5, <1>6 DEF RequeueStep

LEMMA TypeStep == TypeOK /\ [Next]_vars => TypeOK'
<1> SUFFICES ASSUME TypeOK, [Next]_vars
             PROVE  TypeOK'
  OBVIOUS
<1>1. ASSUME NEW w \in Workers, WorkerStep(w) \/ Crash(w)
      PROVE  TypeOK'
  BY <1>1, TypeDispatch, TypeQueue DEF WorkerStep
<1>2. ASSUME NEW j \in JobIds, RecoverStalledJob(j) \/ FalseStall(j)
      PROVE  TypeOK'
  BY <1>2, TypeStall
<1>3. ASSUME NEW a \in Admins, RequeueFind(a) \/ RequeueStep(a) \/ RequeueCrash(a)
      PROVE  TypeOK'
  BY <1>3, TypeRequeue
<1>4. CASE Rest \/ UNCHANGED vars
  BY <1>4 DEF Rest, vars, outside, TypeOK
<1>5. QED
  BY <1>1, <1>2, <1>3, <1>4 DEF Next, Activity

(***************************************************************************)
(* Every variable keeps its type, for any number of workers, messages,     *)
(* requests and faults: no retry counter, provider index or job leaves the *)
(* range the dispatcher's loops and BullMQ's job states allow.             *)
(***************************************************************************)
THEOREM TypeCorrect == Spec => []TypeOK
<1>1. Init => TypeOK
  BY TypeInit
<1>2. TypeOK /\ [Next]_vars => TypeOK'
  BY TypeStep
<1>3. QED
  BY <1>1, <1>2, PTL DEF Spec

-----------------------------------------------------------------------------
(* Every attempt is counted before the provider is called. *)

LEMMA AboutToSendFinite ==
    ASSUME NEW m
    PROVE  /\ IsFiniteSet(AboutToSend(m)) /\ Cardinality(AboutToSend(m)) \in Nat
           /\ IsFiniteSet(AboutToSend(m)') /\ Cardinality(AboutToSend(m)') \in Nat
<1>1. AboutToSend(m) \in SUBSET Workers /\ AboutToSend(m)' \in SUBSET Workers
  BY DEF AboutToSend
<1>2. QED
  BY <1>1, WorkersAssumption, FS_Subset, FS_CardinalityType

(* A step that calls no provider and puts no worker in front of a call. *)
LEMMA NobodyAboutToSend ==
    ASSUME TypeOK, AttemptsCoverCalls, TypeOK', calls' = calls,
           \A m \in Messages : row'[m].attempts = row[m].attempts,
           \A m \in Messages : AboutToSend(m)' \subseteq AboutToSend(m)
    PROVE  AttemptsCoverCalls'
<1> SUFFICES ASSUME NEW m \in Messages
             PROVE  calls'[m] + Cardinality(AboutToSend(m)') <= row'[m].attempts
  BY DEF AttemptsCoverCalls
<1>1. Cardinality(AboutToSend(m)') <= Cardinality(AboutToSend(m))
  BY AboutToSendFinite, FS_Subset
<1>2. calls[m] + Cardinality(AboutToSend(m)) <= row[m].attempts
  BY DEF AttemptsCoverCalls
<1>3. calls[m] \in Nat /\ row[m].attempts \in Nat
  BY DEF TypeOK, SmsMessage
<1>4. QED
  BY <1>1, <1>2, <1>3, AboutToSendFinite

(* Only incrementAttempts changes the counter of a row. *)
LEMMA AttemptsKept ==
    ASSUME NEW r \in SmsMessage
    PROVE  /\ MarkProcessing(r).attempts = r.attempts
           /\ TransitionFatalFailureToQueued(r).attempts = r.attempts
           /\ \A p, pid : MarkSent(r, p, pid).attempts = r.attempts
           /\ \A p : MarkFatalFailure(r, p).attempts = r.attempts
           /\ \A p : RestoreFatalFailure(r, p).attempts = r.attempts
BY DEF SmsMessage, MarkProcessing, MarkSent, MarkFatalFailure,
       TransitionFatalFailureToQueued, RestoreFatalFailure

(* One worker leaves for another call; the others stay where they are. *)
LEMMA WorkerLeaves ==
    ASSUME TypeOK, NEW w \in Workers, NEW W,
           worker' = [worker EXCEPT ![w] = W],
           W.pc \in {"throttle", "sendSms"} =>
                worker[w].pc \in {"throttle", "sendSms"} /\ W.job = worker[w].job
    PROVE  \A m \in Messages : AboutToSend(m)' \subseteq AboutToSend(m)
BY DEF TypeOK, AboutToSend, MessageOfWorker

(* An update of one row that leaves its counter alone. *)
LEMMA CounterKept ==
    ASSUME TypeOK, NEW m \in Messages, NEW r, r.attempts = row[m].attempts,
           UNCHANGED row \/ SetRow(m, r)
    PROVE  \A n \in Messages : row'[n].attempts = row[n].attempts
BY DEF SetRow, TypeOK

LEMMA WorkerGoes ==
    ASSUME TypeOK, NEW w \in Workers, NEW pc, Answered(w, pc) \/ Goto(w, pc)
    PROVE  \E q \in {pc, "threw"} : worker' = [worker EXCEPT ![w] = [worker[w] EXCEPT !.pc = q]]
BY DEF Answered, Goto, TypeOK

LEMMA CountAttemptCovers ==
    ASSUME TypeOK, TypeOK', AttemptsCoverCalls, NEW w \in Workers, CountAttempt(w)
    PROVE  AttemptsCoverCalls'
<1> SUFFICES ASSUME NEW m \in Messages
             PROVE  calls'[m] + Cardinality(AboutToSend(m)') <= row'[m].attempts
  BY DEF AttemptsCoverCalls
<1>1. calls[m] + Cardinality(AboutToSend(m)) <= row[m].attempts
  BY DEF AttemptsCoverCalls
<1>2. calls' = calls /\ calls[m] \in Nat /\ row[m] \in SmsMessage /\ row[m].attempts \in Nat
  BY DEF CountAttempt, outside, TypeOK, SmsMessage
<1>3. PICK q \in {"throttle", "threw"} :
          worker' = [worker EXCEPT ![w] = [worker[w] EXCEPT !.pc = q]]
  BY WorkerGoes DEF CountAttempt
<1>4. MessageOfWorker(w) \in Messages /\ worker[w] \in Worker
  BY JobMessage DEF CountAttempt, TypeOK, MessageOfWorker
<1>5. CASE m = MessageOfWorker(w)
  <2>1. row'[m].attempts = row[m].attempts + 1
    BY <1>2, <1>5 DEF CountAttempt, SetRow, IncrementAttempts, TypeOK, SmsMessage
  <2>2. AboutToSend(m)' \subseteq AboutToSend(m) \cup {w}
    BY <1>3 DEF AboutToSend, MessageOfWorker, TypeOK
  <2>3. Cardinality(AboutToSend(m)') <= Cardinality(AboutToSend(m)) + 1
    <3>1. /\ IsFiniteSet(AboutToSend(m) \cup {w})
          /\ Cardinality(AboutToSend(m) \cup {w}) <= Cardinality(AboutToSend(m)) + 1
      <4>1. IsFiniteSet(AboutToSend(m)) /\ Cardinality(AboutToSend(m)) \in Nat
        BY AboutToSendFinite
      <4>2. /\ IsFiniteSet(AboutToSend(m) \cup {w})
            /\ Cardinality(AboutToSend(m) \cup {w}) =
                  IF w \in AboutToSend(m) THEN Cardinality(AboutToSend(m))
                                          ELSE Cardinality(AboutToSend(m)) + 1
        BY <4>1, FS_AddElement
      <4>3. QED
        BY <4>1, <4>2
    <3>2. Cardinality(AboutToSend(m)') <= Cardinality(AboutToSend(m) \cup {w})
      BY <2>2, <3>1, FS_Subset
    <3>3. QED
      BY <3>1, <3>2, AboutToSendFinite, FS_CardinalityType
  <2>4. QED
    BY <1>1, <1>2, <2>1, <2>3, AboutToSendFinite
<1>6. CASE m # MessageOfWorker(w)
  <2>1. row'[m] = row[m]
    BY <1>6 DEF CountAttempt, SetRow, TypeOK
  <2>2. AboutToSend(m)' \subseteq AboutToSend(m)
    BY <1>3, <1>4, <1>6 DEF AboutToSend, MessageOfWorker, TypeOK, Worker
  <2>3. Cardinality(AboutToSend(m)') <= Cardinality(AboutToSend(m))
    BY <2>2, AboutToSendFinite, FS_Subset
  <2>4. QED
    BY <1>1, <1>2, <2>1, <2>3, AboutToSendFinite
<1>7. QED
  BY <1>5, <1>6

LEMMA SendSmsCovers ==
    ASSUME TypeOK, TypeOK', AttemptsCoverCalls, NEW w \in Workers, SendSms(w)
    PROVE  AttemptsCoverCalls'
<1> SUFFICES ASSUME NEW m \in Messages
             PROVE  calls'[m] + Cardinality(AboutToSend(m)') <= row'[m].attempts
  BY DEF AttemptsCoverCalls
<1>1. calls[m] + Cardinality(AboutToSend(m)) <= row[m].attempts
  BY DEF AttemptsCoverCalls
<1>2. /\ calls' = [calls EXCEPT ![MessageOfWorker(w)] = @ + 1]
      /\ row' = row /\ worker[w].pc = "sendSms" /\ calls[m] \in Nat
      /\ row[m].attempts \in Nat
  BY DEF SendSms, TypeOK, SmsMessage
<1>3. PICK W : worker' = [worker EXCEPT ![w] = W] /\ W.pc \notin {"throttle", "sendSms"}
  <2>1. CASE \E retryable \in BOOLEAN : AfterFailedSend(w, retryable)
    <3>1. PICK retryable \in BOOLEAN : AfterFailedSend(w, retryable)
      BY <2>1
    <3>2. worker'[w].pc \in {"incrementAttempts", "markFatalFailure"}
      BY <3>1 DEF AfterFailedSend, TypeOK, Worker
    <3>3. \E W : worker' = [worker EXCEPT ![w] = W]
      BY <3>1 DEF AfterFailedSend
    <3>4. worker' = [worker EXCEPT ![w] = worker'[w]]
      BY <3>3 DEF TypeOK
    <3>5. QED
      BY <3>2, <3>4
  <2>2. CASE \E pid \in Nat : worker' = [worker EXCEPT ![w].pc = "markSent", ![w].pid = pid]
    <3>0. PICK pid \in Nat : worker' = [worker EXCEPT ![w].pc = "markSent", ![w].pid = pid]
      BY <2>2
    <3>1. worker' = [worker EXCEPT ![w] = [worker[w] EXCEPT !.pc = "markSent", !.pid = pid]]
      BY <3>0 DEF TypeOK
    <3>2. [worker[w] EXCEPT !.pc = "markSent", !.pid = pid].pc = "markSent"
      BY DEF TypeOK, Worker
    <3>3. QED
      BY <3>1, <3>2
  <2>3. accepted[MessageOfWorker(w)] \in Nat
    BY <1>2, JobMessage DEF TypeOK, MessageOfWorker
  <2>4. \/ \E retryable \in BOOLEAN : AfterFailedSend(w, retryable)
        \/ \E pid \in 1 .. (accepted[MessageOfWorker(w)] + 1) :
              worker' = [worker EXCEPT ![w].pc = "markSent", ![w].pid = pid]
    BY DEF SendSms
  <2>5. QED
    BY <2>1, <2>2, <2>3, <2>4
<1>4. CASE m = MessageOfWorker(w)
  <2>1. calls'[m] = calls[m] + 1
    BY <1>2, <1>4 DEF TypeOK
  <2>2. w \in AboutToSend(m)
    BY <1>2, <1>4 DEF AboutToSend
  <2>3. AboutToSend(m)' \subseteq AboutToSend(m) \ {w}
    BY <1>3 DEF AboutToSend, MessageOfWorker, TypeOK
  <2>4. Cardinality(AboutToSend(m)') <= Cardinality(AboutToSend(m)) - 1
    <3>1. /\ IsFiniteSet(AboutToSend(m) \ {w})
          /\ Cardinality(AboutToSend(m) \ {w}) = Cardinality(AboutToSend(m)) - 1
      BY <2>2, AboutToSendFinite, FS_RemoveElement
    <3>2. Cardinality(AboutToSend(m)') <= Cardinality(AboutToSend(m) \ {w})
      BY <2>3, <3>1, FS_Subset
    <3>3. QED
      BY <3>1, <3>2
  <2>5. QED
    BY <1>1, <1>2, <2>1, <2>4, AboutToSendFinite
<1>5. CASE m # MessageOfWorker(w)
  <2>1. calls'[m] = calls[m]
    BY <1>2, <1>5 DEF TypeOK
  <2>2. AboutToSend(m)' \subseteq AboutToSend(m)
    BY <1>3 DEF AboutToSend, MessageOfWorker, TypeOK
  <2>3. Cardinality(AboutToSend(m)') <= Cardinality(AboutToSend(m))
    BY <2>2, AboutToSendFinite, FS_Subset
  <2>4. QED
    BY <1>1, <1>2, <2>1, <2>3, AboutToSendFinite
<1>6. QED
  BY <1>4, <1>5

LEMMA DispatchCovers ==
    ASSUME TypeOK, TypeOK', AttemptsCoverCalls, NEW w \in Workers, DispatchStep(w)
    PROVE  AttemptsCoverCalls'
<1> DEFINE m == MessageOfWorker(w)
<1>m. worker[w].pc # "idle" /\ m \in Messages /\ row[m] \in SmsMessage /\ worker[w] \in Worker
  BY JobMessage DEF DispatchStep, FindById, ClaimMessage, CountAttempt, Throttle, SendSms,
     RecordSent, RecordFatalFailure, EnqueueDeadLetter, TypeOK, MessageOfWorker
<1>w. ASSUME NEW q, worker' = [worker EXCEPT ![w] = [worker[w] EXCEPT !.pc = q]],
             q \in {"throttle", "sendSms"} => worker[w].pc \in {"throttle", "sendSms"}
      PROVE  \A n \in Messages : AboutToSend(n)' \subseteq AboutToSend(n)
  <2>1. /\ [worker[w] EXCEPT !.pc = q].pc = q
        /\ [worker[w] EXCEPT !.pc = q].job = worker[w].job
    BY <1>m DEF Worker
  <2>2. QED
    BY <1>w, <2>1, WorkerLeaves
<1>1. CASE FindById(w)
  <2>1. PICK q \in {"returned", "markProcessing", "threw"} :
            worker' = [worker EXCEPT ![w] = [worker[w] EXCEPT !.pc = q]]
    BY <1>1, WorkerGoes DEF FindById
  <2>2. QED
    BY <1>1, <1>w, <2>1, NobodyAboutToSend DEF FindById, outside
<1>2. CASE ClaimMessage(w)
  <2>1. PICK q \in {"incrementAttempts", "returned", "threw"} :
            worker' = [worker EXCEPT ![w] = [worker[w] EXCEPT !.pc = q]]
    BY <1>2, WorkerGoes DEF ClaimMessage
  <2>2. \A n \in Messages : row'[n].attempts = row[n].attempts
    <3>1. MarkProcessing(row[m]).attempts = row[m].attempts
      BY <1>m, AttemptsKept
    <3>2. UNCHANGED row \/ SetRow(m, MarkProcessing(row[m]))
      BY <1>2 DEF ClaimMessage
    <3>3. QED
      BY <1>m, <3>1, <3>2, CounterKept
  <2>3. QED
    BY <1>2, <1>w, <2>1, <2>2, NobodyAboutToSend DEF ClaimMessage, outside
<1>3. CASE CountAttempt(w)
  BY <1>3, CountAttemptCovers
<1>4. CASE Throttle(w)
  <2>1. PICK q \in {"sendSms", "threw"} :
            worker' = [worker EXCEPT ![w] = [worker[w] EXCEPT !.pc = q]]
    BY <1>4, WorkerGoes DEF Throttle
  <2>2. QED
    BY <1>4, <1>w, <2>1, NobodyAboutToSend DEF Throttle, outside
<1>5. CASE SendSms(w)
  BY <1>5, SendSmsCovers
<1>6. CASE RecordSent(w)
  <2>1. PICK q \in {"returned", "threw"} :
            worker' = [worker EXCEPT ![w] = [worker[w] EXCEPT !.pc = q]]
    BY <1>6, WorkerGoes DEF RecordSent
  <2>2. \A n \in Messages : row'[n].attempts = row[n].attempts
    <3>1. MarkSent(row[m], ProviderOfWorker(w), worker[w].pid).attempts = row[m].attempts
      BY <1>m, AttemptsKept
    <3>2. SetRow(m, MarkSent(row[m], ProviderOfWorker(w), worker[w].pid))
      BY <1>6 DEF RecordSent
    <3>3. QED
      BY <1>m, <3>1, <3>2, CounterKept
  <2>3. QED
    BY <1>6, <1>w, <2>1, <2>2, NobodyAboutToSend DEF RecordSent, outside
<1>7. CASE RecordFatalFailure(w)
  <2>1. PICK q \in {"enqueueDeadLetter", "threw"} :
            worker' = [worker EXCEPT ![w] = [worker[w] EXCEPT !.pc = q]]
    BY <1>7, WorkerGoes DEF RecordFatalFailure
  <2>2. \A n \in Messages : row'[n].attempts = row[n].attempts
    <3>1. MarkFatalFailure(row[m], ProviderOfWorker(w)).attempts = row[m].attempts
      BY <1>m, AttemptsKept
    <3>2. SetRow(m, MarkFatalFailure(row[m], ProviderOfWorker(w)))
      BY <1>7 DEF RecordFatalFailure
    <3>3. QED
      BY <1>m, <3>1, <3>2, CounterKept
  <2>3. QED
    BY <1>7, <1>w, <2>1, <2>2, NobodyAboutToSend DEF RecordFatalFailure, outside
<1>8. CASE EnqueueDeadLetter(w)
  <2>1. PICK q \in {"returned", "threw"} :
            worker' = [worker EXCEPT ![w] = [worker[w] EXCEPT !.pc = q]]
    BY <1>8, WorkerGoes DEF EnqueueDeadLetter
  <2>2. QED
    BY <1>8, <1>w, <2>1, NobodyAboutToSend DEF EnqueueDeadLetter
<1>9. QED
  BY <1>1, <1>2, <1>3, <1>4, <1>5, <1>6, <1>7, <1>8 DEF DispatchStep

LEMMA QueueCovers ==
    ASSUME TypeOK, TypeOK', AttemptsCoverCalls, NEW w \in Workers,
           Process(w) \/ CallThrows(w) \/ JobCompletes(w) \/ JobFails(w) \/ Crash(w)
    PROVE  AttemptsCoverCalls'
<1>1. calls' = calls /\ row' = row
  BY DEF Process, CallThrows, JobCompletes, JobFails, Crash, outside
<1>2. PICK W : /\ worker' = [worker EXCEPT ![w] = W]
               /\ W.pc \notin {"throttle", "sendSms"}
  <2>1. CASE worker' = [worker EXCEPT ![w] = IdleWorker]
    BY <2>1, InitialWorker
  <2>2. CASE Process(w)
    <3>1. PICK j \in JobIds : worker' = [worker EXCEPT
                    ![w] = [IdleWorker EXCEPT !.pc = "findById", !.job = j]]
      BY <2>2 DEF Process
    <3>2. [IdleWorker EXCEPT !.pc = "findById", !.job = j].pc = "findById"
      BY DEF IdleWorker
    <3>3. QED
      BY <3>1, <3>2
  <2>3. CASE CallThrows(w)
    <3>1. worker' = [worker EXCEPT ![w] = [worker[w] EXCEPT !.pc = "threw"]]
      BY <2>3 DEF CallThrows, Goto, TypeOK
    <3>2. [worker[w] EXCEPT !.pc = "threw"].pc = "threw"
      BY DEF TypeOK, Worker
    <3>3. QED
      BY <3>1, <3>2
  <2>4. QED
    BY <2>1, <2>2, <2>3 DEF JobCompletes, JobFails, Crash
<1>3. \A m \in Messages : AboutToSend(m)' \subseteq AboutToSend(m)
  BY <1>2, WorkerLeaves
<1>4. QED
  BY <1>1, <1>3, NobodyAboutToSend

LEMMA OthersCover ==
    ASSUME TypeOK, TypeOK', AttemptsCoverCalls,
           \/ \E j \in JobIds : RecoverStalledJob(j) \/ FalseStall(j)
           \/ \E a \in Admins : RequeueFind(a) \/ RequeueStep(a) \/ RequeueCrash(a)
           \/ Rest \/ UNCHANGED vars
    PROVE  AttemptsCoverCalls'
<1>1. calls' = calls /\ worker' = worker
  BY DEF RecoverStalledJob, FalseStall, RequeueFind, RequeueStep, RequeueTransition,
     PublishRequeue, RequeueRestore, RequeueThrows, RequeueCrash, Rest, vars, outside
<1>2. \A m \in Messages : AboutToSend(m)' \subseteq AboutToSend(m)
  BY <1>1 DEF AboutToSend, MessageOfWorker
<1>3. \A m \in Messages : row'[m].attempts = row[m].attempts
  <2>1. CASE UNCHANGED row
    BY <2>1
  <2>2. ASSUME NEW a \in Admins, RequeueTransition(a) \/ RequeueRestore(a)
        PROVE  \A m \in Messages : row'[m].attempts = row[m].attempts
    <3>1. admin[a].message \in Messages /\ row[admin[a].message] \in SmsMessage
      BY <2>2 DEF RequeueTransition, RequeueRestore, TypeOK
    <3> DEFINE m == admin[a].message
    <3>2. CASE RequeueTransition(a)
      <4>1. TransitionFatalFailureToQueued(row[m]).attempts = row[m].attempts
        BY <3>1, AttemptsKept
      <4>2. UNCHANGED row \/ SetRow(m, TransitionFatalFailureToQueued(row[m]))
        BY <3>2 DEF RequeueTransition
      <4>3. QED
        BY <3>1, <4>1, <4>2, CounterKept
    <3>3. CASE RequeueRestore(a)
      <4>1. RestoreFatalFailure(row[m], admin[a].provider).attempts = row[m].attempts
        BY <3>1, AttemptsKept
      <4>2. SetRow(m, RestoreFatalFailure(row[m], admin[a].provider))
        BY <3>3 DEF RequeueRestore
      <4>3. QED
        BY <3>1, <4>1, <4>2, CounterKept
    <3>4. QED
      BY <2>2, <3>2, <3>3
  <2>3. QED
    BY <2>1, <2>2 DEF RecoverStalledJob, FalseStall, RequeueFind, RequeueStep,
       PublishRequeue, RequeueThrows, RequeueCrash, Rest, vars
<1>4. QED
  BY <1>1, <1>2, <1>3, NobodyAboutToSend

(***************************************************************************)
(* The attempts column covers every provider call ever made for a message  *)
(* and those about to be made, for any number of overlapping workers,      *)
(* retried or redelivered jobs, crashes and requeues: incrementAttempts is *)
(* one atomic UPDATE and always precedes the call.                         *)
(***************************************************************************)
THEOREM AttemptsCovered == Spec => []AttemptsCoverCalls
<1>1. Init => AttemptsCoverCalls
  <2> SUFFICES ASSUME Init, NEW m \in Messages
               PROVE  calls[m] + Cardinality(AboutToSend(m)) <= row[m].attempts
    BY DEF AttemptsCoverCalls
  <2>1. AboutToSend(m) = {}
    BY InitialWorker DEF Init, Undispatched, AboutToSend
  <2>2. QED
    BY <2>1, FS_EmptySet DEF Init, Undispatched, QueuedMessage
<1>2. TypeOK /\ TypeOK' /\ AttemptsCoverCalls /\ [Next]_vars => AttemptsCoverCalls'
  <2> SUFFICES ASSUME TypeOK, TypeOK', AttemptsCoverCalls, [Next]_vars
               PROVE  AttemptsCoverCalls'
    OBVIOUS
  <2>1. ASSUME NEW w \in Workers, WorkerStep(w) \/ Crash(w)
        PROVE  AttemptsCoverCalls'
    BY <2>1, DispatchCovers, QueueCovers DEF WorkerStep
  <2>2. QED
    BY <2>1, OthersCover DEF Next, Activity
<1>3. QED
  BY <1>1, <1>2, TypeCorrect, PTL DEF Spec

-----------------------------------------------------------------------------
(* The columns of a row agree with its status. *)

LEMMA UpdatesAgree ==
    ASSUME NEW r \in SmsMessage, NEW n \in Nat, RecordAgrees(r, n)
    PROVE  /\ RecordAgrees(r, n + 1)
           /\ MayMarkProcessing(r) => RecordAgrees(MarkProcessing(r), n)
           /\ RecordAgrees(IncrementAttempts(r), n)
           /\ \A p \in Providers : \A pid \in 1 .. n : RecordAgrees(MarkSent(r, p, pid), n)
           /\ \A p \in Providers : RecordAgrees(MarkFatalFailure(r, p), n)
           /\ MayTransitionToQueued(r) => RecordAgrees(TransitionFatalFailureToQueued(r), n)
           /\ \A p \in Providers : RecordAgrees(RestoreFatalFailure(r, p), n)
<1> USE NullAssumption DEF SmsMessage, RecordAgrees
<1>1. RecordAgrees(r, n + 1)
  OBVIOUS
<1>2. MayMarkProcessing(r) => RecordAgrees(MarkProcessing(r), n)
  BY DEF MayMarkProcessing, MarkProcessing, ClaimableStatuses
<1>3. RecordAgrees(IncrementAttempts(r), n)
  BY DEF IncrementAttempts
<1>4. \A p \in Providers : \A pid \in 1 .. n : RecordAgrees(MarkSent(r, p, pid), n)
  BY DEF MarkSent
<1>5. \A p \in Providers : RecordAgrees(MarkFatalFailure(r, p), n)
  BY DEF MarkFatalFailure
<1>6. MayTransitionToQueued(r) => RecordAgrees(TransitionFatalFailureToQueued(r), n)
  BY DEF MayTransitionToQueued, TransitionFatalFailureToQueued
<1>7. \A p \in Providers : RecordAgrees(RestoreFatalFailure(r, p), n)
  BY DEF RestoreFatalFailure
<1>8. QED
  BY <1>1, <1>2, <1>3, <1>4, <1>5, <1>6, <1>7

LEMMA RowsInductiveInit == Init => RowsInductive
BY InitialWorker, InitialAdmin, NullAssumption
   DEF Init, Undispatched, RowsInductive, RowsAgree, RecordAgrees, QueuedMessage

(* One row is updated to a record that agrees; nothing is accepted. *)
LEMMA RowUpdateAgrees ==
    ASSUME TypeOK, RowsAgree, UNCHANGED accepted, NEW m \in Messages, NEW r,
           UNCHANGED row \/ (SetRow(m, r) /\ RecordAgrees(r, accepted[m]))
    PROVE  RowsAgree'
BY DEF TypeOK, RowsAgree, SetRow

(* A worker that goes on to anything but markSent carries no new id. *)
LEMMA WorkersCarryIds ==
    ASSUME TypeOK, RowsInductive, UNCHANGED accepted, NEW w \in Workers, NEW W,
           worker' = [worker EXCEPT ![w] = W], W.pc # "markSent"
    PROVE  \A v \in Workers :
             worker'[v].pc = "markSent" => worker'[v].pid \in 1 .. accepted'[MessageOfWorker(v)']
BY DEF TypeOK, RowsInductive, MessageOfWorker

(* An id a provider answers with was issued for the message, now or before. *)
LEMMA AcceptsAgrees ==
    ASSUME TypeOK, RowsInductive, NEW m \in Messages, NEW p \in Providers,
           NEW pid \in 1 .. (accepted[m] + 1), Accepts(m, p, pid)
    PROVE  /\ \A n \in Messages :
               accepted[n] \in Nat /\ accepted'[n] \in {accepted[n], accepted[n] + 1}
           /\ \A n \in Messages, q \in KeyedProviders :
               keyed'[n][q] # Null => keyed'[n][q] \in 1 .. accepted'[n]
           /\ pid \in 1 .. accepted'[m]
<1>1. accepted[m] \in Nat /\ pid \in Nat
  BY DEF TypeOK
<1>2. CASE /\ p \in KeyedProviders /\ keyed[m][p] # Null /\ pid = keyed[m][p]
           /\ UNCHANGED <<accepted, keyed>>
  BY <1>2 DEF TypeOK, RowsInductive
<1>3. CASE /\ pid = accepted[m] + 1
           /\ accepted' = [accepted EXCEPT ![m] = pid]
           /\ keyed' = IF p \in KeyedProviders THEN [keyed EXCEPT ![m][p] = pid] ELSE keyed
  <2>1. \A n \in Messages :
            accepted[n] \in Nat /\ accepted'[n] = IF n = m THEN pid ELSE accepted[n]
    BY <1>3 DEF TypeOK
  <2>2. \A n \in Messages, q \in KeyedProviders :
            (keyed'[n][q] = pid /\ n = m) \/ keyed'[n][q] = keyed[n][q]
    BY <1>3 DEF TypeOK
  <2>3. ASSUME NEW n \in Messages, NEW q \in KeyedProviders, keyed'[n][q] # Null
        PROVE  keyed'[n][q] \in 1 .. accepted'[n]
    <3>1. CASE keyed'[n][q] = pid /\ n = m
      BY <1>1, <1>3, <2>1, <3>1
    <3>2. CASE keyed'[n][q] = keyed[n][q]
      <4>1. keyed[n][q] \in 1 .. accepted[n]
        BY <2>3, <3>2 DEF RowsInductive
      <4>2. QED
        BY <1>1, <1>3, <2>1, <3>2, <4>1
    <3>3. QED
      BY <2>2, <3>1, <3>2
  <2>4. QED
    BY <1>1, <1>3, <2>1, <2>3
<1>4. QED
  BY <1>2, <1>3 DEF Accepts

LEMMA DispatchAgrees ==
    ASSUME TypeOK, RowsInductive, NEW w \in Workers, DispatchStep(w)
    PROVE  RowsInductive'
<1> DEFINE m == MessageOfWorker(w)
<1>m. /\ worker[w].pc # "idle" /\ m \in Messages /\ row[m] \in SmsMessage
      /\ worker[w] \in Worker /\ accepted[m] \in Nat /\ ProviderOfWorker(w) \in Providers
      /\ RecordAgrees(row[m], accepted[m])
  BY JobMessage, ProviderAt DEF DispatchStep, FindById, ClaimMessage, CountAttempt, Throttle,
     SendSms, RecordSent, RecordFatalFailure, EnqueueDeadLetter, TypeOK, MessageOfWorker,
     Worker, ProviderOfWorker, RowsInductive, RowsAgree
<1>a. admin' = admin
  BY DEF DispatchStep, FindById, ClaimMessage, CountAttempt, Throttle,
     SendSms, RecordSent, RecordFatalFailure, EnqueueDeadLetter
<1>g. ASSUME RowsAgree', UNCHANGED <<accepted, keyed>>, NEW pc, pc # "markSent",
             Answered(w, pc) \/ Goto(w, pc)
      PROVE  RowsInductive'
  <2>1. PICK q \in {pc, "threw"} :
            worker' = [worker EXCEPT ![w] = [worker[w] EXCEPT !.pc = q]]
    BY <1>g, WorkerGoes
  <2>2. [worker[w] EXCEPT !.pc = q].pc # "markSent"
    BY <1>g, <1>m DEF Worker
  <2>3. \A v \in Workers :
            worker'[v].pc = "markSent" => worker'[v].pid \in 1 .. accepted'[MessageOfWorker(v)']
    BY <1>g, <2>1, <2>2, WorkersCarryIds
  <2>4. QED
    BY <1>a, <1>g, <2>3 DEF RowsInductive
<1>1. CASE FindById(w)
  BY <1>1, <1>g, <1>m, RowUpdateAgrees DEF FindById, outside, RowsInductive
<1>2. CASE ClaimMessage(w)
  <2>1. RowsAgree'
    BY <1>2, <1>m, UpdatesAgree, RowUpdateAgrees DEF ClaimMessage, outside, RowsInductive
  <2>2. QED
    BY <1>2, <2>1, <1>g DEF ClaimMessage, outside
<1>3. CASE CountAttempt(w)
  <2>1. RowsAgree'
    BY <1>3, <1>m, UpdatesAgree, RowUpdateAgrees DEF CountAttempt, outside, RowsInductive
  <2>2. QED
    BY <1>3, <2>1, <1>g DEF CountAttempt, outside
<1>4. CASE Throttle(w)
  BY <1>4, <1>g, <1>m, RowUpdateAgrees DEF Throttle, outside, RowsInductive
<1>5. CASE SendSms(w)
  <2>1. \/ UNCHANGED <<accepted, keyed>>
        \/ \E pid \in 1 .. (accepted[m] + 1) : Accepts(m, ProviderOfWorker(w), pid)
    BY <1>5 DEF SendSms
  <2>2. /\ \A n \in Messages : accepted[n] \in Nat /\ accepted'[n] \in {accepted[n], accepted[n] + 1}
        /\ \A n \in Messages, q \in KeyedProviders :
             keyed'[n][q] # Null => keyed'[n][q] \in 1 .. accepted'[n]
    <3>1. CASE UNCHANGED <<accepted, keyed>>
      BY <3>1 DEF TypeOK, RowsInductive
    <3>2. QED
      BY <2>1, <3>1, <1>m, AcceptsAgrees
  <2>3. RowsAgree'
    <3>1. row' = row
      BY <1>5 DEF SendSms
    <3>2. ASSUME NEW n \in Messages
          PROVE  RecordAgrees(row[n], accepted'[n])
      BY <2>2, UpdatesAgree DEF RowsInductive, RowsAgree, TypeOK
    <3>3. QED
      BY <3>1, <3>2 DEF RowsAgree
  <2>4. ASSUME NEW v \in Workers, worker'[v].pc = "markSent"
        PROVE  worker'[v].pid \in 1 .. accepted'[MessageOfWorker(v)']
    <3>1. CASE v = w
      <4>1. CASE \E retryable \in BOOLEAN : AfterFailedSend(w, retryable)
        BY <2>4, <3>1, <4>1 DEF AfterFailedSend, TypeOK, Worker
      <4>2. ASSUME NEW pid \in 1 .. (accepted[m] + 1), Accepts(m, ProviderOfWorker(w), pid),
                   worker' = [worker EXCEPT ![w].pc = "markSent", ![w].pid = pid]
            PROVE  worker'[w].pid \in 1 .. accepted'[MessageOfWorker(w)']
        <5>1. worker'[w] = [worker[w] EXCEPT !.pc = "markSent", !.pid = pid]
          BY <4>2 DEF TypeOK
        <5>2. worker'[w].pid = pid /\ MessageOfWorker(w)' = m
          BY <5>1, <1>m DEF Worker, MessageOfWorker
        <5>3. pid \in 1 .. accepted'[m]
          BY <4>2, <1>m, AcceptsAgrees
        <5>4. QED
          BY <5>2, <5>3
      <4>3. QED
        BY <1>5, <3>1, <4>1, <4>2 DEF SendSms
    <3>2. CASE v # w
      <4>1. \E W : worker' = [worker EXCEPT ![w] = W]
        BY <1>5 DEF SendSms, AfterFailedSend, TypeOK
      <4>2. worker'[v] = worker[v]
        BY <3>2, <4>1 DEF TypeOK
      <4>3. worker[v].pid \in 1 .. accepted[MessageOfWorker(v)] /\ MessageOfWorker(v) \in Messages
        BY <2>4, <4>2, JobMessage DEF RowsInductive, TypeOK, MessageOfWorker
      <4>4. MessageOfWorker(v)' = MessageOfWorker(v)
        BY <4>2 DEF MessageOfWorker
      <4>5. QED
        BY <4>2, <4>3, <4>4, <2>2
    <3>3. QED
      BY <3>1, <3>2
  <2>5. QED
    BY <1>a, <2>2, <2>3, <2>4 DEF RowsInductive
<1>6. CASE RecordSent(w)
  <2>1. RowsAgree'
    <3>1. worker[w].pid \in 1 .. accepted[m]
      BY <1>6 DEF RecordSent, RowsInductive
    <3>2. RecordAgrees(MarkSent(row[m], ProviderOfWorker(w), worker[w].pid), accepted[m])
      BY <3>1, <1>m, UpdatesAgree
    <3>3. QED
      BY <1>6, <1>m, <3>2, RowUpdateAgrees DEF RecordSent, outside, RowsInductive
  <2>2. QED
    BY <1>6, <2>1, <1>g DEF RecordSent, outside
<1>7. CASE RecordFatalFailure(w)
  <2>1. RowsAgree'
    <3>1. RecordAgrees(MarkFatalFailure(row[m], ProviderOfWorker(w)), accepted[m])
      BY <1>m, UpdatesAgree
    <3>2. QED
      BY <1>7, <1>m, <3>1, RowUpdateAgrees DEF RecordFatalFailure, outside, RowsInductive
  <2>2. QED
    BY <1>7, <2>1, <1>g DEF RecordFatalFailure, outside
<1>8. CASE EnqueueDeadLetter(w)
  <2>1. Answered(w, "returned")
    BY <1>8 DEF EnqueueDeadLetter, Answered
  <2>2. RowsAgree'
    BY <1>8, <1>m, RowUpdateAgrees DEF EnqueueDeadLetter, RowsInductive
  <2>3. QED
    BY <1>8, <2>1, <2>2, <1>g DEF EnqueueDeadLetter
<1>9. QED
  BY <1>1, <1>2, <1>3, <1>4, <1>5, <1>6, <1>7, <1>8 DEF DispatchStep

LEMMA QueueAgrees ==
    ASSUME TypeOK, RowsInductive, NEW w \in Workers,
           Process(w) \/ CallThrows(w) \/ JobCompletes(w) \/ JobFails(w) \/ Crash(w)
    PROVE  RowsInductive'
<1>1. UNCHANGED <<row, accepted, keyed, admin>>
  BY DEF Process, CallThrows, JobCompletes, JobFails, Crash, outside
<1>2. PICK W : worker' = [worker EXCEPT ![w] = W] /\ W.pc # "markSent"
  <2>1. CASE worker' = [worker EXCEPT ![w] = IdleWorker]
    BY <2>1, InitialWorker
  <2>2. CASE Process(w)
    <3>1. PICK j \in JobIds : worker' = [worker EXCEPT
                    ![w] = [IdleWorker EXCEPT !.pc = "findById", !.job = j]]
      BY <2>2 DEF Process
    <3>2. [IdleWorker EXCEPT !.pc = "findById", !.job = j].pc = "findById"
      BY DEF IdleWorker
    <3>3. QED
      BY <3>1, <3>2
  <2>3. CASE CallThrows(w)
    <3>1. worker' = [worker EXCEPT ![w] = [worker[w] EXCEPT !.pc = "threw"]]
      BY <2>3 DEF CallThrows, Goto, TypeOK
    <3>2. [worker[w] EXCEPT !.pc = "threw"].pc = "threw"
      BY DEF TypeOK, Worker
    <3>3. QED
      BY <3>1, <3>2
  <2>4. QED
    BY <2>1, <2>2, <2>3 DEF JobCompletes, JobFails, Crash
<1>3. \A v \in Workers :
        worker'[v].pc = "markSent" => worker'[v].pid \in 1 .. accepted'[MessageOfWorker(v)']
  BY <1>1, <1>2, WorkersCarryIds
<1>4. QED
  BY <1>1, <1>3 DEF RowsInductive, RowsAgree

LEMMA RequeueAgrees ==
    ASSUME TypeOK, RowsInductive, NEW a \in Admins,
           RequeueFind(a) \/ RequeueStep(a) \/ RequeueCrash(a)
    PROVE  RowsInductive'
<1>1. UNCHANGED <<worker, accepted, keyed>>
  BY DEF RequeueFind, RequeueStep, RequeueTransition, PublishRequeue, RequeueRestore,
     RequeueThrows, RequeueCrash, outside
<1>2. \A v \in Workers :
        worker'[v].pc = "markSent" => worker'[v].pid \in 1 .. accepted'[MessageOfWorker(v)']
  BY <1>1 DEF RowsInductive, MessageOfWorker
<1>3. RowsAgree'
  <2> DEFINE m == admin[a].message
  <2>1. CASE UNCHANGED row
    BY <1>1, <2>1 DEF RowsInductive, RowsAgree
  <2>2. CASE RequeueTransition(a) \/ RequeueRestore(a)
    <3>1. /\ m \in Messages /\ row[m] \in SmsMessage /\ accepted[m] \in Nat
          /\ RecordAgrees(row[m], accepted[m]) /\ admin[a].provider \in Providers
      BY <2>2 DEF RequeueTransition, RequeueRestore, TypeOK, RowsInductive, RowsAgree
    <3>2. CASE RequeueTransition(a)
      BY <1>1, <3>1, <3>2, UpdatesAgree, RowUpdateAgrees DEF RequeueTransition, RowsInductive
    <3>3. CASE RequeueRestore(a)
      <4>1. RecordAgrees(RestoreFatalFailure(row[m], admin[a].provider), accepted[m])
        BY <3>1, UpdatesAgree
      <4>2. QED
        BY <1>1, <3>1, <3>3, <4>1, RowUpdateAgrees DEF RequeueRestore, RowsInductive
    <3>4. QED
      BY <2>2, <3>2, <3>3
  <2>3. QED
    BY <2>1, <2>2 DEF RequeueFind, RequeueStep, PublishRequeue, RequeueThrows, RequeueCrash
<1>4. \A b \in Admins : admin'[b].pc # "idle" => admin'[b].provider \in Providers
  <2>t. /\ admin \in [Admins -> Admin]
        /\ \A b \in Admins : admin[b].pc # "idle" => admin[b].provider \in Providers
    BY DEF TypeOK, RowsInductive
  <2>1. CASE RequeueFind(a)
    <3>1. PICK m \in Messages :
            /\ row[m].status = "FATAL_FAILURE"
            /\ admin' = [admin EXCEPT ![a] = [pc |-> "transition", message |-> m,
                                              provider |-> row[m].selectedProvider]]
      BY <2>1 DEF RequeueFind
    <3>2. row[m].selectedProvider \in Providers
      BY <3>1 DEF TypeOK, SmsMessage, RowsInductive, RowsAgree, RecordAgrees
    <3>3. QED
      BY <2>t, <3>1, <3>2
  <2>2. CASE \/ RequeueStep(a) \/ RequeueCrash(a)
    <3>1. admin[a].pc # "idle"
      BY <2>2 DEF RequeueStep, RequeueTransition, PublishRequeue, RequeueRestore,
         RequeueThrows, RequeueCrash
    <3>2. \/ \E pc \in AdminPcs : admin' = [admin EXCEPT ![a].pc = pc]
          \/ admin' = [admin EXCEPT ![a] = IdleAdmin]
      BY <2>2 DEF RequeueStep, RequeueTransition, PublishRequeue, RequeueRestore,
         RequeueThrows, RequeueCrash, AdminPcs
    <3>3. QED
      BY <2>t, <3>1, <3>2, InitialAdmin DEF Admin
  <2>3. QED
    BY <2>1, <2>2
<1>5. QED
  BY <1>1, <1>2, <1>3, <1>4 DEF RowsInductive

(***************************************************************************)
(* Only a SENT row carries an external id, and that id was issued for this *)
(* message; the timestamps and the provider agree with the status. So a    *)
(* callback lookup by provider and id never finds a message that is        *)
(* queued, in progress or fatally failed, however workers overlap.         *)
(***************************************************************************)
THEOREM RowsAlwaysAgree == Spec => []RowsAgree
<1>1. Init => RowsInductive
  BY RowsInductiveInit
<1>2. TypeOK /\ RowsInductive /\ [Next]_vars => RowsInductive'
  <2> SUFFICES ASSUME TypeOK, RowsInductive, [Next]_vars
               PROVE  RowsInductive'
    OBVIOUS
  <2>1. ASSUME NEW w \in Workers, WorkerStep(w) \/ Crash(w)
        PROVE  RowsInductive'
    BY <2>1, DispatchAgrees, QueueAgrees DEF WorkerStep
  <2>2. ASSUME NEW j \in JobIds, RecoverStalledJob(j) \/ FalseStall(j)
        PROVE  RowsInductive'
    BY <2>2 DEF RecoverStalledJob, FalseStall, outside, RowsInductive, RowsAgree, MessageOfWorker
  <2>3. ASSUME NEW a \in Admins, RequeueFind(a) \/ RequeueStep(a) \/ RequeueCrash(a)
        PROVE  RowsInductive'
    BY <2>3, RequeueAgrees
  <2>4. CASE Rest \/ UNCHANGED vars
    BY <2>4 DEF Rest, vars, outside, RowsInductive, RowsAgree, MessageOfWorker
  <2>5. QED
    BY <2>1, <2>2, <2>3, <2>4 DEF Next, Activity
<1>3. RowsInductive => RowsAgree
  BY DEF RowsInductive
<1>4. QED
  BY <1>1, <1>2, <1>3, TypeCorrect, PTL DEF Spec
=============================================================================
