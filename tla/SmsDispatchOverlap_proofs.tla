--------------------- MODULE SmsDispatchOverlap_proofs ---------------------
(***************************************************************************)
(* What overlapping workers, retried jobs and requeues can do to a         *)
(* message, for any number of each: how often it may be sent, who may      *)
(* dispatch it, how its status moves, how many calls and dead letters a    *)
(* job is worth. The arguments count who may still send a message.         *)
(***************************************************************************)
EXTENDS SmsDispatch_proofs

-----------------------------------------------------------------------------
(* The size of a set of which only one element may have changed. *)
LEMMA OneDiffers ==
    ASSUME NEW S, NEW T, NEW x, IsFiniteSet(S), S \ {x} = T \ {x}
    PROVE  /\ IsFiniteSet(T)
           /\ Cardinality(S) \in Nat /\ Cardinality(T) \in Nat
           /\ Cardinality(T) + (IF x \in S THEN 1 ELSE 0)
                = Cardinality(S) + (IF x \in T THEN 1 ELSE 0)
<1> DEFINE U == S \ {x}
<1>1. /\ IsFiniteSet(U)
      /\ Cardinality(U) = IF x \in S THEN Cardinality(S) - 1 ELSE Cardinality(S)
  BY FS_RemoveElement
<1>2. /\ IsFiniteSet(U \cup {x})
      /\ Cardinality(U \cup {x}) = IF x \in U THEN Cardinality(U) ELSE Cardinality(U) + 1
  BY <1>1, FS_AddElement
<1>3. x \notin U
  OBVIOUS
<1>4. T = IF x \in T THEN U \cup {x} ELSE U
  OBVIOUS
<1>5. IsFiniteSet(T)
  BY <1>1, <1>2, <1>4
<1>6. Cardinality(T) = IF x \in T THEN Cardinality(U) + 1 ELSE Cardinality(U)
  BY <1>2, <1>3, <1>4
<1>7. Cardinality(S) \in Nat /\ Cardinality(T) \in Nat /\ Cardinality(U) \in Nat
  BY <1>1, <1>5, FS_CardinalityType
<1> HIDE DEF U
<1>8. QED
  BY <1>1, <1>5, <1>6, <1>7

-----------------------------------------------------------------------------
(***************************************************************************)
(* Who may still lead to a send of message m: a job that waits, or whose   *)
(* worker died; a worker on its way to a verdict, or about to give the job *)
(* back for a retry; a requeue request that has not published yet; and a   *)
(* FATAL_FAILURE row, which anybody may requeue. Where the goal is to      *)
(* settle, a send that was accepted still counts, and so does a SENT row.  *)
(***************************************************************************)
Goals == {"send", "settle"}

HeldPcs(goal) ==
    {"findById", "markProcessing", "incrementAttempts", "throttle", "sendSms",
     "markFatalFailure"} \cup (IF goal = "settle" THEN {"markSent"} ELSE {})

Works(w, j) == job[j].owner = w /\ worker[w].pc # "idle" /\ worker[w].job = j

OpenJob(j) ==
    \/ job[j].state = "waiting"
    \/ job[j].state = "active" /\ \A w \in Workers : ~Works(w, j)

Counts(w, goal) ==
    worker[w].pc \in HeldPcs(goal) \/ (worker[w].pc = "threw" /\ Owns(w))

OpenRequest(a) == admin[a].pc \in {"requeueSms", "restore"}

OpenJobs(m) == {j \in JobIds : MessageOf(j) = m /\ OpenJob(j)}
OpenWorkers(m, goal) == {w \in Workers : MessageOfWorker(w) = m /\ Counts(w, goal)}
OpenRequests(m) == {a \in Admins : admin[a].message = m /\ OpenRequest(a)}

Settled(m, goal) ==
    IF row[m].status = "FATAL_FAILURE" \/ (goal = "settle" /\ row[m].status = "SENT") THEN 1 ELSE 0

Load(m, goal) ==
    Cardinality(OpenJobs(m)) + Cardinality(OpenWorkers(m, goal))
        + Cardinality(OpenRequests(m)) + Settled(m, goal)

(* What went wrong so far, and the one send every message is due. *)
Budget == 1 + faults.errors + faults.crashes + faults.falseStalls

(***************************************************************************)
(* The inductive form of DuplicatesArePaidFor: the sends a message had and *)
(* those it may still get are paid for. A job is owned only while active.  *)
(***************************************************************************)
PaidFor(m) ==
    /\ IsFiniteSet(OpenRequests(m))
    /\ accepted[m] + Load(m, "send") <= Budget
    /\ Load(m, "settle") <= Budget
OwnersActive == \A j \in JobIds : job[j].owner # Null => job[j].state = "active"

LEMMA BudgetType == TypeOK => Budget \in Nat
BY DEF TypeOK, Budget

LEMMA OpenFinite ==
    ASSUME NEW m, NEW s
    PROVE  IsFiniteSet(OpenJobs(m)) /\ IsFiniteSet(OpenWorkers(m, s))
<1>1. IsFiniteSet({m} \X (0 .. MaxRequeues))
  <2>1. IsFiniteSet({m})
    BY FS_Singleton
  <2>2. IsFiniteSet(0 .. MaxRequeues)
    <3>1. MaxRequeues \in Int /\ 0 \in Int
      BY BoundAssumption
    <3>2. QED
      BY <3>1, FS_Interval
  <2>3. QED
    BY <2>1, <2>2, FS_Product
<1>2. OpenJobs(m) \in SUBSET ({m} \X (0 .. MaxRequeues))
  BY DEF OpenJobs, JobIds, MessageOf
<1>3. OpenWorkers(m, s) \in SUBSET Workers
  BY DEF OpenWorkers
<1>4. QED
  BY <1>1, <1>2, <1>3, FS_Subset, WorkersAssumption

(***************************************************************************)
(* How the load changes with one job, one worker, one request and the row. *)
(***************************************************************************)
LEMMA LoadChanges ==
    ASSUME NEW m, NEW s \in Goals, NEW j, NEW w, NEW a,
           IsFiniteSet(OpenRequests(m)),
           OpenJobs(m)' \ {j} = OpenJobs(m) \ {j},
           OpenWorkers(m, s)' \ {w} = OpenWorkers(m, s) \ {w},
           OpenRequests(m)' \ {a} = OpenRequests(m) \ {a}
    PROVE  /\ IsFiniteSet(OpenRequests(m)')
           /\ Load(m, s) \in Nat /\ Load(m, s)' \in Nat
           /\ Load(m, s)' + (IF j \in OpenJobs(m) THEN 1 ELSE 0)
                  + (IF w \in OpenWorkers(m, s) THEN 1 ELSE 0)
                  + (IF a \in OpenRequests(m) THEN 1 ELSE 0) + Settled(m, s)
              = Load(m, s) + (IF j \in OpenJobs(m)' THEN 1 ELSE 0)
                  + (IF w \in OpenWorkers(m, s)' THEN 1 ELSE 0)
                  + (IF a \in OpenRequests(m)' THEN 1 ELSE 0) + Settled(m, s)'
<1>1. /\ Cardinality(OpenJobs(m)) \in Nat /\ Cardinality(OpenJobs(m)') \in Nat
      /\ Cardinality(OpenJobs(m)') + (IF j \in OpenJobs(m) THEN 1 ELSE 0)
           = Cardinality(OpenJobs(m)) + (IF j \in OpenJobs(m)' THEN 1 ELSE 0)
  BY OpenFinite, OneDiffers
<1>2. /\ Cardinality(OpenWorkers(m, s)) \in Nat /\ Cardinality(OpenWorkers(m, s)') \in Nat
      /\ Cardinality(OpenWorkers(m, s)') + (IF w \in OpenWorkers(m, s) THEN 1 ELSE 0)
           = Cardinality(OpenWorkers(m, s)) + (IF w \in OpenWorkers(m, s)' THEN 1 ELSE 0)
  BY OpenFinite, OneDiffers
<1>3. /\ Cardinality(OpenRequests(m)) \in Nat /\ Cardinality(OpenRequests(m)') \in Nat
      /\ IsFiniteSet(OpenRequests(m)')
      /\ Cardinality(OpenRequests(m)') + (IF a \in OpenRequests(m) THEN 1 ELSE 0)
           = Cardinality(OpenRequests(m)) + (IF a \in OpenRequests(m)' THEN 1 ELSE 0)
  BY OneDiffers
<1>4. Settled(m, s) \in Nat /\ Settled(m, s)' \in Nat
  BY DEF Settled
<1>5. QED
  BY <1>1, <1>2, <1>3, <1>4 DEF Load

(***************************************************************************)
(* A worker goes on to another call, or throws; only its message's row may *)
(* change.                                                                 *)
(***************************************************************************)
LEMMA WorkerLoad ==
    ASSUME TypeOK, NEW n \in Messages, PaidFor(n), NEW s \in Goals,
           NEW w \in Workers, NEW W, worker[w].pc # "idle", W.pc # "idle",
           W.job = worker[w].job, worker' = [worker EXCEPT ![w] = W],
           UNCHANGED <<job, admin>>,
           NEW r, UNCHANGED row \/ SetRow(MessageOfWorker(w), r)
    PROVE  /\ IsFiniteSet(OpenRequests(n)')
           /\ Load(n, s) \in Nat /\ Load(n, s)' \in Nat
           /\ n # MessageOfWorker(w) => Load(n, s)' = Load(n, s)
           /\ n = MessageOfWorker(w) =>
                Load(n, s)' + (IF Counts(w, s) THEN 1 ELSE 0) + Settled(n, s)
                  = Load(n, s) + (IF Counts(w, s)' THEN 1 ELSE 0) + Settled(n, s)'
<1>1. \A v \in Workers : worker'[v] = IF v = w THEN W ELSE worker[v]
  BY DEF TypeOK
<1>2. OpenJobs(n)' = OpenJobs(n)
  BY <1>1 DEF OpenJobs, OpenJob, Works
<1>3. OpenRequests(n)' = OpenRequests(n)
  BY DEF OpenRequests, OpenRequest
<1>4. OpenWorkers(n, s)' \ {w} = OpenWorkers(n, s) \ {w}
  BY <1>1 DEF OpenWorkers, Counts, Owns, MessageOfWorker
<1>5. /\ w \in OpenWorkers(n, s) <=> n = MessageOfWorker(w) /\ Counts(w, s)
      /\ w \in OpenWorkers(n, s)' <=> n = MessageOfWorker(w) /\ Counts(w, s)'
  BY <1>1 DEF OpenWorkers, MessageOfWorker
<1>6. IsFiniteSet(OpenRequests(n))
  BY DEF PaidFor
<1>7. /\ Load(n, s) \in Nat /\ Load(n, s)' \in Nat
      /\ IsFiniteSet(OpenRequests(n)')
      /\ Load(n, s)' + (IF w \in OpenWorkers(n, s) THEN 1 ELSE 0) + Settled(n, s)
           = Load(n, s) + (IF w \in OpenWorkers(n, s)' THEN 1 ELSE 0) + Settled(n, s)'
  <2>1. Settled(n, s) \in Nat /\ Settled(n, s)' \in Nat
    BY DEF Settled
  <2>2. QED
    BY <1>2, <1>3, <1>4, <1>6, <2>1, LoadChanges
<1>8. n # MessageOfWorker(w) => Settled(n, s)' = Settled(n, s)
  BY DEF Settled, SetRow, TypeOK
<1>9. Settled(n, s) \in Nat /\ Settled(n, s)' \in Nat
  BY DEF Settled
<1>10. QED
  BY <1>5, <1>7, <1>8, <1>9

(* What a worker and its message's row weigh in the load of the message. *)
Weight(w, m, goal) == (IF Counts(w, goal) THEN 1 ELSE 0) + Settled(m, goal)

LEMMA WorkerPays ==
    ASSUME TypeOK, TypeOK', \A n \in Messages : PaidFor(n),
           NEW w \in Workers, NEW W, worker[w].pc # "idle", W.pc # "idle",
           W.job = worker[w].job, worker' = [worker EXCEPT ![w] = W],
           UNCHANGED <<job, admin>>,
           NEW m, m = MessageOfWorker(w), NEW r, UNCHANGED row \/ SetRow(m, r),
           \A n \in Messages : n # m => accepted'[n] = accepted[n],
           Budget <= Budget',
           accepted'[m] + Weight(w, m, "send")' + Budget
                <= accepted[m] + Weight(w, m, "send") + Budget',
           Weight(w, m, "settle")' + Budget <= Weight(w, m, "settle") + Budget'
    PROVE  \A n \in Messages : PaidFor(n)'
<1> SUFFICES ASSUME NEW n \in Messages
             PROVE  PaidFor(n)'
  OBVIOUS
<1>1. /\ PaidFor(n) /\ accepted[n] \in Nat /\ accepted'[n] \in Nat
      /\ Budget \in Nat /\ Budget' \in Nat
  <2>1. Budget \in Nat /\ Budget' \in Nat
    BY DEF Budget, TypeOK
  <2>2. QED
    BY <2>1 DEF TypeOK
<1>2. ASSUME NEW s \in Goals
      PROVE  /\ IsFiniteSet(OpenRequests(n)')
             /\ Load(n, s) \in Nat /\ Load(n, s)' \in Nat
             /\ n # m => Load(n, s)' = Load(n, s)
             /\ n = m => Load(n, s)' + Weight(w, m, s) = Load(n, s) + Weight(w, m, s)'
             /\ Weight(w, m, s) \in Nat /\ Weight(w, m, s)' \in Nat
  <2>1. /\ IsFiniteSet(OpenRequests(n)')
        /\ Load(n, s) \in Nat /\ Load(n, s)' \in Nat
        /\ n # m => Load(n, s)' = Load(n, s)
        /\ n = m =>
                Load(n, s)' + (IF Counts(w, s) THEN 1 ELSE 0) + Settled(n, s)
                  = Load(n, s) + (IF Counts(w, s)' THEN 1 ELSE 0) + Settled(n, s)'
    BY <1>1, WorkerLoad
  <2>2. Settled(m, s) \in Nat /\ Settled(m, s)' \in Nat
    BY DEF Settled
  <2>3. QED
    BY <2>1, <2>2 DEF Weight
<1>3. "send" \in Goals /\ "settle" \in Goals
  BY DEF Goals
<1>4. accepted'[n] + Load(n, "send")' <= Budget'
  BY <1>1, <1>2, <1>3 DEF PaidFor
<1>5. Load(n, "settle")' <= Budget'
  BY <1>1, <1>2, <1>3 DEF PaidFor
<1>6. QED
  BY <1>2, <1>3, <1>4, <1>5 DEF PaidFor

(* An error is one more thing that went wrong. *)
LEMMA ErrorPays ==
    ASSUME TypeOK, TypeOK'
    PROVE  /\ Budget \in Nat /\ Budget' \in Nat
           /\ ErrorHappens => Budget' = Budget + 1
           /\ UNCHANGED faults => Budget' = Budget
<1>1. /\ faults \in [errors: Nat, crashes: Nat, falseStalls: Nat, requeues: Nat]
      /\ faults' \in [errors: Nat, crashes: Nat, falseStalls: Nat, requeues: Nat]
  BY DEF TypeOK
<1>2. Budget \in Nat /\ Budget' \in Nat
  BY <1>1 DEF Budget
<1>3. ErrorHappens => Budget' = Budget + 1
  BY <1>1 DEF ErrorHappens, Budget
<1>4. UNCHANGED faults => Budget' = Budget
  BY DEF Budget
<1>5. QED
  BY <1>2, <1>3, <1>4

(***************************************************************************)
(* Where a call leads, and at what price: it answers and nothing is spent, *)
(* or an error is spent and the worker throws.                             *)
(***************************************************************************)
LEMMA AnswerPays ==
    ASSUME TypeOK, TypeOK', NEW w \in Workers, NEW pc, worker[w].pc # "idle",
           Answered(w, pc) \/ (Goto(w, pc) /\ UNCHANGED faults)
    PROVE  \E q \in {pc, "threw"} :
             /\ worker' = [worker EXCEPT ![w] = [worker[w] EXCEPT !.pc = q]]
             /\ worker'[w].pc = q /\ [worker[w] EXCEPT !.pc = q].pc = q
             /\ [worker[w] EXCEPT !.pc = q].job = worker[w].job
             /\ Budget' = Budget \/ (q = "threw" /\ Budget' = Budget + 1)
             /\ q = pc \/ Budget' = Budget + 1
<1>1. worker[w] \in Worker /\ worker \in [Workers -> Worker]
  BY DEF TypeOK
<1>2. ASSUME NEW q, Goto(w, q)
      PROVE  /\ worker' = [worker EXCEPT ![w] = [worker[w] EXCEPT !.pc = q]]
             /\ worker'[w].pc = q /\ [worker[w] EXCEPT !.pc = q].pc = q
             /\ [worker[w] EXCEPT !.pc = q].job = worker[w].job
  BY <1>1, <1>2 DEF Goto, Worker
<1>3. CASE Goto(w, pc) /\ UNCHANGED faults
  BY <1>2, <1>3, ErrorPays
<1>4. CASE Goto(w, "threw") /\ ErrorHappens
  BY <1>2, <1>4, ErrorPays
<1>5. QED
  BY <1>3, <1>4 DEF Answered

LEMMA DispatchPays ==
    ASSUME TypeOK, TypeOK', \A n \in Messages : PaidFor(n),
           NEW w \in Workers, DispatchStep(w) \/ CallThrows(w)
    PROVE  \A n \in Messages : PaidFor(n)'
<1> SUFFICES ASSUME NEW m, m = MessageOfWorker(w)
             PROVE  \A n \in Messages : PaidFor(n)'
  OBVIOUS
<1>m. /\ worker[w].pc # "idle" /\ m \in Messages /\ row[m] \in SmsMessage
      /\ worker[w] \in Worker /\ accepted[m] \in Nat
  BY JobMessage DEF DispatchStep, FindById, ClaimMessage, CountAttempt, Throttle, SendSms,
     RecordSent, RecordFatalFailure, EnqueueDeadLetter, CallThrows, DatabasePcs, QueuePcs,
     TypeOK, MessageOfWorker
<1>b. Budget \in Nat /\ Budget' \in Nat
  BY ErrorPays
<1>u. UNCHANGED <<job, admin>>
  BY DEF DispatchStep, FindById, ClaimMessage, CountAttempt, Throttle, SendSms,
     RecordSent, RecordFatalFailure, EnqueueDeadLetter, CallThrows
(* Calls other than the send: what they cost, for a given outcome. *)
<1>g. ASSUME NEW q, q # "idle", NEW r, accepted' = accepted,
             worker' = [worker EXCEPT ![w] = [worker[w] EXCEPT !.pc = q]],
             [worker[w] EXCEPT !.pc = q].pc = q,
             [worker[w] EXCEPT !.pc = q].job = worker[w].job,
             UNCHANGED row \/ SetRow(m, r), Budget <= Budget',
             \A s \in Goals : Weight(w, m, s)' + Budget <= Weight(w, m, s) + Budget'
      PROVE  \A n \in Messages : PaidFor(n)'
  <2>1. \A s \in Goals : Weight(w, m, s)' \in Nat /\ Weight(w, m, s) \in Nat
    BY DEF Weight, Settled
  <2>2. accepted'[m] + Weight(w, m, "send")' + Budget
            <= accepted[m] + Weight(w, m, "send") + Budget'
    BY <1>g, <1>b, <1>m, <2>1 DEF Goals
  <2> DEFINE W == [worker[w] EXCEPT !.pc = q]
  <2>3. /\ worker' = [worker EXCEPT ![w] = W] /\ W.pc # "idle" /\ W.job = worker[w].job
        /\ Weight(w, m, "settle")' + Budget <= Weight(w, m, "settle") + Budget'
        /\ \A n \in Messages : n # m => accepted'[n] = accepted[n]
    BY <1>g DEF Goals
  <2> HIDE DEF W
  <2>4. QED
    BY <1>g, <1>m, <1>u, <2>2, <2>3, WorkerPays
<1>r. \A s \in Goals : UNCHANGED row => Settled(m, s)' = Settled(m, s)
  BY DEF Settled
<1>n. \A s \in Goals : /\ Weight(w, m, s) \in Nat /\ Weight(w, m, s)' \in Nat
                       /\ Settled(m, s) \in 0 .. 1 /\ Settled(m, s)' \in 0 .. 1
  BY DEF Weight, Settled
<1>t. \A s \in Goals : /\ Settled(m, s) <= Weight(w, m, s)
                       /\ Weight(w, m, s)' <= 1 + Settled(m, s)'
  BY <1>n DEF Weight
<1>h. \A s \in Goals :
        worker[w].pc \in HeldPcs(s) => Weight(w, m, s) = 1 + Settled(m, s)
  BY <1>n DEF Weight, Counts
<1>l. \A s \in Goals :
        worker'[w].pc \notin HeldPcs(s) \cup {"threw"} => Weight(w, m, s)' = Settled(m, s)'
  BY <1>n DEF Weight, Counts
<1>pcs. \A s \in Goals :
        /\ {"findById", "markProcessing", "incrementAttempts", "throttle", "sendSms",
            "markFatalFailure"} \subseteq HeldPcs(s)
        /\ {"returned", "enqueueDeadLetter"} \cap HeldPcs(s) = {}
        /\ "markSent" \in HeldPcs(s) <=> s = "settle"
  BY DEF HeldPcs, Goals
<1>a. ASSUME NEW pc, pc \notin {"idle", "threw"}, NEW r, accepted' = accepted,
             Answered(w, pc) \/ (Goto(w, pc) /\ UNCHANGED faults),
             UNCHANGED row \/ SetRow(m, r),
             \A s \in Goals : (IF pc \in HeldPcs(s) THEN 1 ELSE 0) + Settled(m, s)'
                                <= Weight(w, m, s)
      PROVE  \A n \in Messages : PaidFor(n)'
  <2>1. PICK q \in {pc, "threw"} :
             /\ worker' = [worker EXCEPT ![w] = [worker[w] EXCEPT !.pc = q]]
             /\ worker'[w].pc = q /\ [worker[w] EXCEPT !.pc = q].pc = q
             /\ [worker[w] EXCEPT !.pc = q].job = worker[w].job
             /\ Budget' = Budget \/ (q = "threw" /\ Budget' = Budget + 1)
             /\ q = pc \/ Budget' = Budget + 1
    BY <1>a, <1>m, AnswerPays
  <2>2. \A s \in Goals : Weight(w, m, s)' + Budget <= Weight(w, m, s) + Budget'
    <3>1. CASE q = "threw" /\ Budget' = Budget + 1
      BY <3>1, <1>a, <1>b, <1>n, <1>t
    <3>2. CASE q = pc /\ Budget' = Budget
      <4>1. \A s \in Goals :
              Weight(w, m, s)' = (IF pc \in HeldPcs(s) THEN 1 ELSE 0) + Settled(m, s)'
        BY <2>1, <3>2, <1>a DEF Weight, Counts
      <4>2. QED
        BY <4>1, <3>2, <1>a, <1>b, <1>n
    <3>3. QED
      BY <2>1, <3>1, <3>2, <1>a
  <2>3. Budget <= Budget'
    BY <2>1, <1>b
  <2>4. q # "idle"
    BY <1>a
  <2>5. QED
    BY <2>1, <2>2, <2>3, <2>4, <1>a, <1>g
<1>1. CASE FindById(w)
  <2>1. worker[w].pc = "findById" /\ UNCHANGED <<row, accepted, faults>>
    BY <1>1 DEF FindById, outside
  <2>2. PICK pc \in {"markProcessing", "returned"} : Goto(w, pc)
    BY <1>1 DEF FindById
  <2>3. \A s \in Goals : (IF pc \in HeldPcs(s) THEN 1 ELSE 0) + Settled(m, s)'
                            <= Weight(w, m, s)
    BY <2>1, <1>r, <1>n, <1>h, <1>pcs
  <2>4. QED
    BY <2>1, <2>2, <2>3, <1>a
<1>2. CASE ClaimMessage(w)
  <2>1. worker[w].pc = "markProcessing" /\ accepted' = accepted
    BY <1>2 DEF ClaimMessage, outside
  <2>2. PICK pc \in {"incrementAttempts", "returned"} : Answered(w, pc)
    BY <1>2 DEF ClaimMessage
  <2>3. UNCHANGED row \/ (SetRow(m, MarkProcessing(row[m])) /\ MayMarkProcessing(row[m]))
    BY <1>2 DEF ClaimMessage
  <2>4. \A s \in Goals : Settled(m, s)' = Settled(m, s)
    BY <2>3, <1>m, <1>r DEF Settled, SetRow, MarkProcessing, MayMarkProcessing,
       ClaimableStatuses, TypeOK, SmsMessage
  <2>5. \A s \in Goals : (IF pc \in HeldPcs(s) THEN 1 ELSE 0) + Settled(m, s)'
                            <= Weight(w, m, s)
    BY <2>1, <2>4, <1>n, <1>h, <1>pcs
  <2>6. QED
    BY <2>1, <2>2, <2>3, <2>5, <1>a
<1>3. CASE CountAttempt(w)
  <2>1. /\ worker[w].pc = "incrementAttempts" /\ accepted' = accepted
        /\ SetRow(m, IncrementAttempts(row[m])) /\ Answered(w, "throttle")
    BY <1>3 DEF CountAttempt, outside
  <2>2. \A s \in Goals : Settled(m, s)' = Settled(m, s)
    BY <2>1, <1>m DEF Settled, SetRow, IncrementAttempts, TypeOK, SmsMessage
  <2>3. \A s \in Goals : (IF "throttle" \in HeldPcs(s) THEN 1 ELSE 0) + Settled(m, s)'
                            <= Weight(w, m, s)
    BY <2>1, <2>2, <1>n, <1>h, <1>pcs
  <2>4. QED
    BY <2>1, <2>3, <1>a
<1>4. CASE Throttle(w)
  <2>1. /\ worker[w].pc = "throttle" /\ UNCHANGED <<row, accepted, faults>>
        /\ Goto(w, "sendSms")
    BY <1>4 DEF Throttle, outside
  <2>2. \A s \in Goals : (IF "sendSms" \in HeldPcs(s) THEN 1 ELSE 0) + Settled(m, s)'
                            <= Weight(w, m, s)
    BY <2>1, <1>r, <1>n, <1>h, <1>pcs
  <2>3. QED
    BY <2>1, <2>2, <1>a
<1>5. CASE SendSms(w)
  <2>1. worker[w].pc = "sendSms" /\ UNCHANGED row
    BY <1>5 DEF SendSms
  <2>2. ASSUME \E pid \in 1 .. (accepted[m] + 1) : Accepts(m, ProviderOfWorker(w), pid)
        PROVE  /\ accepted'[m] \in {accepted[m], accepted[m] + 1}
               /\ \A n \in Messages : n # m => accepted'[n] = accepted[n]
    BY <2>2, <1>m DEF Accepts, TypeOK
  <2>3. ASSUME NEW W, W.pc \notin {"idle", "threw"}, W.job = worker[w].job,
               worker' = [worker EXCEPT ![w] = W], W.pc \in HeldPcs("settle"),
               accepted'[m] \in {accepted[m], accepted[m] + 1},
               \A n \in Messages : n # m => accepted'[n] = accepted[n],
               \/ Budget' = Budget /\ (W.pc \notin HeldPcs("send") \/ accepted'[m] = accepted[m])
               \/ Budget' = Budget + 1
        PROVE  \A n \in Messages : PaidFor(n)'
    <3>1. worker'[w] = W
      BY <2>3 DEF TypeOK
    <3>2. \A s \in Goals :
            /\ Weight(w, m, s) = 1 + Settled(m, s)
            /\ Weight(w, m, s)' = (IF W.pc \in HeldPcs(s) THEN 1 ELSE 0) + Settled(m, s)
      BY <2>1, <2>3, <3>1, <1>r, <1>h, <1>pcs DEF Weight, Counts
    <3>3. /\ accepted'[m] + Weight(w, m, "send")' + Budget
                <= accepted[m] + Weight(w, m, "send") + Budget'
          /\ Weight(w, m, "settle")' + Budget <= Weight(w, m, "settle") + Budget'
      BY <2>3, <3>2, <1>b, <1>m, <1>n DEF Goals
    <3>4. Budget <= Budget' /\ W.pc # "idle" /\ (UNCHANGED row \/ SetRow(m, row[m]))
      BY <2>1, <2>3, <1>b
    <3>5. QED
      BY <2>3, <3>3, <3>4, <1>m, <1>u, WorkerPays
  <2>4. ASSUME NEW retryable \in BOOLEAN, AfterFailedSend(w, retryable)
        PROVE  \E W : /\ worker' = [worker EXCEPT ![w] = W] /\ W.job = worker[w].job
                      /\ W.pc \in {"incrementAttempts", "markFatalFailure"}
    <3>1. /\ worker'[w].job = worker[w].job
          /\ worker'[w].pc \in {"incrementAttempts", "markFatalFailure"}
      BY <2>4, <1>m DEF AfterFailedSend, TypeOK, Worker
    <3>2. \E W : worker' = [worker EXCEPT ![w] = W]
      BY <2>4 DEF AfterFailedSend
    <3>3. worker' = [worker EXCEPT ![w] = worker'[w]]
      BY <3>2 DEF TypeOK
    <3>4. QED
      BY <3>1, <3>3
  <2>5. CASE \E pid \in 1 .. (accepted[m] + 1) :
                /\ Accepts(m, ProviderOfWorker(w), pid)
                /\ worker' = [worker EXCEPT ![w].pc = "markSent", ![w].pid = pid]
                /\ UNCHANGED faults
    <3>1. PICK pid \in 1 .. (accepted[m] + 1) :
                /\ Accepts(m, ProviderOfWorker(w), pid)
                /\ worker' = [worker EXCEPT ![w].pc = "markSent", ![w].pid = pid]
                /\ UNCHANGED faults
      BY <2>5
    <3> DEFINE W == [worker[w] EXCEPT !.pc = "markSent", !.pid = pid]
    <3>2. worker' = [worker EXCEPT ![w] = W]
      BY <3>1 DEF TypeOK
    <3>3. W.pc = "markSent" /\ W.job = worker[w].job
      BY <1>m DEF Worker
    <3> HIDE DEF W
    <3>4. "markSent" \in HeldPcs("settle") /\ "markSent" \notin HeldPcs("send")
      BY DEF HeldPcs
    <3>5. Budget' = Budget
      BY <3>1 DEF Budget
    <3>6. QED
      BY <2>2, <2>3, <3>1, <3>2, <3>3, <3>4, <3>5
  <2>6. CASE /\ \E retryable \in BOOLEAN : AfterFailedSend(w, retryable)
             /\ \/ UNCHANGED <<accepted, faults>>
                \/ /\ ErrorHappens
                   /\ \E pid \in 1 .. (accepted[m] + 1) : Accepts(m, ProviderOfWorker(w), pid)
    <3>1. PICK W : /\ worker' = [worker EXCEPT ![w] = W] /\ W.job = worker[w].job
                   /\ W.pc \in {"incrementAttempts", "markFatalFailure"}
      BY <2>4, <2>6
    <3>2. W.pc \in HeldPcs("settle") /\ W.pc \notin {"idle", "threw"}
      BY <3>1, <1>pcs DEF Goals
    <3>3. CASE UNCHANGED <<accepted, faults>>
      <4>1. Budget' = Budget
        BY <3>3 DEF Budget
      <4>2. QED
        BY <2>3, <3>1, <3>2, <3>3, <4>1
    <3>4. CASE /\ ErrorHappens
               /\ \E pid \in 1 .. (accepted[m] + 1) : Accepts(m, ProviderOfWorker(w), pid)
      BY <2>2, <2>3, <3>1, <3>2, <3>4, ErrorPays
    <3>5. QED
      BY <2>6, <3>3, <3>4
  <2>7. QED
    BY <1>5, <2>5, <2>6 DEF SendSms
<1>6. CASE RecordSent(w)
  <2> DEFINE r == MarkSent(row[m], ProviderOfWorker(w), worker[w].pid)
  <2>1. /\ worker[w].pc = "markSent" /\ accepted' = accepted
        /\ SetRow(m, r) /\ Answered(w, "returned")
    BY <1>6 DEF RecordSent, outside
  <2>2. row'[m].status = "SENT"
    BY <2>1, <1>m DEF SetRow, MarkSent, TypeOK, SmsMessage
  <2> HIDE DEF r
  <2>3. \A s \in Goals : (IF "returned" \in HeldPcs(s) THEN 1 ELSE 0) + Settled(m, s)'
                            <= Weight(w, m, s)
    <3>1. Settled(m, "send")' = 0
      BY <2>2 DEF Settled
    <3>2. QED
      BY <2>1, <3>1, <1>n, <1>h, <1>pcs DEF Goals
  <2>4. QED
    BY <2>1, <2>3, <1>a
<1>7. CASE RecordFatalFailure(w)
  <2> DEFINE r == MarkFatalFailure(row[m], ProviderOfWorker(w))
  <2>1. /\ worker[w].pc = "markFatalFailure" /\ accepted' = accepted
        /\ SetRow(m, r) /\ Answered(w, "enqueueDeadLetter")
    BY <1>7 DEF RecordFatalFailure, outside
  <2> HIDE DEF r
  <2>2. \A s \in Goals : (IF "enqueueDeadLetter" \in HeldPcs(s) THEN 1 ELSE 0) + Settled(m, s)'
                            <= Weight(w, m, s)
    BY <2>1, <1>n, <1>h, <1>pcs
  <2>3. QED
    BY <2>1, <2>2, <1>a
<1>8. CASE EnqueueDeadLetter(w) \/ CallThrows(w)
  <2>1. Answered(w, "returned") /\ UNCHANGED <<row, accepted>>
    BY <1>8 DEF EnqueueDeadLetter, CallThrows, Answered
  <2>2. \A s \in Goals : (IF "returned" \in HeldPcs(s) THEN 1 ELSE 0) + Settled(m, s)'
                            <= Weight(w, m, s)
    BY <2>1, <1>n, <1>r, <1>t, <1>pcs
  <2>3. QED
    BY <2>1, <2>2, <1>a
<1>9. QED
  BY <1>1, <1>2, <1>3, <1>4, <1>5, <1>6, <1>7, <1>8 DEF DispatchStep

-----------------------------------------------------------------------------
(* A job is owned only while it is active: who settles it gives it up. *)
LEMMA OwnersActiveStep ==
    ASSUME TypeOK, OwnersActive, [Next]_vars
    PROVE  OwnersActive'
<1>1. ASSUME NEW w \in Workers, WorkerStep(w) \/ Crash(w)
      PROVE  OwnersActive'
  <2>1. CASE Process(w)
    BY <2>1 DEF Process, OwnersActive, TypeOK, Job
  <2>2. CASE DispatchStep(w) \/ CallThrows(w) \/ Crash(w)
    BY <2>2 DEF DispatchStep, FindById, ClaimMessage, CountAttempt, Throttle, SendSms,
       RecordSent, RecordFatalFailure, EnqueueDeadLetter, CallThrows, Crash, OwnersActive
  <2>3. CASE JobCompletes(w)
    BY <2>3 DEF JobCompletes, OwnersActive, TypeOK, Job
  <2>4. CASE JobFails(w)
    BY <2>4 DEF JobFails, OwnersActive, TypeOK, Job
  <2>5. QED
    BY <1>1, <2>1, <2>2, <2>3, <2>4 DEF WorkerStep
<1>2. ASSUME NEW j \in JobIds, RecoverStalledJob(j) \/ FalseStall(j)
      PROVE  OwnersActive'
  <2>1. Stall(j)
    BY <1>2 DEF RecoverStalledJob, FalseStall
  <2>2. QED
    BY <2>1 DEF Stall, OwnersActive, TypeOK, Job
<1>3. ASSUME NEW a \in Admins, RequeueFind(a) \/ RequeueStep(a) \/ RequeueCrash(a)
      PROVE  OwnersActive'
  <2>1. CASE UNCHANGED job
    BY <2>1 DEF OwnersActive
  <2>2. CASE PublishRequeue(a)
    <3>1. PublishedJob.owner = Null
      BY DEF PublishedJob, AbsentJob
    <3>2. QED
      BY <2>2, <3>1 DEF PublishRequeue, OwnersActive, TypeOK
  <2>3. QED
    BY <1>3, <2>1, <2>2 DEF RequeueFind, RequeueStep, RequeueTransition, RequeueRestore,
       RequeueThrows, RequeueCrash
<1>4. CASE Rest \/ UNCHANGED vars
  BY <1>4 DEF Rest, vars, OwnersActive
<1>5. QED
  BY <1>1, <1>2, <1>3, <1>4 DEF Next, Activity

(* What a job weighs in the load of its message. *)
JobWeight(j) == IF OpenJob(j) THEN 1 ELSE 0
WorkerWeight(w, goal) == IF w \in Workers /\ Counts(w, goal) THEN 1 ELSE 0

(* A worker takes up a job, gives it back or leaves it; no row changes. *)
LEMMA QueuePays ==
    ASSUME TypeOK, TypeOK', NEW n \in Messages, PaidFor(n),
           NEW w, NEW j \in JobIds,
           w \in Workers /\ worker[w].pc # "idle" => worker[w].job = j,
           w \in Workers /\ worker'[w].pc # "idle" => worker'[w].job = j,
           \A v \in Workers : v # w => worker'[v] = worker[v],
           \A i \in JobIds : i # j => job'[i] = job[i],
           \A v \in Workers : v # w /\ worker[v].pc # "idle" /\ worker[v].job = j =>
                                (job'[j].owner = v <=> job[j].owner = v),
           UNCHANGED <<row, admin, accepted>>, Budget <= Budget',
           \A s \in Goals : JobWeight(j)' + WorkerWeight(w, s)' + Budget
                              <= JobWeight(j) + WorkerWeight(w, s) + Budget'
    PROVE  PaidFor(n)'
<1>1. OpenJobs(n)' \ {j} = OpenJobs(n) \ {j}
  <2>1. ASSUME NEW i \in JobIds, i # j
        PROVE  OpenJob(i)' <=> OpenJob(i)
    BY <2>1 DEF OpenJob, Works
  <2>2. QED
    BY <2>1 DEF OpenJobs
<1>2. \A s \in Goals : OpenWorkers(n, s)' \ {w} = OpenWorkers(n, s) \ {w}
  <2>1. ASSUME NEW v \in Workers, v # w, NEW s \in Goals
        PROVE  /\ Counts(v, s)' <=> Counts(v, s)
               /\ MessageOfWorker(v)' = MessageOfWorker(v)
    <3>1. worker[v].pc = "threw" => worker[v].job \in JobIds
      BY DEF TypeOK
    <3>2. worker'[v] = worker[v]
      BY <2>1
    <3>3. worker[v].pc = "threw" => (Owns(v)' <=> Owns(v))
      BY <2>1, <3>1, <3>2 DEF Owns
    <3>4. QED
      BY <3>2, <3>3 DEF Counts, MessageOfWorker
  <2>2. QED
    BY <2>1 DEF OpenWorkers
<1>3. OpenRequests(n)' = OpenRequests(n) /\ \A s \in Goals : Settled(n, s)' = Settled(n, s)
  BY DEF OpenRequests, OpenRequest, Settled
<1>4. /\ j \in OpenJobs(n) <=> n = MessageOf(j) /\ JobWeight(j) = 1
      /\ j \in OpenJobs(n)' <=> n = MessageOf(j) /\ JobWeight(j)' = 1
  BY DEF OpenJobs, JobWeight
<1>5. \A s \in Goals :
        /\ w \in OpenWorkers(n, s) <=> n = MessageOf(j) /\ WorkerWeight(w, s) = 1
        /\ w \in OpenWorkers(n, s)' <=> n = MessageOf(j) /\ WorkerWeight(w, s)' = 1
  BY DEF OpenWorkers, WorkerWeight, Counts, HeldPcs, MessageOfWorker
<1>6. \A s \in Goals :
        /\ JobWeight(j) \in 0 .. 1 /\ JobWeight(j)' \in 0 .. 1
        /\ WorkerWeight(w, s) \in 0 .. 1 /\ WorkerWeight(w, s)' \in 0 .. 1
        /\ Settled(n, s) \in Nat
  BY DEF JobWeight, WorkerWeight, Settled
<1>7. Budget \in Nat /\ Budget' \in Nat /\ accepted[n] \in Nat
  BY ErrorPays DEF TypeOK
<1>8. ASSUME NEW s \in Goals
      PROVE  /\ IsFiniteSet(OpenRequests(n)') /\ Load(n, s) \in Nat /\ Load(n, s)' \in Nat
             /\ Load(n, s)' + Budget <= Load(n, s) + Budget'
  <2>1. IsFiniteSet(OpenRequests(n))
    BY DEF PaidFor
  <2>2. /\ IsFiniteSet(OpenRequests(n)')
        /\ Load(n, s) \in Nat /\ Load(n, s)' \in Nat
        /\ Load(n, s)' + (IF j \in OpenJobs(n) THEN 1 ELSE 0)
               + (IF w \in OpenWorkers(n, s) THEN 1 ELSE 0) + Settled(n, s)
           = Load(n, s) + (IF j \in OpenJobs(n)' THEN 1 ELSE 0)
               + (IF w \in OpenWorkers(n, s)' THEN 1 ELSE 0) + Settled(n, s)
    BY <1>1, <1>2, <1>3, <1>6, <2>1, LoadChanges
  <2>3. CASE n = MessageOf(j)
    BY <2>2, <2>3, <1>4, <1>5, <1>6, <1>7
  <2>4. CASE n # MessageOf(j)
    BY <2>2, <2>4, <1>4, <1>5, <1>6, <1>7
  <2>5. QED
    BY <2>2, <2>3, <2>4
<1>9. QED
  BY <1>7, <1>8 DEF PaidFor, Goals

(* A worker that is idle again weighs nothing. *)
LEMMA LeavingPays ==
    ASSUME TypeOK, TypeOK', OwnersActive, \A n \in Messages : PaidFor(n), NEW w \in Workers,
           Process(w) \/ JobCompletes(w) \/ JobFails(w) \/ Crash(w)
    PROVE  \A n \in Messages : PaidFor(n)'
<1>t. /\ worker \in [Workers -> Worker] /\ job \in [JobIds -> Job]
      /\ worker[w].pc # "idle" => worker[w].job \in JobIds
      /\ Null \notin Workers
  BY WorkersAssumption DEF TypeOK
<1>b. /\ Budget \in Nat /\ Budget' \in Nat
      /\ UNCHANGED faults => Budget' = Budget
  BY ErrorPays
<1>i. \A s \in Goals : {"idle", "threw", "returned"} \cap HeldPcs(s) = {}
  BY DEF HeldPcs
<1>n. \A j \in JobIds, s \in Goals :
        /\ JobWeight(j) \in 0 .. 1 /\ JobWeight(j)' \in 0 .. 1
        /\ WorkerWeight(w, s) \in 0 .. 1 /\ WorkerWeight(w, s)' \in 0 .. 1
  BY DEF JobWeight, WorkerWeight
<1>1. CASE Process(w)
  <2>1. PICK j \in JobIds :
          /\ job[j].state = "waiting"
          /\ job' = [job EXCEPT ![j].state = "active", ![j].owner = w]
          /\ worker' = [worker EXCEPT ![w] = [IdleWorker EXCEPT !.pc = "findById", !.job = j]]
    BY <1>1 DEF Process
  <2>2. /\ worker'[w].pc = "findById" /\ worker'[w].job = j /\ worker[w].pc = "idle"
        /\ \A v \in Workers : v # w => worker'[v] = worker[v]
    BY <1>1, <1>t, <2>1 DEF Process, IdleWorker
  <2>3. job'[j].owner = w /\ job'[j].state = "active" /\ job[j].owner = Null
    BY <1>t, <2>1 DEF Job, OwnersActive
  <2>4. \A i \in JobIds : i # j => job'[i] = job[i]
    BY <1>t, <2>1
  <2>5. JobWeight(j) = 1 /\ JobWeight(j)' = 0
    BY <2>1, <2>2, <2>3 DEF JobWeight, OpenJob, Works
  <2>6. UNCHANGED <<row, admin, accepted>> /\ Budget' = Budget
    BY <1>1, <1>b DEF Process, outside
  <2>7. \A s \in Goals : JobWeight(j)' + WorkerWeight(w, s)' + Budget
                           <= JobWeight(j) + WorkerWeight(w, s) + Budget'
    BY <1>b, <1>n, <2>5, <2>6
  <2>8. \A v \in Workers : v # w /\ worker[v].pc # "idle" /\ worker[v].job = j =>
                             (job'[j].owner = v <=> job[j].owner = v)
    BY <1>t, <2>3
  <2>9. Budget <= Budget'
    BY <1>b, <2>6
  <2>10. QED
    BY <2>2, <2>4, <2>6, <2>7, <2>8, <2>9, QueuePays
<1> SUFFICES ASSUME NEW j, j = worker[w].job
             PROVE  \A n \in Messages : PaidFor(n)'
  OBVIOUS
<1>2. CASE JobCompletes(w) \/ JobFails(w)
  <2>1. /\ worker[w].pc \in {"returned", "threw"} /\ j \in JobIds
        /\ worker' = [worker EXCEPT ![w] = IdleWorker]
        /\ UNCHANGED <<row, admin, accepted>> /\ Budget' = Budget
    BY <1>2, <1>b, <1>t DEF JobCompletes, JobFails, outside
  <2>2. /\ worker'[w].pc = "idle"
        /\ \A v \in Workers : v # w => worker'[v] = worker[v]
    BY <1>t, <2>1, InitialWorker
  <2>3. /\ \A i \in JobIds : i # j => job'[i] = job[i]
        /\ ~Owns(w) => job' = job
        /\ Owns(w) => /\ job'[j].owner = Null
                      /\ worker[w].pc = "returned" => job'[j].state = "completed"
    BY <1>2, <1>t, <2>1 DEF JobCompletes, JobFails, Job
  <2>4. Owns(w) <=> job[j].owner = w
    BY DEF Owns
  <2>5. \A s \in Goals : WorkerWeight(w, s)' = 0
    BY <1>i, <2>2 DEF WorkerWeight, Counts
  <2>6. CASE Owns(w)
    <3>1. worker[w].pc = "returned" => JobWeight(j)' = 0
      BY <2>1, <2>3, <2>6 DEF JobWeight, OpenJob
    <3>2. worker[w].pc = "threw" => \A s \in Goals : WorkerWeight(w, s) = 1
      BY <2>6 DEF WorkerWeight, Counts
    <3>3. \A s \in Goals : JobWeight(j)' + WorkerWeight(w, s)' + Budget
                             <= JobWeight(j) + WorkerWeight(w, s) + Budget'
      BY <1>b, <1>n, <2>1, <2>5, <3>1, <3>2
    <3>4. \A v \in Workers : v # w /\ worker[v].pc # "idle" /\ worker[v].job = j =>
                               (job'[j].owner = v <=> job[j].owner = v)
      BY <1>t, <2>3, <2>4, <2>6
    <3>5. QED
      BY <1>b, <2>1, <2>2, <2>3, <3>3, <3>4, QueuePays
  <2>7. CASE ~Owns(w)
    <3>1. job' = job
      BY <2>3, <2>7
    <3>2. JobWeight(j)' = JobWeight(j)
      <4>1. \A v \in Workers : Works(v, j)' <=> Works(v, j)
        BY <2>2, <2>4, <2>7, <3>1 DEF Works
      <4>2. QED
        BY <3>1, <4>1 DEF JobWeight, OpenJob
    <3>3. \A s \in Goals : JobWeight(j)' + WorkerWeight(w, s)' + Budget
                             <= JobWeight(j) + WorkerWeight(w, s) + Budget'
      BY <1>b, <1>n, <2>1, <2>5, <3>2
    <3>4. QED
      BY <1>b, <2>1, <2>2, <3>1, <3>3, QueuePays
  <2>8. QED
    BY <2>6, <2>7
<1>3. CASE Crash(w)
  <2>1. /\ worker[w].pc # "idle" /\ j \in JobIds
        /\ worker' = [worker EXCEPT ![w] = IdleWorker]
        /\ UNCHANGED <<row, job, admin, accepted>>
    BY <1>3, <1>t DEF Crash, outside
  <2>2. Budget' = Budget + 1
    <3>1. faults \in [errors: Nat, crashes: Nat, falseStalls: Nat, requeues: Nat]
      BY DEF TypeOK
    <3>2. QED
      BY <1>3, <3>1 DEF Crash, Budget
  <2>3. /\ worker'[w].pc = "idle"
        /\ \A v \in Workers : v # w => worker'[v] = worker[v]
    BY <1>t, <2>1, InitialWorker
  <2>4. \A s \in Goals : WorkerWeight(w, s)' = 0
    BY <1>i, <2>3 DEF WorkerWeight, Counts
  <2>5. \A s \in Goals : JobWeight(j)' + WorkerWeight(w, s)' + Budget
                           <= JobWeight(j) + WorkerWeight(w, s) + Budget'
    BY <1>b, <1>n, <2>1, <2>2, <2>4
  <2>6. QED
    BY <1>b, <2>1, <2>2, <2>3, <2>5, QueuePays
<1>4. QED
  BY <1>1, <1>2, <1>3

(* A job whose worker died returns to the queue; a live worker loses its job. *)
LEMMA StallPays ==
    ASSUME TypeOK, TypeOK', OwnersActive, \A n \in Messages : PaidFor(n), NEW j \in JobIds,
           RecoverStalledJob(j) \/ FalseStall(j)
    PROVE  \A n \in Messages : PaidFor(n)'
<1>t. /\ job \in [JobIds -> Job] /\ Null \notin Workers
      /\ Budget \in Nat /\ Budget' \in Nat
  BY WorkersAssumption, ErrorPays DEF TypeOK
<1>1. /\ \A i \in JobIds : i # j => job'[i] = job[i]
      /\ job'[j].owner = Null /\ UNCHANGED <<row, worker, admin, accepted>>
  BY <1>t DEF RecoverStalledJob, FalseStall, Stall, outside, Job
<1>2. /\ JobWeight(j) \in 0 .. 1 /\ JobWeight(j)' \in 0 .. 1
      /\ \A w, s : WorkerWeight(w, s) \in 0 .. 1 /\ WorkerWeight(w, s)' \in 0 .. 1
  BY DEF JobWeight, WorkerWeight
<1>3. CASE RecoverStalledJob(j)
  <2>1. JobWeight(j) = 1
    BY <1>3 DEF RecoverStalledJob, JobWeight, OpenJob, Works
  <2>2. \A s \in Goals : WorkerWeight(Null, s)' = 0 /\ WorkerWeight(Null, s) = 0
    BY <1>t DEF WorkerWeight
  <2>3. Budget' = Budget
    BY <1>3 DEF RecoverStalledJob, Budget
  <2>4. \A v \in Workers : v # Null /\ worker[v].pc # "idle" /\ worker[v].job = j =>
                                (job'[j].owner = v <=> job[j].owner = v)
    BY <1>1, <1>3 DEF RecoverStalledJob
  <2>5. \A s \in Goals : JobWeight(j)' + WorkerWeight(Null, s)' + Budget
                           <= JobWeight(j) + WorkerWeight(Null, s) + Budget'
    BY <1>t, <1>2, <2>1, <2>2, <2>3
  <2>6. Budget <= Budget'
    BY <1>t, <2>3
  <2>7. QED
    BY <1>1, <1>t, <2>4, <2>5, <2>6, QueuePays
<1>4. CASE FalseStall(j)
  <2>1. PICK w \in Workers : job[j].owner = w /\ worker[w].job = j
    BY <1>4 DEF FalseStall
  <2>2. \A s \in Goals : WorkerWeight(w, s)' <= WorkerWeight(w, s)
    <3>1. ~Owns(w)'
      BY <1>1, <1>t, <2>1 DEF Owns
    <3>2. \A s \in Goals : Counts(w, s)' => Counts(w, s)
      BY <1>1, <3>1 DEF Counts
    <3>3. QED
      BY <3>2 DEF WorkerWeight
  <2>3. Budget' = Budget + 1
    <3>1. faults \in [errors: Nat, crashes: Nat, falseStalls: Nat, requeues: Nat]
      BY DEF TypeOK
    <3>2. QED
      BY <1>4, <3>1 DEF FalseStall, Budget
  <2>4. \A v \in Workers : v # w => (job'[j].owner = v <=> job[j].owner = v)
    BY <1>1, <1>t, <2>1
  <2>5. \A s \in Goals : JobWeight(j)' + WorkerWeight(w, s)' + Budget
                           <= JobWeight(j) + WorkerWeight(w, s) + Budget'
    BY <1>t, <1>2, <2>2, <2>3
  <2>6. Budget <= Budget'
    BY <1>t, <2>3
  <2>7. QED
    BY <1>1, <2>1, <2>4, <2>5, <2>6, QueuePays
<1>5. QED
  BY <1>3, <1>4

RequestWeight(a) == IF OpenRequest(a) THEN 1 ELSE 0

(* A requeue request goes on: it takes a row and leaves a job, or a row again. *)
LEMMA RequestPays ==
    ASSUME TypeOK, TypeOK', NEW n \in Messages, PaidFor(n), NEW m \in Messages,
           NEW a \in Admins, NEW j \in JobIds, MessageOf(j) = m,
           OpenRequest(a) => admin[a].message = m,
           OpenRequest(a)' => admin'[a].message = m,
           \A b \in Admins : b # a => admin'[b] = admin[b],
           \A i \in JobIds : i # j => job'[i] = job[i],
           job'[j].owner = job[j].owner,
           n # m => row'[n] = row[n],
           UNCHANGED <<worker, accepted>>, Budget <= Budget',
           \A s \in Goals : JobWeight(j)' + RequestWeight(a)' + Settled(m, s)' + Budget
                              <= JobWeight(j) + RequestWeight(a) + Settled(m, s) + Budget'
    PROVE  PaidFor(n)'
<1>1. OpenJobs(n)' \ {j} = OpenJobs(n) \ {j}
  BY DEF OpenJobs, OpenJob, Works
<1>2. \A s \in Goals : OpenWorkers(n, s)' = OpenWorkers(n, s)
  <2>1. ASSUME NEW v \in Workers, NEW s \in Goals
        PROVE  Counts(v, s)' <=> Counts(v, s)
    <3>1. worker[v].pc = "threw" => worker[v].job \in JobIds
      BY DEF TypeOK
    <3>2. worker[v].pc = "threw" => (Owns(v)' <=> Owns(v))
      BY <3>1 DEF Owns
    <3>3. QED
      BY <3>2 DEF Counts
  <2>2. QED
    BY <2>1 DEF OpenWorkers, MessageOfWorker
<1>3. OpenRequests(n)' \ {a} = OpenRequests(n) \ {a}
  BY DEF OpenRequests, OpenRequest
<1>4. /\ j \in OpenJobs(n) <=> n = m /\ JobWeight(j) = 1
      /\ j \in OpenJobs(n)' <=> n = m /\ JobWeight(j)' = 1
      /\ a \in OpenRequests(n) <=> n = m /\ RequestWeight(a) = 1
      /\ a \in OpenRequests(n)' <=> n = m /\ RequestWeight(a)' = 1
  BY DEF OpenJobs, JobWeight, OpenRequests, RequestWeight
<1>5. \A s \in Goals :
        /\ JobWeight(j) \in 0 .. 1 /\ JobWeight(j)' \in 0 .. 1
        /\ RequestWeight(a) \in 0 .. 1 /\ RequestWeight(a)' \in 0 .. 1
        /\ Settled(n, s) \in Nat /\ Settled(n, s)' \in Nat
        /\ n # m => Settled(n, s)' = Settled(n, s)
  BY DEF JobWeight, RequestWeight, Settled
<1>6. Budget \in Nat /\ Budget' \in Nat /\ accepted[n] \in Nat
  BY ErrorPays DEF TypeOK
<1>7. ASSUME NEW s \in Goals
      PROVE  /\ IsFiniteSet(OpenRequests(n)') /\ Load(n, s) \in Nat /\ Load(n, s)' \in Nat
             /\ Load(n, s)' + Budget <= Load(n, s) + Budget'
  <2>1. IsFiniteSet(OpenRequests(n))
    BY DEF PaidFor
  <2>2. OpenWorkers(n, s)' \ {Null} = OpenWorkers(n, s) \ {Null}
    BY <1>2
  <2>3. /\ IsFiniteSet(OpenRequests(n)')
        /\ Load(n, s) \in Nat /\ Load(n, s)' \in Nat
        /\ Load(n, s)' + (IF j \in OpenJobs(n) THEN 1 ELSE 0)
               + (IF a \in OpenRequests(n) THEN 1 ELSE 0) + Settled(n, s)
           = Load(n, s) + (IF j \in OpenJobs(n)' THEN 1 ELSE 0)
               + (IF a \in OpenRequests(n)' THEN 1 ELSE 0) + Settled(n, s)'
    BY <1>1, <1>2, <1>3, <1>5, <2>1, <2>2, LoadChanges
  <2>4. CASE n = m
    BY <2>3, <2>4, <1>4, <1>5, <1>6
  <2>5. CASE n # m
    BY <2>3, <2>5, <1>4, <1>5, <1>6
  <2>6. QED
    BY <2>3, <2>4, <2>5
<1>8. QED
  BY <1>6, <1>7 DEF PaidFor, Goals

LEMMA RequeuePays ==
    ASSUME TypeOK, TypeOK', OwnersActive, \A n \in Messages : PaidFor(n), NEW a \in Admins,
           RequeueFind(a) \/ RequeueStep(a) \/ RequeueCrash(a)
    PROVE  \A n \in Messages : PaidFor(n)'
<1> SUFFICES ASSUME NEW n \in Messages
             PROVE  PaidFor(n)'
  OBVIOUS
<1>t. /\ admin \in [Admins -> Admin] /\ job \in [JobIds -> Job] /\ row \in [Messages -> SmsMessage]
      /\ admin[a].pc # "idle" => admin[a].message \in Messages
      /\ faults \in [errors: Nat, crashes: Nat, falseStalls: Nat, requeues: Nat]
      /\ Budget \in Nat /\ Budget' \in Nat
  BY ErrorPays DEF TypeOK
<1>w. UNCHANGED <<worker, accepted>>
  BY DEF RequeueFind, RequeueStep, RequeueTransition, PublishRequeue, RequeueRestore,
     RequeueThrows, RequeueCrash, outside
(* The requests that publish nothing. *)
<1>g. ASSUME NEW m \in Messages, UNCHANGED job,
             admin[a].pc # "idle" => admin[a].message = m,
             OpenRequest(a)' => admin'[a].message = m,
             \A b \in Admins : b # a => admin'[b] = admin[b],
             n # m => row'[n] = row[n], Budget <= Budget',
             \A s \in Goals : RequestWeight(a)' + Settled(m, s)' + Budget
                                <= RequestWeight(a) + Settled(m, s) + Budget'
      PROVE  PaidFor(n)'
  <2> DEFINE j == <<m, 0>>
  <2>1. j \in JobIds /\ MessageOf(j) = m
    BY BoundAssumption DEF JobIds, MessageOf
  <2> HIDE DEF j
  <2>2. JobWeight(j)' = JobWeight(j) /\ JobWeight(j) \in Nat
    BY <1>g, <1>w DEF JobWeight, OpenJob, Works
  <2>3. \A s \in Goals : /\ RequestWeight(a)' \in Nat /\ RequestWeight(a) \in Nat
                         /\ Settled(m, s) \in Nat /\ Settled(m, s)' \in Nat
    BY DEF RequestWeight, Settled
  <2>4. \A s \in Goals : JobWeight(j)' + RequestWeight(a)' + Settled(m, s)' + Budget
                           <= JobWeight(j) + RequestWeight(a) + Settled(m, s) + Budget'
    BY <1>g, <1>t, <2>2, <2>3
  <2>5. OpenRequest(a) => admin[a].message = m
    BY <1>g DEF OpenRequest
  <2>6. QED
    BY <1>g, <1>w, <2>1, <2>4, <2>5, RequestPays
<1>n. \A m, s : /\ RequestWeight(a) \in 0 .. 1 /\ RequestWeight(a)' \in 0 .. 1
                /\ Settled(m, s) \in 0 .. 1 /\ Settled(m, s)' \in 0 .. 1
  BY DEF RequestWeight, Settled
<1>r. UNCHANGED row => \A m, s : Settled(m, s)' = Settled(m, s)
  BY DEF Settled
<1>i. IdleAdmin.pc = "idle"
  BY DEF IdleAdmin
<1>1. CASE RequeueFind(a)
  <2>1. PICK m \in Messages :
          admin' = [admin EXCEPT ![a] = [pc |-> "transition", message |-> m,
                                         provider |-> row[m].selectedProvider]]
    BY <1>1 DEF RequeueFind
  <2>2. /\ admin[a].pc = "idle" /\ UNCHANGED <<row, job>> /\ admin'[a].pc = "transition"
        /\ \A b \in Admins : b # a => admin'[b] = admin[b]
    BY <1>1, <1>t, <2>1 DEF RequeueFind
  <2>3. RequestWeight(a)' = 0 /\ ~OpenRequest(a)'
    BY <2>2 DEF RequestWeight, OpenRequest
  <2>4. Budget' = Budget
    BY <1>1, <1>t DEF RequeueFind, Budget
  <2>5. \A s \in Goals : RequestWeight(a)' + Settled(m, s)' + Budget
                           <= RequestWeight(a) + Settled(m, s) + Budget'
    BY <1>t, <1>n, <1>r, <2>2, <2>3, <2>4
  <2>6. Budget <= Budget'
    BY <1>t, <2>4
  <2>7. QED
    BY <1>g, <2>2, <2>3, <2>5, <2>6
<1> SUFFICES ASSUME RequeueStep(a) \/ RequeueCrash(a), NEW m, m = admin[a].message
             PROVE  PaidFor(n)'
  BY <1>1
<1>m. admin[a].pc # "idle" /\ m \in Messages
  BY <1>t DEF RequeueStep, RequeueTransition, PublishRequeue, RequeueRestore,
     RequeueThrows, RequeueCrash
<1>a. ASSUME \/ admin' = [admin EXCEPT ![a] = IdleAdmin]
             \/ \E q \in AdminPcs : admin' = [admin EXCEPT ![a].pc = q]
      PROVE  /\ \A b \in Admins : b # a => admin'[b] = admin[b]
             /\ OpenRequest(a)' => admin'[a].message = m
  BY <1>a, <1>t, <1>i DEF Admin, OpenRequest
<1>pcs. {"requeueSms", "restore"} \subseteq AdminPcs
  BY DEF AdminPcs
<1>2. CASE RequeueTransition(a)
  <2>1. /\ admin[a].pc = "transition" /\ RequestWeight(a) = 0 /\ UNCHANGED job
    BY <1>2 DEF RequeueTransition, RequestWeight, OpenRequest
  <2>2. /\ \/ admin' = [admin EXCEPT ![a] = IdleAdmin]
           \/ \E q \in AdminPcs : admin' = [admin EXCEPT ![a].pc = q]
        /\ n # m => row'[n] = row[n]
        /\ Budget' = Budget \/ Budget' = Budget + 1
    BY <1>2, <1>t, <1>pcs, ErrorPays DEF RequeueTransition, SetRow
  <2>3. \A s \in Goals : RequestWeight(a)' + Settled(m, s)' <= Settled(m, s)
    <3>1. CASE /\ MayTransitionToQueued(row[m])
               /\ SetRow(m, TransitionFatalFailureToQueued(row[m]))
      <4>1. row[m].status = "FATAL_FAILURE" /\ row'[m].status = "QUEUED"
        BY <3>1, <1>t, <1>m DEF MayTransitionToQueued, TransitionFatalFailureToQueued, SetRow,
           SmsMessage
      <4>2. \A s \in Goals : Settled(m, s) = 1 /\ Settled(m, s)' = 0
        BY <4>1 DEF Settled
      <4>3. QED
        BY <4>2, <1>n
    <3>2. CASE admin' = [admin EXCEPT ![a] = IdleAdmin] /\ UNCHANGED row
      <4>1. admin'[a].pc = "idle"
        BY <3>2, <1>t, <1>i
      <4>2. RequestWeight(a)' = 0
        BY <4>1 DEF RequestWeight, OpenRequest
      <4>3. QED
        BY <3>2, <4>2, <1>n, <1>r
    <3>3. QED
      BY <1>2, <3>1, <3>2 DEF RequeueTransition
  <2>4. \A s \in Goals : RequestWeight(a)' + Settled(m, s)' + Budget
                           <= RequestWeight(a) + Settled(m, s) + Budget'
    BY <1>t, <1>n, <2>1, <2>2, <2>3
  <2>5. Budget <= Budget'
    BY <1>t, <2>2
  <2>6. QED
    BY <1>a, <1>g, <1>m, <2>1, <2>2, <2>4, <2>5
<1>3. CASE PublishRequeue(a)
  <2>1. PICK j \in JobIds : /\ j[1] = m /\ job[j].state = "absent"
                            /\ job' = [job EXCEPT ![j] = PublishedJob]
    <3>1. PICK g \in 1 .. MaxRequeues :
            job[<<m, g>>].state = "absent" /\ job' = [job EXCEPT ![<<m, g>>] = PublishedJob]
      BY <1>3 DEF PublishRequeue
    <3>2. <<m, g>> \in JobIds /\ <<m, g>>[1] = m
      BY <1>m, BoundAssumption DEF JobIds
    <3>3. QED
      BY <3>1, <3>2
  <2>2. /\ admin[a].pc = "requeueSms" /\ RequestWeight(a) = 1 /\ UNCHANGED row
    BY <1>3 DEF PublishRequeue, RequestWeight, OpenRequest
  <2>3. MessageOf(j) = m /\ JobWeight(j) = 0 /\ JobWeight(j)' \in 0 .. 1
    BY <2>1 DEF MessageOf, JobWeight, OpenJob
  <2>4. /\ \A i \in JobIds : i # j => job'[i] = job[i]
        /\ job'[j].owner = job[j].owner
    BY <1>t, <2>1 DEF OwnersActive, PublishedJob, AbsentJob
  <2>5. \/ admin' = [admin EXCEPT ![a] = IdleAdmin] /\ Budget' = Budget
        \/ \E q \in AdminPcs : admin' = [admin EXCEPT ![a].pc = q] /\ Budget' = Budget + 1
    BY <1>3, <1>pcs, ErrorPays DEF PublishRequeue
  <2>6. CASE Budget' = Budget /\ admin' = [admin EXCEPT ![a] = IdleAdmin]
    <3>1. RequestWeight(a)' = 0
      BY <1>t, <1>i, <2>6 DEF RequestWeight, OpenRequest
    <3>2. \A s \in Goals : JobWeight(j)' + RequestWeight(a)' + Settled(m, s)' + Budget
                             <= JobWeight(j) + RequestWeight(a) + Settled(m, s) + Budget'
      BY <1>t, <1>n, <1>r, <2>2, <2>3, <2>6, <3>1
    <3>3. Budget <= Budget'
      BY <1>t, <2>6
    <3>4. QED
      BY <1>a, <1>m, <1>w, <2>2, <2>3, <2>4, <2>6, <3>2, <3>3, RequestPays
  <2>7. CASE /\ Budget' = Budget + 1
             /\ \E q \in AdminPcs : admin' = [admin EXCEPT ![a].pc = q]
    <3>1. \A s \in Goals : JobWeight(j)' + RequestWeight(a)' + Settled(m, s)' + Budget
                             <= JobWeight(j) + RequestWeight(a) + Settled(m, s) + Budget'
      BY <1>t, <1>n, <1>r, <2>2, <2>3, <2>7
    <3>2. Budget <= Budget'
      BY <1>t, <2>7
    <3>3. QED
      BY <1>a, <1>m, <1>w, <2>2, <2>3, <2>4, <2>7, <3>1, <3>2, RequestPays
  <2>8. QED
    BY <2>5, <2>6, <2>7
<1>4. CASE RequeueRestore(a)
  <2>1. /\ RequestWeight(a) = 1 /\ admin' = [admin EXCEPT ![a] = IdleAdmin] /\ UNCHANGED job
        /\ n # m => row'[n] = row[n]
        /\ Budget' = Budget
    BY <1>4, <1>t DEF RequeueRestore, RequestWeight, OpenRequest, SetRow, Budget
  <2>2. RequestWeight(a)' = 0
    BY <1>t, <1>i, <2>1 DEF RequestWeight, OpenRequest
  <2>3. \A s \in Goals : RequestWeight(a)' + Settled(m, s)' + Budget
                           <= RequestWeight(a) + Settled(m, s) + Budget'
    BY <1>t, <1>n, <2>1, <2>2
  <2>4. Budget <= Budget'
    BY <1>t, <2>1
  <2>5. QED
    BY <1>a, <1>g, <1>m, <2>1, <2>3, <2>4
<1>5. CASE RequeueThrows(a) \/ RequeueCrash(a)
  <2>1. Budget' = Budget + 1
    <3>1. CASE RequeueThrows(a)
      BY <3>1, ErrorPays DEF RequeueThrows
    <3>2. CASE RequeueCrash(a)
      BY <3>2, <1>t DEF RequeueCrash, Budget
    <3>3. QED
      BY <1>5, <3>1, <3>2
  <2>2. UNCHANGED <<row, job>>
    BY <1>5 DEF RequeueThrows, RequeueCrash
  <2>3. \/ admin' = [admin EXCEPT ![a] = IdleAdmin]
        \/ \E q \in AdminPcs : /\ admin' = [admin EXCEPT ![a].pc = q]
                               /\ q = "restore" /\ admin[a].pc = "requeueSms"
    BY <1>5, <1>pcs DEF RequeueThrows, RequeueCrash
  <2>4. RequestWeight(a)' <= RequestWeight(a) + 1
    BY <1>n
  <2>5. \A s \in Goals : RequestWeight(a)' + Settled(m, s)' + Budget
                           <= RequestWeight(a) + Settled(m, s) + Budget'
    BY <1>t, <1>n, <1>r, <2>1, <2>2, <2>4
  <2>6. Budget <= Budget'
    BY <1>t, <2>1
  <2>7. QED
    BY <1>a, <1>g, <1>m, <2>2, <2>3, <2>5, <2>6
<1>6. QED
  BY <1>2, <1>3, <1>4, <1>5 DEF RequeueStep

(* Nobody was served yet: the one open job of a message is its first. *)
LEMMA PaidForInit == Init => OwnersActive /\ \A m \in Messages : PaidFor(m)
<1> SUFFICES ASSUME Init
             PROVE  OwnersActive /\ \A m \in Messages : PaidFor(m)
  OBVIOUS
<1>1. OwnersActive
  BY DEF Init, OwnersActive, PublishedJob, AbsentJob
<1>2. ASSUME NEW m \in Messages
      PROVE  PaidFor(m)
  <2>1. OpenJobs(m) = {<<m, 0>>}
    BY BoundAssumption
    DEF Init, OpenJobs, OpenJob, JobIds, MessageOf, PublishedJob, AbsentJob
  <2>2. OpenRequests(m) = {}
    BY DEF Init, Undispatched, OpenRequests, OpenRequest, IdleAdmin
  <2>3. \A s \in Goals : OpenWorkers(m, s) = {}
    BY DEF Init, Undispatched, OpenWorkers, Counts, HeldPcs, IdleWorker
  <2>4. \A s \in Goals : Settled(m, s) = 0
    BY DEF Init, Undispatched, Settled, QueuedMessage
  <2>5. \A s \in Goals : Load(m, s) = 1
    <3>1. Cardinality({<<m, 0>>}) = 1 /\ Cardinality({}) = 0
      BY FS_Singleton, FS_EmptySet
    <3>2. QED
      BY <2>1, <2>2, <2>3, <2>4, <3>1 DEF Load
  <2>6. accepted[m] = 0 /\ Budget = 1
    BY DEF Init, Undispatched, Budget, NoFaults
  <2>7. QED
    BY <2>2, <2>5, <2>6, FS_EmptySet DEF PaidFor, Goals
<1>3. QED
  BY <1>1, <1>2

LEMMA PaidForStep ==
    ASSUME TypeOK, TypeOK', OwnersActive, \A n \in Messages : PaidFor(n), [Next]_vars
    PROVE  \A n \in Messages : PaidFor(n)'
<1>1. ASSUME NEW w \in Workers, WorkerStep(w) \/ Crash(w)
      PROVE  \A n \in Messages : PaidFor(n)'
  BY <1>1, DispatchPays, LeavingPays DEF WorkerStep
<1>2. ASSUME NEW j \in JobIds, RecoverStalledJob(j) \/ FalseStall(j)
      PROVE  \A n \in Messages : PaidFor(n)'
  BY <1>2, StallPays
<1>3. ASSUME NEW a \in Admins, RequeueFind(a) \/ RequeueStep(a) \/ RequeueCrash(a)
      PROVE  \A n \in Messages : PaidFor(n)'
  BY <1>3, RequeuePays
<1>4. CASE Rest \/ UNCHANGED vars
  <2>1. UNCHANGED <<row, job, worker, admin, faults, accepted>>
    BY <1>4 DEF Rest, vars, outside
  <2>2. ASSUME NEW n \in Messages
        PROVE  PaidFor(n)'
    <3>1. /\ OpenJobs(n)' = OpenJobs(n) /\ OpenRequests(n)' = OpenRequests(n)
          /\ \A s \in Goals : /\ OpenWorkers(n, s)' = OpenWorkers(n, s)
                              /\ Settled(n, s)' = Settled(n, s)
      BY <2>1 DEF OpenJobs, OpenJob, Works, OpenRequests, OpenRequest, OpenWorkers, Counts,
         Owns, MessageOfWorker, Settled
    <3>2. \A s \in Goals : Load(n, s)' = Load(n, s)
      BY <3>1 DEF Load
    <3>3. QED
      BY <2>1, <3>1, <3>2 DEF PaidFor, Budget, Goals
  <2>3. QED
    BY <2>2
<1>5. QED
  BY <1>1, <1>2, <1>3, <1>4 DEF Next, Activity

LEMMA AlwaysPaidFor == Spec => [](OwnersActive /\ \A m \in Messages : PaidFor(m))
<1> DEFINE Paid == OwnersActive /\ \A m \in Messages : PaidFor(m)
<1>1. Init => Paid
  BY PaidForInit
<1>2. TypeOK /\ TypeOK' /\ Paid /\ [Next]_vars => Paid'
  BY OwnersActiveStep, PaidForStep
<1> HIDE DEF Paid
<1>3. Spec => []Paid
  BY <1>1, <1>2, TypeCorrect, PTL DEF Spec
<1>4. QED
  BY <1>3 DEF Paid

(***************************************************************************)
(* However many workers, retries, stalls and requeues there are, a message *)
(* is accepted by a provider more than once only as often as something     *)
(* went wrong: a lost answer or connection, a crash, a false stall. A      *)
(* requeue alone never duplicates, since only a FATAL_FAILURE row is taken *)
(* back and the job that replaces it is the only lead left.                *)
(***************************************************************************)
THEOREM DuplicatesPaidFor == Spec => []DuplicatesArePaidFor
<1>1. TypeOK /\ (\A m \in Messages : PaidFor(m)) => DuplicatesArePaidFor
  <2> SUFFICES ASSUME TypeOK, NEW m \in Messages, PaidFor(m)
               PROVE  accepted[m] <= 1 + faults.errors + faults.crashes + faults.falseStalls
    BY DEF DuplicatesArePaidFor
  <2>1. accepted[m] + Load(m, "send") <= Budget
    BY DEF PaidFor
  <2>2. accepted[m] \in Nat /\ Budget \in Nat
    BY BudgetType DEF TypeOK
  <2>3. Load(m, "send") \in Nat
    <3>1. /\ Cardinality(OpenJobs(m)) \in Nat
          /\ Cardinality(OpenWorkers(m, "send")) \in Nat
          /\ Cardinality(OpenRequests(m)) \in Nat
      BY OpenFinite, FS_CardinalityType DEF PaidFor
    <3>2. Settled(m, "send") \in Nat
      BY DEF Settled
    <3>3. QED
      BY <3>1, <3>2 DEF Load
  <2>4. accepted[m] <= Budget
    BY <2>1, <2>2, <2>3
  <2>5. QED
    BY <2>4 DEF Budget
<1>2. QED
  BY <1>1, TypeCorrect, AlwaysPaidFor, PTL

-----------------------------------------------------------------------------
(***************************************************************************)
(* No live worker was taken for dead, and a behaviour has requeues or      *)
(* faults but not both: two live jobs of one message are then impossible.  *)
(***************************************************************************)
Apart ==
    /\ faults.falseStalls = 0
    /\ faults.requeues = 0 \/ (faults.errors = 0 /\ faults.crashes = 0)

(* What each kind of misfortune is needed for. *)
Footing ==
    /\ faults.falseStalls = 0 =>
            \A w \in Workers : worker[w].pc # "idle" => Owns(w)
    /\ faults.requeues = 0 =>
            /\ \A a \in Admins : admin[a].pc = "idle"
            /\ \A j \in JobIds : j[2] # 0 => job[j].state = "absent"
    /\ \A a \in Admins : admin[a].pc = "restore" => faults.errors # 0

(* Under Apart, a message being dispatched stays PROCESSING until its end. *)
Claimed ==
    \A w \in Workers :
        worker[w].pc \in DispatchPcs => row[MessageOfWorker(w)].status = "PROCESSING"

LEMMA FaultsGrow ==
    ASSUME TypeOK, TypeOK', [Next]_vars
    PROVE  /\ faults.errors <= faults'.errors /\ faults.crashes <= faults'.crashes
           /\ faults.falseStalls <= faults'.falseStalls /\ faults.requeues <= faults'.requeues
           /\ {faults.errors, faults.crashes, faults.falseStalls, faults.requeues} \subseteq Nat
           /\ {faults'.errors, faults'.crashes, faults'.falseStalls, faults'.requeues}
                \subseteq Nat
<1>t. /\ faults \in [errors: Nat, crashes: Nat, falseStalls: Nat, requeues: Nat]
      /\ faults' \in [errors: Nat, crashes: Nat, falseStalls: Nat, requeues: Nat]
  BY DEF TypeOK
<1>1. \/ UNCHANGED faults
      \/ faults' = [faults EXCEPT !.errors = @ + 1]
      \/ faults' = [faults EXCEPT !.crashes = @ + 1]
      \/ faults' = [faults EXCEPT !.falseStalls = @ + 1]
      \/ faults' = [faults EXCEPT !.requeues = @ + 1]
  <2>1. ASSUME NEW w \in Workers, WorkerStep(w) \/ Crash(w)
        PROVE  \/ UNCHANGED faults
               \/ faults' = [faults EXCEPT !.errors = @ + 1]
               \/ faults' = [faults EXCEPT !.crashes = @ + 1]
    BY <2>1 DEF WorkerStep, Process, DispatchStep, FindById, ClaimMessage, CountAttempt,
       Throttle, SendSms, RecordSent, RecordFatalFailure, EnqueueDeadLetter, CallThrows,
       JobCompletes, JobFails, Crash, Answered, ErrorHappens
  <2>2. ASSUME NEW j \in JobIds, RecoverStalledJob(j) \/ FalseStall(j)
        PROVE  UNCHANGED faults \/ faults' = [faults EXCEPT !.falseStalls = @ + 1]
    BY <2>2 DEF RecoverStalledJob, FalseStall
  <2>3. ASSUME NEW a \in Admins, RequeueFind(a) \/ RequeueStep(a) \/ RequeueCrash(a)
        PROVE  \/ UNCHANGED faults
               \/ faults' = [faults EXCEPT !.errors = @ + 1]
               \/ faults' = [faults EXCEPT !.crashes = @ + 1]
               \/ faults' = [faults EXCEPT !.requeues = @ + 1]
    BY <2>3 DEF RequeueFind, RequeueStep, RequeueTransition, PublishRequeue, RequeueRestore,
       RequeueThrows, RequeueCrash, ErrorHappens
  <2>4. CASE Rest \/ UNCHANGED vars
    BY <2>4 DEF Rest, vars
  <2>5. QED
    BY <2>1, <2>2, <2>3, <2>4 DEF Next, Activity
<1>2. QED
  BY <1>t, <1>1

(* Apart is about the whole past: once it is false it stays false. *)
LEMMA ApartBefore == TypeOK /\ TypeOK' /\ [Next]_vars /\ Apart' => Apart
BY FaultsGrow DEF Apart

(* A worker in the middle of a job goes on to another call for the same job. *)
LEMMA DispatchMoves ==
    ASSUME TypeOK, NEW w \in Workers, DispatchStep(w) \/ CallThrows(w)
    PROVE  /\ worker[w].pc # "idle" /\ UNCHANGED <<job, admin>>
           /\ \A v \in Workers : v # w => worker'[v] = worker[v]
           /\ worker'[w].job = worker[w].job /\ worker'[w].pc # "idle"
<1>1. worker \in [Workers -> Worker] /\ worker[w] \in Worker
  BY DEF TypeOK
<1>2. worker[w].pc # "idle" /\ UNCHANGED <<job, admin>>
  BY DEF DispatchStep, FindById, ClaimMessage, CountAttempt, Throttle, SendSms,
     RecordSent, RecordFatalFailure, EnqueueDeadLetter, CallThrows, DatabasePcs, QueuePcs
<1>3. CASE SendSms(w)
  <2>1. CASE \E retryable \in BOOLEAN : AfterFailedSend(w, retryable)
    <3>1. PICK retryable \in BOOLEAN : AfterFailedSend(w, retryable)
      BY <2>1
    <3>2. \A v \in Workers : v # w => worker'[v] = worker[v]
      BY <1>1, <3>1 DEF AfterFailedSend
    <3>3. worker'[w].job = worker[w].job /\ worker'[w].pc # "idle"
      BY <1>1, <3>1 DEF AfterFailedSend, Worker
    <3>4. QED
      BY <1>2, <3>2, <3>3
  <2>2. CASE \E pid : worker' = [worker EXCEPT ![w].pc = "markSent", ![w].pid = pid]
    <3>1. PICK pid : worker' = [worker EXCEPT ![w].pc = "markSent", ![w].pid = pid]
      BY <2>2
    <3>2. worker'[w] = [worker[w] EXCEPT !.pc = "markSent", !.pid = pid]
      BY <1>1, <3>1
    <3>3. \A v \in Workers : v # w => worker'[v] = worker[v]
      BY <1>1, <3>1
    <3>4. worker'[w].job = worker[w].job /\ worker'[w].pc = "markSent"
      BY <1>1, <3>2 DEF Worker
    <3>5. QED
      BY <1>2, <3>3, <3>4
  <2>3. QED
    BY <1>2, <1>3, <2>1, <2>2 DEF SendSms
<1>4. ASSUME NEW q, q # "idle",
             worker' = [worker EXCEPT ![w] = [worker[w] EXCEPT !.pc = q]]
      PROVE  /\ \A v \in Workers : v # w => worker'[v] = worker[v]
             /\ worker'[w].job = worker[w].job /\ worker'[w].pc # "idle"
  BY <1>1, <1>4 DEF Worker
<1>5. ASSUME NEW pc \in {"markProcessing", "returned", "incrementAttempts", "throttle", "sendSms",
                         "enqueueDeadLetter", "threw"},
             Answered(w, pc) \/ Goto(w, pc)
      PROVE  /\ \A v \in Workers : v # w => worker'[v] = worker[v]
             /\ worker'[w].job = worker[w].job /\ worker'[w].pc # "idle"
  <2>1. PICK q \in {pc, "threw"} :
            worker' = [worker EXCEPT ![w] = [worker[w] EXCEPT !.pc = q]]
    BY <1>5, WorkerGoes
  <2>2. QED
    BY <1>4, <2>1
<1>6. CASE FindById(w)
  BY <1>2, <1>5, <1>6 DEF FindById
<1>7. CASE ClaimMessage(w) \/ CountAttempt(w) \/ Throttle(w)
  BY <1>2, <1>5, <1>7 DEF ClaimMessage, CountAttempt, Throttle
<1>8. CASE RecordSent(w) \/ RecordFatalFailure(w)
  BY <1>2, <1>5, <1>8 DEF RecordSent, RecordFatalFailure
<1>9. CASE EnqueueDeadLetter(w) \/ CallThrows(w)
  BY <1>2, <1>5, <1>9 DEF EnqueueDeadLetter, CallThrows
<1>10. QED
  BY <1>3, <1>6, <1>7, <1>8, <1>9 DEF DispatchStep

LEMMA FootingInit == Init => Footing
BY DEF Init, Undispatched, Footing, IdleWorker, IdleAdmin, AbsentJob

LEMMA FootingStep ==
    ASSUME TypeOK, TypeOK', OwnersActive, Footing, [Next]_vars
    PROVE  Footing'
<1>t. /\ worker \in [Workers -> Worker] /\ job \in [JobIds -> Job]
      /\ admin \in [Admins -> Admin]
      /\ \A w \in Workers : worker[w].pc # "idle" => worker[w].job \in JobIds
      /\ Null \notin Workers
  BY WorkersAssumption DEF TypeOK
<1>f. /\ faults'.falseStalls = 0 => faults.falseStalls = 0
      /\ faults'.requeues = 0 => faults.requeues = 0
      /\ faults.errors # 0 => faults'.errors # 0
  BY FaultsGrow
(* Workers and the job they hold. *)
<1>1. ASSUME NEW w \in Workers, WorkerStep(w) \/ Crash(w)
      PROVE  Footing'
  <2>a. admin' = admin
    BY <1>1 DEF WorkerStep, Process, DispatchStep, FindById, ClaimMessage, CountAttempt,
       Throttle, SendSms, RecordSent, RecordFatalFailure, EnqueueDeadLetter, CallThrows,
       JobCompletes, JobFails, Crash
  <2>g. ASSUME \A v \in Workers : v # w => worker'[v] = worker[v],
               \A v \in Workers : worker[v].pc # "idle" /\ v # w /\ Owns(v) => Owns(v)',
               worker'[w].pc # "idle" => (worker[w].pc # "idle" /\ Owns(w) => Owns(w)')
                                         /\ (worker[w].pc = "idle" => Owns(w)'),
               \A j \in JobIds : job[j].state = "absent" => job'[j].state = "absent"
        PROVE  Footing'
    BY <1>f, <2>a, <2>g DEF Footing
  <2>1. CASE Process(w)
    <3>1. PICK j \in JobIds :
            /\ job[j].state = "waiting"
            /\ job' = [job EXCEPT ![j].state = "active", ![j].owner = w]
            /\ worker' = [worker EXCEPT ![w] = [IdleWorker EXCEPT !.pc = "findById", !.job = j]]
      BY <2>1 DEF Process
    <3>2. /\ \A v \in Workers : v # w => worker'[v] = worker[v]
          /\ worker'[w].job = j /\ worker[w].pc = "idle"
      BY <1>t, <2>1, <3>1 DEF Process, IdleWorker
    <3>3. /\ \A i \in JobIds : i # j => job'[i] = job[i]
          /\ job'[j].owner = w /\ job[j].owner = Null
      BY <1>t, <3>1 DEF OwnersActive, Job
    <3>4. \A v \in Workers : worker[v].pc # "idle" /\ v # w /\ Owns(v) => Owns(v)'
      BY <1>t, <3>2, <3>3 DEF Owns
    <3>5. Owns(w)'
      BY <3>2, <3>3 DEF Owns
    <3>6. QED
      BY <2>g, <3>1, <3>2, <3>3, <3>4, <3>5
  <2>2. CASE DispatchStep(w) \/ CallThrows(w)
    <3>1. /\ job' = job /\ worker[w].pc # "idle" /\ worker'[w].job = worker[w].job
          /\ \A v \in Workers : v # w => worker'[v] = worker[v]
      BY <2>2, DispatchMoves
    <3>2. QED
      BY <2>g, <3>1 DEF Owns
  <2>3. CASE JobCompletes(w) \/ JobFails(w)
    <3>1. /\ worker' = [worker EXCEPT ![w] = IdleWorker] /\ worker[w].pc # "idle"
          /\ worker[w].job \in JobIds
      BY <1>t, <2>3 DEF JobCompletes, JobFails
    <3>2. /\ worker'[w].pc = "idle" /\ \A v \in Workers : v # w => worker'[v] = worker[v]
      BY <1>t, <3>1, InitialWorker
    <3>3. /\ \A i \in JobIds : i # worker[w].job => job'[i] = job[i]
          /\ job' = job \/ Owns(w)
      BY <1>t, <2>3, <3>1 DEF JobCompletes, JobFails
    <3>4. Owns(w) => job[worker[w].job].state = "active" /\ job[worker[w].job].owner = w
      BY <1>t, <3>1 DEF Owns, OwnersActive
    <3>5. \A v \in Workers : worker[v].pc # "idle" /\ v # w /\ Owns(v) => Owns(v)'
      BY <1>t, <3>2, <3>3, <3>4 DEF Owns
    <3>6. \A j \in JobIds : job[j].state = "absent" => job'[j].state = "absent"
      BY <3>3, <3>4
    <3>7. QED
      BY <2>g, <3>2, <3>5, <3>6
  <2>4. CASE Crash(w)
    <3>1. worker' = [worker EXCEPT ![w] = IdleWorker] /\ job' = job
      BY <2>4 DEF Crash
    <3>2. /\ worker'[w].pc = "idle" /\ \A v \in Workers : v # w => worker'[v] = worker[v]
      BY <1>t, <3>1, InitialWorker
    <3>3. QED
      BY <2>g, <3>1, <3>2 DEF Owns
  <2>5. QED
    BY <1>1, <2>1, <2>2, <2>3, <2>4 DEF WorkerStep
<1>2. ASSUME NEW j \in JobIds, RecoverStalledJob(j) \/ FalseStall(j)
      PROVE  Footing'
  <2>1. /\ job[j].state = "active" /\ UNCHANGED <<worker, admin>>
        /\ \A i \in JobIds : i # j => job'[i] = job[i]
    BY <1>t, <1>2 DEF RecoverStalledJob, FalseStall, Stall
  <2>2. \A i \in JobIds : job[i].state = "absent" => job'[i].state = "absent"
    BY <2>1
  <2>3. ASSUME faults'.falseStalls = 0, NEW v \in Workers, worker[v].pc # "idle"
        PROVE  Owns(v)'
    <3>1. RecoverStalledJob(j)
      <4>1. FalseStall(j) => faults'.falseStalls = faults.falseStalls + 1
        BY DEF FalseStall, TypeOK
      <4>2. faults.falseStalls \in Nat
        BY DEF TypeOK
      <4>3. QED
        BY <1>2, <2>3, <4>1, <4>2
    <3>2. Owns(v) /\ worker[v].job # j
      BY <1>f, <2>3, <3>1 DEF Footing, RecoverStalledJob, Owns
    <3>3. QED
      BY <1>t, <2>1, <2>3, <3>2 DEF Owns
  <2>4. QED
    BY <1>f, <2>1, <2>2, <2>3 DEF Footing
<1>3. ASSUME NEW a \in Admins, RequeueFind(a) \/ RequeueStep(a) \/ RequeueCrash(a)
      PROVE  Footing'
  <2>w. worker' = worker
    BY <1>3 DEF RequeueFind, RequeueStep, RequeueTransition, PublishRequeue, RequeueRestore,
       RequeueThrows, RequeueCrash
  <2>1. faults'.requeues # 0
    <3>1. CASE RequeueFind(a)
      <4>1. faults.requeues \in Nat /\ faults'.requeues = faults.requeues + 1
        BY <3>1 DEF RequeueFind, TypeOK
      <4>2. QED
        BY <4>1
    <3>2. CASE RequeueStep(a) \/ RequeueCrash(a)
      <4>1. admin[a].pc # "idle"
        BY <3>2 DEF RequeueStep, RequeueTransition, PublishRequeue, RequeueRestore,
           RequeueThrows, RequeueCrash
      <4>2. QED
        BY <1>f, <4>1 DEF Footing
    <3>3. QED
      BY <1>3, <3>1, <3>2
  <2>2. \A v \in Workers : worker[v].pc # "idle" /\ Owns(v) => Owns(v)'
    <3>1. CASE job' = job
      BY <2>w, <3>1 DEF Owns
    <3>2. CASE PublishRequeue(a)
      <4>1. PICK g \in 1 .. MaxRequeues :
              /\ job[<<admin[a].message, g>>].state = "absent"
              /\ job' = [job EXCEPT ![<<admin[a].message, g>>] = PublishedJob]
        BY <3>2 DEF PublishRequeue
      <4>2. ASSUME NEW v \in Workers, worker[v].pc # "idle", Owns(v)
            PROVE  Owns(v)'
        <5>1. worker[v].job \in JobIds /\ job[worker[v].job].owner = v
          BY <1>t, <4>2 DEF Owns
        <5>2. job[worker[v].job].state = "active"
          BY <1>t, <5>1 DEF OwnersActive
        <5>3. job'[worker[v].job] = job[worker[v].job]
          BY <1>t, <4>1, <5>1, <5>2
        <5>4. QED
          BY <2>w, <5>1, <5>3 DEF Owns
      <4>3. QED
        BY <4>2
    <3>3. QED
      BY <1>3, <3>1, <3>2 DEF RequeueFind, RequeueStep, RequeueTransition, RequeueRestore,
         RequeueThrows, RequeueCrash
  <2>3. \A b \in Admins : admin'[b].pc = "restore" => admin[b].pc = "restore" \/ faults'.errors # 0
    <3>1. ErrorHappens => faults'.errors # 0
      <4>1. ErrorHappens => faults'.errors = faults.errors + 1 /\ faults.errors \in Nat
        BY DEF ErrorHappens, TypeOK
      <4>2. QED
        BY <4>1
    <3>2. CASE RequeueFind(a) \/ RequeueTransition(a) \/ RequeueCrash(a) \/ RequeueRestore(a)
      BY <1>t, <3>2, InitialAdmin DEF RequeueFind, RequeueTransition, RequeueCrash,
         RequeueRestore, Admin
    <3>3. CASE PublishRequeue(a) \/ RequeueThrows(a)
      BY <1>t, <3>1, <3>3, InitialAdmin DEF PublishRequeue, RequeueThrows, Admin
    <3>4. QED
      BY <1>3, <3>2, <3>3 DEF RequeueStep
  <2>4. QED
    BY <1>f, <2>1, <2>2, <2>3, <2>w DEF Footing
<1>4. CASE Rest \/ UNCHANGED vars
  BY <1>4 DEF Rest, vars, Footing, Owns
<1>5. QED
  BY <1>1, <1>2, <1>3, <1>4 DEF Next, Activity

(***************************************************************************)
(* Two workers never hold the same message: without requeues it has one    *)
(* job and the job one owner; without faults its load is one.              *)
(***************************************************************************)
LEMMA OneHolder ==
    ASSUME TypeOK, OwnersActive, Footing, Apart, \A m \in Messages : PaidFor(m),
           NEW v \in Workers, NEW w \in Workers, MessageOfWorker(v) = MessageOfWorker(w),
           worker[v].pc \in HeldPcs("settle"), worker[w].pc \in HeldPcs("settle")
    PROVE  v = w
<1>1. /\ worker[v].pc # "idle" /\ worker[w].pc # "idle"
      /\ worker[v].job \in JobIds /\ worker[w].job \in JobIds
  BY DEF TypeOK, HeldPcs
<1>2. Owns(v) /\ Owns(w)
  BY <1>1 DEF Apart, Footing
<1>3. CASE faults.requeues = 0
  <2>1. job[worker[v].job].state = "active" /\ job[worker[w].job].state = "active"
    BY <1>1, <1>2, WorkersAssumption DEF OwnersActive, Owns
  <2>2. worker[v].job[2] = 0 /\ worker[w].job[2] = 0
    BY <1>1, <1>3, <2>1 DEF Footing
  <2>3. worker[v].job = worker[w].job
    BY <1>1, <2>2 DEF JobIds, MessageOfWorker, MessageOf
  <2>4. QED
    BY <1>2, <2>3 DEF Owns
<1>4. CASE faults.errors = 0 /\ faults.crashes = 0
  <2> DEFINE m == MessageOfWorker(v)
  <2>1. m \in Messages
    BY <1>1, JobMessage DEF MessageOfWorker
  <2>2. Load(m, "settle") <= 1
    <3>1. Budget = 1
      BY <1>4 DEF Budget, Apart
    <3>2. Load(m, "settle") <= Budget
      BY <2>1 DEF PaidFor
    <3>3. QED
      BY <3>1, <3>2
  <2>3. /\ Cardinality(OpenJobs(m)) \in Nat /\ Cardinality(OpenWorkers(m, "settle")) \in Nat
        /\ Cardinality(OpenRequests(m)) \in Nat /\ Settled(m, "settle") \in Nat
    BY <2>1, OpenFinite, FS_CardinalityType DEF PaidFor, Settled
  <2>4. Cardinality(OpenWorkers(m, "settle")) <= 1
    BY <2>2, <2>3 DEF Load
  <2>5. v \in OpenWorkers(m, "settle") /\ w \in OpenWorkers(m, "settle")
    BY DEF OpenWorkers, Counts
  <2>6. Cardinality(OpenWorkers(m, "settle")) = 1
    BY <2>3, <2>4, <2>5, OpenFinite, FS_EmptySet
  <2>7. QED
    BY <2>5, <2>6, OpenFinite, FS_Singleton
<1>5. QED
  BY <1>3, <1>4 DEF Apart

LEMMA DispatchersHold == DispatchPcs \subseteq HeldPcs("settle")
BY DEF DispatchPcs, HeldPcs

(* What holds in every state a behaviour reaches, Apart or not. *)
Ground == TypeOK /\ OwnersActive /\ Footing /\ \A m \in Messages : PaidFor(m)

LEMMA AlwaysGround == Spec => []Ground
<1>1. Init => Footing
  BY FootingInit
<1>2. TypeOK /\ TypeOK' /\ OwnersActive /\ Footing /\ [Next]_vars => Footing'
  BY FootingStep
<1>3. (OwnersActive /\ \A m \in Messages : PaidFor(m)) => OwnersActive
  OBVIOUS
<1>4. Spec => [](TypeOK /\ OwnersActive /\ Footing)
  BY <1>1, <1>2, <1>3, TypeCorrect, AlwaysPaidFor, PTL DEF Spec
<1>5. TypeOK /\ OwnersActive /\ Footing /\ (OwnersActive /\ \A m \in Messages : PaidFor(m))
        => Ground
  BY DEF Ground
<1>6. QED
  BY <1>4, <1>5, AlwaysPaidFor, PTL

(***************************************************************************)
(* Without false stalls, and with requeues and faults kept apart, no two   *)
(* workers are between the claim and the end of a dispatch of the same     *)
(* message: the compare-and-set of markProcessing, which lets a second     *)
(* worker claim a PROCESSING row, never meets a second worker.             *)
(***************************************************************************)
THEOREM SoleDispatcherApart == Spec => [](Apart => SoleDispatcher)
<1>1. Ground /\ Apart => SoleDispatcher
  <2> SUFFICES ASSUME Ground, Apart, NEW m \in Messages
               PROVE  Cardinality(Dispatchers(m)) <= 1
    BY DEF SoleDispatcher
  <2>1. \A v, w \in Dispatchers(m) : v = w
    BY OneHolder, DispatchersHold DEF Ground, Dispatchers
  <2>2. CASE Dispatchers(m) = {}
    BY <2>2, FS_EmptySet
  <2>3. CASE Dispatchers(m) # {}
    <3>1. PICK v \in Dispatchers(m) : TRUE
      BY <2>3
    <3>2. Dispatchers(m) = {v}
      BY <2>1, <3>1
    <3>3. Cardinality({v}) = 1
      BY FS_Singleton
    <3>4. QED
      BY <3>2, <3>3
  <2>4. QED
    BY <2>2, <2>3
<1>2. QED
  BY <1>1, AlwaysGround, PTL

-----------------------------------------------------------------------------
(* How the status of the messages moves while Apart. *)

(* The worker at w goes from one call to the next; the row may change. *)
LEMMA ClaimedKept ==
    ASSUME TypeOK, Claimed, NEW w \in Workers,
           \A v \in Workers : v # w => worker'[v] = worker[v],
           worker'[w].pc \in DispatchPcs =>
                row'[MessageOfWorker(w)'].status = "PROCESSING",
           \A v \in Workers : v # w /\ worker[v].pc \in DispatchPcs =>
                row'[MessageOfWorker(v)].status = row[MessageOfWorker(v)].status
    PROVE  Claimed'
BY DEF Claimed, MessageOfWorker

LEMMA ClaimedDispatch ==
    ASSUME Ground, Apart, Claimed, NEW w \in Workers, DispatchStep(w) \/ CallThrows(w)
    PROVE  /\ Claimed'
           /\ \A n \in Messages : row'[n].status # row[n].status =>
                \/ ClaimMessage(w) /\ row[n].status = "QUEUED" /\ row'[n].status = "PROCESSING"
                \/ RecordSent(w) /\ row[n].status = "PROCESSING" /\ row'[n].status = "SENT"
                \/ /\ RecordFatalFailure(w)
                   /\ row[n].status = "PROCESSING" /\ row'[n].status = "FATAL_FAILURE"
           /\ \A n \in Messages : n # MessageOfWorker(w) => row'[n].status = row[n].status
<1> SUFFICES ASSUME NEW m, m = MessageOfWorker(w)
             PROVE  /\ Claimed'
                    /\ \A n \in Messages : row'[n].status # row[n].status =>
                        \/ /\ ClaimMessage(w)
                           /\ row[n].status = "QUEUED" /\ row'[n].status = "PROCESSING"
                        \/ /\ RecordSent(w)
                           /\ row[n].status = "PROCESSING" /\ row'[n].status = "SENT"
                        \/ /\ RecordFatalFailure(w)
                           /\ row[n].status = "PROCESSING" /\ row'[n].status = "FATAL_FAILURE"
                    /\ \A n \in Messages : n # m => row'[n].status = row[n].status
  OBVIOUS
<1>t. /\ TypeOK /\ row \in [Messages -> SmsMessage]
      /\ worker[w] \in Worker /\ worker \in [Workers -> Worker]
  BY DEF Ground, TypeOK
<1>w. /\ worker[w].pc # "idle" /\ m \in Messages /\ row[m] \in SmsMessage
      /\ \A v \in Workers : v # w => worker'[v] = worker[v]
      /\ worker'[w].job = worker[w].job /\ MessageOfWorker(w)' = m
  BY <1>t, DispatchMoves, JobMessage DEF TypeOK, MessageOfWorker
<1>c. worker[w].pc \in DispatchPcs => row[m].status = "PROCESSING"
  BY DEF Claimed
<1>s. ASSUME worker[w].pc \in DispatchPcs, NEW v \in Workers, v # w,
             worker[v].pc \in DispatchPcs
      PROVE  MessageOfWorker(v) # m
  BY <1>s, OneHolder, DispatchersHold DEF Ground
<1>pc. /\ {"incrementAttempts", "throttle", "sendSms", "markSent", "markFatalFailure"}
            = DispatchPcs
  BY DEF DispatchPcs
(* Steps that leave every status alone. *)
<1>q. ASSUME \A n \in Messages : row'[n].status = row[n].status,
             worker'[w].pc \in DispatchPcs => worker[w].pc \in DispatchPcs
      PROVE  Claimed'
  <2>1. \A v \in Workers : worker[v].pc \in DispatchPcs => MessageOfWorker(v) \in Messages
    BY <1>t, JobMessage DEF TypeOK, DispatchPcs, MessageOfWorker
  <2>2. QED
    BY <1>q, <1>t, <1>w, <1>c, <2>1, ClaimedKept
<1>g. ASSUME NEW pc, Answered(w, pc) \/ Goto(w, pc)
      PROVE  worker'[w].pc \in {pc, "threw"}
  <2>1. PICK q \in {pc, "threw"} :
            worker' = [worker EXCEPT ![w] = [worker[w] EXCEPT !.pc = q]]
    BY <1>g, <1>t, WorkerGoes
  <2>2. QED
    BY <1>t, <2>1 DEF Worker
<1>1. CASE FindById(w) \/ Throttle(w) \/ EnqueueDeadLetter(w) \/ CallThrows(w)
  <2>1. UNCHANGED row
    BY <1>1 DEF FindById, Throttle, EnqueueDeadLetter, CallThrows
  <2>2. worker'[w].pc \in DispatchPcs => worker[w].pc \in DispatchPcs
    <3>1. CASE FindById(w)
      <4>1. worker'[w].pc \in {"returned", "markProcessing", "threw"}
        BY <3>1, <1>g DEF FindById
      <4>2. QED
        BY <4>1, <1>pc
    <3>2. CASE Throttle(w)
      BY <3>2, <1>pc DEF Throttle
    <3>3. CASE EnqueueDeadLetter(w) \/ CallThrows(w)
      <4>1. worker'[w].pc \in {"returned", "threw"}
        BY <3>3, <1>g DEF EnqueueDeadLetter, CallThrows
      <4>2. QED
        BY <4>1, <1>pc
    <3>4. QED
      BY <1>1, <3>1, <3>2, <3>3
  <2>3. QED
    BY <1>q, <2>1, <2>2
<1>2. CASE ClaimMessage(w)
  <2>1. CASE MayMarkProcessing(row[m]) /\ SetRow(m, MarkProcessing(row[m]))
    <3>1. /\ row'[m].status = "PROCESSING" /\ \A n \in Messages : n # m => row'[n] = row[n]
      BY <1>t, <1>w, <2>1 DEF SetRow, MarkProcessing, SmsMessage
    <3>2. row[m].status \in {"QUEUED", "PROCESSING"}
      BY <2>1 DEF MayMarkProcessing, ClaimableStatuses
    <3>3. \A v \in Workers : v # w /\ worker[v].pc \in DispatchPcs =>
                row'[MessageOfWorker(v)].status = row[MessageOfWorker(v)].status
      <4>1. \A v \in Workers : worker[v].pc \in DispatchPcs =>
                /\ MessageOfWorker(v) \in Messages
                /\ row[MessageOfWorker(v)].status = "PROCESSING"
        BY <1>t, JobMessage DEF TypeOK, DispatchPcs, MessageOfWorker, Claimed
      <4>2. QED
        BY <3>1, <4>1
    <3>4. QED
      BY <1>2, <1>t, <1>w, <3>1, <3>2, <3>3, ClaimedKept
  <2>2. CASE UNCHANGED row /\ Answered(w, "returned")
    <3>1. worker'[w].pc \notin DispatchPcs
      BY <2>2, <1>g, <1>pc
    <3>2. QED
      BY <1>q, <2>2, <3>1
  <2>3. QED
    BY <1>2, <2>1, <2>2 DEF ClaimMessage
<1>3. CASE CountAttempt(w)
  <2>1. \A n \in Messages : row'[n].status = row[n].status
    BY <1>3, <1>t, <1>w DEF CountAttempt, SetRow, IncrementAttempts, SmsMessage
  <2>2. worker[w].pc \in DispatchPcs
    BY <1>3, <1>pc DEF CountAttempt
  <2>3. QED
    BY <1>q, <2>1, <2>2
<1>4. CASE SendSms(w)
  <2>1. UNCHANGED row /\ worker[w].pc \in DispatchPcs
    BY <1>4, <1>pc DEF SendSms
  <2>2. QED
    BY <1>q, <2>1
<1>5. CASE RecordSent(w) \/ RecordFatalFailure(w)
  <2>1. worker[w].pc \in DispatchPcs /\ row[m].status = "PROCESSING"
    BY <1>5, <1>c, <1>pc DEF RecordSent, RecordFatalFailure
  <2>2. /\ \A n \in Messages : n # m => row'[n] = row[n]
        /\ RecordSent(w) => row'[m].status = "SENT"
        /\ RecordFatalFailure(w) => row'[m].status = "FATAL_FAILURE"
    <3>1. CASE RecordSent(w)
      <4>1. row' = [row EXCEPT ![m] = MarkSent(row[m], ProviderOfWorker(w), worker[w].pid)]
        BY <3>1 DEF RecordSent, SetRow
      <4>2. MarkSent(row[m], ProviderOfWorker(w), worker[w].pid).status = "SENT"
        BY <1>w DEF MarkSent, SmsMessage
      <4>3. ~RecordFatalFailure(w)
        BY <3>1 DEF RecordSent, RecordFatalFailure
      <4>4. QED
        BY <1>t, <1>w, <4>1, <4>2, <4>3
    <3>2. CASE RecordFatalFailure(w)
      <4>1. row' = [row EXCEPT ![m] = MarkFatalFailure(row[m], ProviderOfWorker(w))]
        BY <3>2 DEF RecordFatalFailure, SetRow
      <4>2. MarkFatalFailure(row[m], ProviderOfWorker(w)).status = "FATAL_FAILURE"
        BY <1>w DEF MarkFatalFailure, SmsMessage
      <4>3. ~RecordSent(w)
        BY <3>2 DEF RecordSent, RecordFatalFailure
      <4>4. QED
        BY <1>t, <1>w, <4>1, <4>2, <4>3
    <3>3. QED
      BY <1>5, <3>1, <3>2
  <2>3. worker'[w].pc \notin DispatchPcs
    <3>1. worker'[w].pc \in {"returned", "enqueueDeadLetter", "threw"}
      BY <1>5, <1>g DEF RecordSent, RecordFatalFailure
    <3>2. QED
      BY <3>1, <1>pc
  <2>4. \A v \in Workers : v # w /\ worker[v].pc \in DispatchPcs =>
                row'[MessageOfWorker(v)].status = row[MessageOfWorker(v)].status
    <3>1. ASSUME NEW v \in Workers, v # w, worker[v].pc \in DispatchPcs
          PROVE  row'[MessageOfWorker(v)] = row[MessageOfWorker(v)]
      <4>1. MessageOfWorker(v) \in Messages
        BY <1>t, <3>1, JobMessage DEF TypeOK, DispatchPcs, MessageOfWorker
      <4>2. MessageOfWorker(v) # m
        BY <1>s, <2>1, <3>1
      <4>3. QED
        BY <2>2, <4>1, <4>2
    <3>2. QED
      BY <3>1
  <2>5. Claimed'
    BY <1>t, <1>w, <2>3, <2>4, ClaimedKept
  <2>6. QED
    BY <1>5, <2>1, <2>2, <2>5
<1>6. QED
  BY <1>1, <1>2, <1>3, <1>4, <1>5 DEF DispatchStep

(***************************************************************************)
(* A request that may still restore a row lost an answer, so while Apart   *)
(* only the conditional UPDATE of the requeue ever touches a row.          *)
(***************************************************************************)
LEMMA ClaimedRequeue ==
    ASSUME Ground, Apart, Claimed, NEW a \in Admins,
           RequeueFind(a) \/ RequeueStep(a) \/ RequeueCrash(a)
    PROVE  /\ Claimed'
           /\ \A n \in Messages : row'[n].status # row[n].status =>
                /\ n = admin[a].message
                /\ row[n].status = "FATAL_FAILURE" /\ row'[n].status = "QUEUED"
<1>t. /\ TypeOK /\ row \in [Messages -> SmsMessage]
      /\ admin[a].pc # "idle" => admin[a].message \in Messages
      /\ \A v \in Workers : worker[v].pc \in DispatchPcs => MessageOfWorker(v) \in Messages
  BY JobMessage DEF Ground, TypeOK, DispatchPcs, MessageOfWorker
<1>w. worker' = worker
  BY DEF RequeueFind, RequeueStep, RequeueTransition, PublishRequeue, RequeueRestore,
     RequeueThrows, RequeueCrash
<1>1. CASE UNCHANGED row
  BY <1>1, <1>w DEF Claimed, MessageOfWorker
<1>2. CASE /\ admin[a].pc = "transition" /\ MayTransitionToQueued(row[admin[a].message])
           /\ SetRow(admin[a].message, TransitionFatalFailureToQueued(row[admin[a].message]))
  <2> DEFINE m == admin[a].message
  <2>1. /\ m \in Messages /\ row[m].status = "FATAL_FAILURE" /\ row'[m].status = "QUEUED"
        /\ \A n \in Messages : n # m => row'[n] = row[n]
    BY <1>2, <1>t DEF MayTransitionToQueued, SetRow, TransitionFatalFailureToQueued, SmsMessage
  <2>2. \A v \in Workers : worker[v].pc \in DispatchPcs => MessageOfWorker(v) # m
    BY <2>1 DEF Claimed
  <2>3. Claimed'
    BY <1>t, <1>w, <2>1, <2>2 DEF Claimed, MessageOfWorker
  <2>4. QED
    BY <2>1, <2>3
<1>3. ~RequeueRestore(a)
  <2> SUFFICES ASSUME admin[a].pc = "restore"
               PROVE  FALSE
    BY DEF RequeueRestore
  <2>1. faults.errors # 0 /\ faults.requeues # 0
    BY DEF Ground, Footing
  <2>2. QED
    BY <2>1 DEF Apart
<1>4. QED
  BY <1>1, <1>2, <1>3 DEF RequeueFind, RequeueStep, RequeueTransition, PublishRequeue,
     RequeueThrows, RequeueCrash

LEMMA ClaimedLeaving ==
    ASSUME Ground, Claimed, NEW w \in Workers,
           Process(w) \/ JobCompletes(w) \/ JobFails(w) \/ Crash(w)
    PROVE  Claimed' /\ UNCHANGED row
<1>1. UNCHANGED row
  BY DEF Process, JobCompletes, JobFails, Crash
<1>2. /\ \A v \in Workers : v # w => worker'[v] = worker[v]
      /\ worker'[w].pc \notin DispatchPcs
  <2>1. worker \in [Workers -> Worker]
    BY DEF Ground, TypeOK
  <2>2. IdleWorker.pc \notin DispatchPcs
    BY DEF IdleWorker, DispatchPcs
  <2>3. CASE worker' = [worker EXCEPT ![w] = IdleWorker]
    BY <2>1, <2>2, <2>3
  <2>4. CASE Process(w)
    <3>1. PICK j \in JobIds : worker' = [worker EXCEPT
                    ![w] = [IdleWorker EXCEPT !.pc = "findById", !.job = j]]
      BY <2>4 DEF Process
    <3>2. [IdleWorker EXCEPT !.pc = "findById", !.job = j].pc = "findById"
      BY DEF IdleWorker
    <3>3. QED
      BY <2>1, <3>1, <3>2 DEF DispatchPcs
  <2>5. QED
    BY <2>3, <2>4 DEF JobCompletes, JobFails, Crash
<1>3. QED
  BY <1>1, <1>2 DEF Claimed, MessageOfWorker

(***************************************************************************)
(* A step while Apart: workers in a dispatch stay on PROCESSING rows, and  *)
(* the status of at most one message moves, as the lifecycle says.         *)
(***************************************************************************)
LEMMA ClaimedStep ==
    ASSUME Ground, Apart, Claimed, [Next]_vars
    PROVE  /\ Claimed'
           /\ \/ \A n \in Messages : row'[n].status = row[n].status
              \/ \E m \in Messages :
                    /\ \A n \in Messages : n # m => row'[n].status = row[n].status
                    /\ <<row[m].status, row'[m].status>> \in
                            {<<"QUEUED", "PROCESSING">>, <<"PROCESSING", "SENT">>,
                             <<"PROCESSING", "FATAL_FAILURE">>, <<"FATAL_FAILURE", "QUEUED">>}
<1> DEFINE Moves == {<<"QUEUED", "PROCESSING">>, <<"PROCESSING", "SENT">>,
                     <<"PROCESSING", "FATAL_FAILURE">>, <<"FATAL_FAILURE", "QUEUED">>}
           Goal == /\ Claimed'
                   /\ \/ \A n \in Messages : row'[n].status = row[n].status
                      \/ \E m \in Messages :
                            /\ \A n \in Messages : n # m => row'[n].status = row[n].status
                            /\ <<row[m].status, row'[m].status>> \in Moves
<1>1. ASSUME NEW w \in Workers, DispatchStep(w) \/ CallThrows(w)
      PROVE  Goal
  <2> DEFINE m == MessageOfWorker(w)
  <2>1. /\ Claimed'
        /\ \A n \in Messages : n # m => row'[n].status = row[n].status
        /\ \A n \in Messages : row'[n].status # row[n].status =>
                <<row[n].status, row'[n].status>> \in Moves
    BY <1>1, ClaimedDispatch
  <2>2. QED
    BY <2>1
<1>2. ASSUME NEW w \in Workers, Process(w) \/ JobCompletes(w) \/ JobFails(w) \/ Crash(w)
      PROVE  Goal
  BY <1>2, ClaimedLeaving
<1>3. ASSUME NEW j \in JobIds, RecoverStalledJob(j) \/ FalseStall(j)
      PROVE  Goal
  BY <1>3 DEF RecoverStalledJob, FalseStall, Claimed, MessageOfWorker
<1>4. ASSUME NEW a \in Admins, RequeueFind(a) \/ RequeueStep(a) \/ RequeueCrash(a)
      PROVE  Goal
  <2>1. /\ Claimed'
        /\ \A n \in Messages : row'[n].status # row[n].status =>
                n = admin[a].message /\ <<row[n].status, row'[n].status>> \in Moves
    BY <1>4, ClaimedRequeue
  <2>2. QED
    BY <2>1
<1>5. CASE Rest \/ UNCHANGED vars
  BY <1>5 DEF Rest, vars, Claimed, MessageOfWorker
<1>6. QED
  BY <1>1, <1>2, <1>3, <1>4, <1>5 DEF Next, Activity, WorkerStep

LEMMA AlwaysClaimed == Spec => []((Apart => Claimed) /\ Ground)
<1>1. Init => Claimed
  BY DEF Init, Undispatched, Claimed, IdleWorker, DispatchPcs
<1>2. Ground /\ Ground' /\ (Apart => Claimed) /\ [Next]_vars => (Apart => Claimed)'
  <2> SUFFICES ASSUME Ground, Ground', Apart => Claimed, [Next]_vars, Apart'
               PROVE  Claimed'
    OBVIOUS
  <2>1. Apart
    BY ApartBefore DEF Ground
  <2>2. QED
    BY <2>1, ClaimedStep
<1>3. QED
  BY <1>1, <1>2, AlwaysGround, PTL DEF Spec

(***************************************************************************)
(* A provider is called only for a message that is PROCESSING right then,  *)
(* several awaits after the claim, as long as requeues and faults are      *)
(* apart and no live worker loses its job.                                 *)
(***************************************************************************)
THEOREM CallsWhileProcessing == Spec /\ []Apart => CallOnlyWhileProcessing
<1>1. Ground /\ Claimed /\ [Next]_vars =>
        [\A m \in Messages : calls'[m] # calls[m] => row[m].status = "PROCESSING"]_vars
  <2> SUFFICES ASSUME Ground, Claimed, Next, NEW m \in Messages, calls'[m] # calls[m]
               PROVE  row[m].status = "PROCESSING"
    OBVIOUS
  <2>1. PICK w \in Workers : SendSms(w)
    BY DEF Next, Activity, WorkerStep, Process, DispatchStep, FindById, ClaimMessage,
       CountAttempt, Throttle, RecordSent, RecordFatalFailure, EnqueueDeadLetter, CallThrows,
       JobCompletes, JobFails, Crash, RecoverStalledJob, FalseStall, RequeueFind, RequeueStep,
       RequeueTransition, PublishRequeue, RequeueRestore, RequeueThrows, RequeueCrash, Rest,
       vars, outside
  <2>2. m = MessageOfWorker(w)
    BY <2>1 DEF SendSms, Ground, TypeOK
  <2>3. worker[w].pc \in DispatchPcs
    BY <2>1 DEF SendSms, DispatchPcs
  <2>4. QED
    BY <2>2, <2>3 DEF Claimed
<1>2. QED
  BY <1>1, AlwaysClaimed, PTL DEF Spec, CallOnlyWhileProcessing

(***************************************************************************)
(* The dispatch implements the lifecycle of MessageLifecycle while         *)
(* requeues and faults are apart: every step of any worker, job or request *)
(* moves no status, or moves one as the lifecycle allows. A retried job or *)
(* a late UPDATE never takes SENT back.                                    *)
(***************************************************************************)
THEOREM LifecycleRefined == Spec /\ []Apart => LifecycleImplemented
<1> DEFINE bar == [m \in Messages |-> row[m].status]
<1>1. Init => Lifecycle!Init
  BY DEF Init, Undispatched, QueuedMessage, Lifecycle!Init
<1>2. Ground /\ Apart /\ Claimed /\ [Next]_vars => [Lifecycle!Next]_bar
  <2> SUFFICES ASSUME Ground, Apart, Claimed, [Next]_vars
               PROVE  Lifecycle!Next \/ bar' = bar
    OBVIOUS
  <2>1. CASE \A n \in Messages : row'[n].status = row[n].status
    BY <2>1
  <2>2. ASSUME NEW m \in Messages,
               \A n \in Messages : n # m => row'[n].status = row[n].status,
               <<row[m].status, row'[m].status>> \in
                            {<<"QUEUED", "PROCESSING">>, <<"PROCESSING", "SENT">>,
                             <<"PROCESSING", "FATAL_FAILURE">>, <<"FATAL_FAILURE", "QUEUED">>}
        PROVE  Lifecycle!Next
    <3>1. ASSUME NEW from, NEW to, row[m].status = from, row'[m].status = to
          PROVE  Lifecycle!Move(m, from, to)
      BY <2>2, <3>1 DEF Lifecycle!Move
    <3>2. Lifecycle!Claim(m) \/ Lifecycle!Send(m) \/ Lifecycle!Exhaust(m) \/ Lifecycle!Requeue(m)
      BY <2>2, <3>1 DEF Lifecycle!Claim, Lifecycle!Send, Lifecycle!Exhaust, Lifecycle!Requeue
    <3>3. QED
      BY <3>2 DEF Lifecycle!Next
  <2>3. QED
    BY <2>1, <2>2, ClaimedStep
<1>3. QED
  BY <1>1, <1>2, AlwaysClaimed, PTL DEF Spec, LifecycleImplemented, Lifecycle!Spec

-----------------------------------------------------------------------------
(***************************************************************************)
(* The calls a worker may still make in this run of its job: what is left  *)
(* of the current provider's tries and all tries of the providers after.   *)
(***************************************************************************)
CallPcs == {"findById", "markProcessing", "incrementAttempts", "throttle", "sendSms"}
Remaining(w) ==
    IF worker[w].pc \in CallPcs
        THEN (Len(ProviderOrder) - worker[w].provider) * MaxRetries
                + (MaxRetries - worker[w].attempt + 1)
        ELSE 0
RemainingCalls(j) ==
    {x \in Workers \X (1 .. CallsPerDispatch) : worker[x[1]].job = j /\ x[2] <= Remaining(x[1])}

(* The runs of a job that were started: all but the last were given back. *)
Runs(j) ==
    job[j].failures + job[j].stalls + (IF job[j].state \in {"active", "completed"} THEN 1 ELSE 0)

(***************************************************************************)
(* The inductive form of CallsBoundedByRuns: the calls made for a job and  *)
(* those its workers, the owner and any that lost it, may still make.      *)
(***************************************************************************)
RunPaysFor(j) == jobCalls[j] + Cardinality(RemainingCalls(j)) <= CallsPerDispatch * Runs(j)
AbsentUntouched == \A j \in JobIds : job[j].state = "absent" => job[j] = AbsentJob

LEMMA CallsPerDispatchType == CallsPerDispatch \in Nat
<1>1. Len(ProviderOrder) \in Nat /\ MaxRetries \in Nat
  BY OrderAssumption, RetryAssumption
<1>2. QED
  BY <1>1 DEF CallsPerDispatch

(* The tries left with l providers of m tries each, at try a of provider k. *)
LEMMA TriesLeft ==
    ASSUME NEW l \in Nat, NEW m \in Nat, NEW k \in 1 .. l, NEW a \in 1 .. m
    PROVE  /\ (l - k) * m + (m - a + 1) \in 1 .. (l * m)
           /\ k < l => (l - (k + 1)) * m + (m - 1 + 1) <= (l - k) * m + (m - a + 1) - 1
           /\ a < m => (l - k) * m + (m - (a + 1) + 1) <= (l - k) * m + (m - a + 1) - 1
<1>1. (l - k) * m \in Nat /\ l * m \in Nat
  OBVIOUS
<1>2. (l - k) * m + m <= l * m
  <2>1. (l - k) * m + m = (l - k + 1) * m
    OBVIOUS
  <2>2. l - k + 1 \in Nat /\ l - k + 1 <= l
    OBVIOUS
  <2>3. \A x \in Nat : x <= l => x * m <= l * m
    OBVIOUS
  <2>4. QED
    BY <2>1, <2>2, <2>3
<1>3. k < l => (l - (k + 1)) * m + m = (l - k) * m
  OBVIOUS
<1>4. k < l => (l - (k + 1)) * m \in Nat
  OBVIOUS
<1> DEFINE x == (l - k) * m
           y == (l - (k + 1)) * m
           z == l * m
<1>5. x \in Nat /\ z \in Nat /\ x + m <= z /\ (k < l => y \in Nat /\ y + m = x)
  BY <1>1, <1>2, <1>3, <1>4
<1> HIDE DEF x, y, z
<1>6. /\ x + (m - a + 1) \in 1 .. z
      /\ k < l => y + (m - 1 + 1) <= x + (m - a + 1) - 1
      /\ a < m => x + (m - (a + 1) + 1) <= x + (m - a + 1) - 1
  BY <1>5
<1>7. QED
  BY <1>6 DEF x, y, z

TriesAt(k, n) == (Len(ProviderOrder) - k) * MaxRetries + (MaxRetries - n + 1)
TriesOf(r) == TriesAt(r.provider, r.attempt)

LEMMA TriesAtType ==
    ASSUME NEW k \in 1 .. Len(ProviderOrder), NEW n \in 1 .. MaxRetries
    PROVE  /\ TriesAt(k, n) \in 1 .. CallsPerDispatch
           /\ k < Len(ProviderOrder) => TriesAt(k + 1, 1) <= TriesAt(k, n) - 1
           /\ n < MaxRetries => TriesAt(k, n + 1) <= TriesAt(k, n) - 1
<1>1. Len(ProviderOrder) \in Nat /\ MaxRetries \in Nat
  BY OrderAssumption, RetryAssumption
<1>2. QED
  BY <1>1, TriesLeft DEF TriesAt, CallsPerDispatch

LEMMA RemainingType ==
    TypeOK => \A w \in Workers :
        /\ Remaining(w) \in 0 .. CallsPerDispatch
        /\ worker[w].pc \in CallPcs => Remaining(w) \in 1 .. CallsPerDispatch
        /\ worker[w].pc \in CallPcs => Remaining(w) = TriesOf(worker[w])
        /\ worker[w].pc \notin CallPcs => Remaining(w) = 0
<1>1. ASSUME NEW r \in Worker
      PROVE  TriesOf(r) \in 1 .. CallsPerDispatch
  <2>1. r.provider \in 1 .. Len(ProviderOrder) /\ r.attempt \in 1 .. MaxRetries
    BY DEF Worker
  <2>2. QED
    BY <2>1, TriesAtType DEF TriesOf
<1>2. QED
  BY <1>1, CallsPerDispatchType DEF Remaining, TypeOK, TriesOf, TriesAt

LEMMA RemainingTypeNext ==
    TypeOK' => \A w \in Workers :
        /\ Remaining(w)' \in 0 .. CallsPerDispatch
        /\ worker'[w].pc \in CallPcs => Remaining(w)' = TriesOf(worker'[w])
        /\ worker'[w].pc \notin CallPcs => Remaining(w)' = 0
<1>1. (TypeOK => \A w \in Workers :
          /\ Remaining(w) \in 0 .. CallsPerDispatch
          /\ worker[w].pc \in CallPcs => Remaining(w) \in 1 .. CallsPerDispatch
          /\ worker[w].pc \in CallPcs => Remaining(w) = TriesOf(worker[w])
          /\ worker[w].pc \notin CallPcs => Remaining(w) = 0)'
  BY RemainingType, PTL
<1>2. QED
  BY <1>1 DEF CallsPerDispatch, TriesOf, TriesAt, CallPcs

LEMMA RemainingFinite ==
    ASSUME NEW j
    PROVE  /\ IsFiniteSet(RemainingCalls(j)) /\ Cardinality(RemainingCalls(j)) \in Nat
           /\ IsFiniteSet(RemainingCalls(j)') /\ Cardinality(RemainingCalls(j)') \in Nat
<1>1. IsFiniteSet(Workers \X (1 .. CallsPerDispatch))
  <2>1. IsFiniteSet(1 .. CallsPerDispatch)
    BY CallsPerDispatchType, FS_Interval
  <2>2. QED
    BY <2>1, WorkersAssumption, FS_Product
<1>2. /\ RemainingCalls(j) \in SUBSET (Workers \X (1 .. CallsPerDispatch))
      /\ RemainingCalls(j)' \in SUBSET (Workers \X (1 .. CallsPerDispatch))
  BY DEF RemainingCalls
<1>3. QED
  BY <1>1, <1>2, FS_Subset, FS_CardinalityType

LEMMA RunsType == TypeOK => \A j \in JobIds : Runs(j) \in Nat
BY DEF TypeOK, Job, Runs

(* A step that calls no provider and starts no run. *)
LEMMA NoCall ==
    ASSUME TypeOK, TypeOK', NEW j \in JobIds, RunPaysFor(j), jobCalls'[j] = jobCalls[j],
           RemainingCalls(j)' \subseteq RemainingCalls(j), Runs(j)' = Runs(j)
    PROVE  RunPaysFor(j)'
<1>1. Cardinality(RemainingCalls(j)') <= Cardinality(RemainingCalls(j))
  BY RemainingFinite, FS_Subset
<1>2. jobCalls[j] \in Nat
  BY DEF TypeOK
<1> DEFINE bound == CallsPerDispatch * Runs(j)
<1>3. bound \in Nat /\ bound' = bound
  BY CallsPerDispatchType, RunsType DEF CallsPerDispatch
<1>4. jobCalls[j] + Cardinality(RemainingCalls(j)) <= bound
  BY DEF RunPaysFor
<1> HIDE DEF bound
<1>5. jobCalls'[j] + Cardinality(RemainingCalls(j)') <= bound
  BY <1>1, <1>2, <1>3, <1>4, RemainingFinite
<1>6. QED
  BY <1>3, <1>5 DEF RunPaysFor, bound

(* The worker at w makes no more calls than it could before. *)
LEMMA FewerCalls ==
    ASSUME TypeOK, TypeOK', NEW w \in Workers, NEW j,
           \A v \in Workers : v # w => worker'[v] = worker[v],
           Remaining(w)' <= Remaining(w),
           worker'[w].job = worker[w].job \/ Remaining(w)' = 0
    PROVE  RemainingCalls(j)' \subseteq RemainingCalls(j)
<1> SUFFICES ASSUME NEW x \in RemainingCalls(j)'
             PROVE  x \in RemainingCalls(j)
  OBVIOUS
<1>1. /\ x \in Workers \X (1 .. CallsPerDispatch)
      /\ worker'[x[1]].job = j /\ x[2] <= Remaining(x[1])'
  BY DEF RemainingCalls, CallsPerDispatch
<1>2. CASE x[1] = w
  <2>1. Remaining(w) \in Nat /\ Remaining(w)' \in Nat
    <3>1. (\A v \in Workers : Remaining(v) \in 0 .. CallsPerDispatch)'
      BY RemainingTypeNext
    <3>2. QED
      BY <3>1, RemainingType, CallsPerDispatchType DEF CallsPerDispatch
  <2>2. x[2] \in 1 .. CallsPerDispatch /\ x[2] <= Remaining(w)'
    BY <1>1, <1>2
  <2>3. Remaining(w)' # 0 /\ x[2] <= Remaining(w)
    BY <2>1, <2>2, CallsPerDispatchType
  <2>4. QED
    BY <1>1, <1>2, <2>3 DEF RemainingCalls
<1>3. CASE x[1] # w
  <2>1. worker'[x[1]] = worker[x[1]]
    BY <1>1, <1>3
  <2>2. Remaining(x[1])' = Remaining(x[1])
    BY <2>1 DEF Remaining
  <2>3. QED
    BY <1>1, <2>1, <2>2 DEF RemainingCalls
<1>4. QED
  BY <1>2, <1>3

(* The tries of the worker at w, as a number a step decreases. *)
LEMMA TriesDecrease ==
    ASSUME TypeOK, TypeOK', NEW w \in Workers, worker[w].pc = "sendSms",
           NEW retryable \in BOOLEAN, AfterFailedSend(w, retryable)
    PROVE  /\ Remaining(w)' <= Remaining(w) - 1
           /\ worker'[w].job = worker[w].job
           /\ \A v \in Workers : v # w => worker'[v] = worker[v]
<1> DEFINE k == worker[w].provider
           n == worker[w].attempt
           now == TriesAt(k, n)
           again == TriesAt(k, n + 1)
           next == TriesAt(k + 1, 1)
<1>1. /\ worker \in [Workers -> Worker]
      /\ k \in 1 .. Len(ProviderOrder) /\ n \in 1 .. MaxRetries
  BY DEF TypeOK, Worker
<1>2. Len(ProviderOrder) \in Nat /\ MaxRetries \in Nat
  BY OrderAssumption, RetryAssumption
<1>3. /\ Remaining(w) = now
      /\ Remaining(w) \in 1 .. CallsPerDispatch
  BY RemainingType DEF TriesOf, CallPcs
<1>4. CallsPerDispatch \in Nat
  BY CallsPerDispatchType
<1>5. /\ k < Len(ProviderOrder) => next <= now - 1
      /\ n < MaxRetries => again <= now - 1
  BY <1>1, TriesAtType
<1> HIDE DEF now, again, next
<1>6. CASE retryable /\ n < MaxRetries
  <2>1. worker' = [worker EXCEPT ![w] = [@ EXCEPT !.pc = "incrementAttempts", !.attempt = n + 1]]
    BY <1>6 DEF AfterFailedSend
  <2>2. /\ worker'[w].pc = "incrementAttempts" /\ worker'[w].attempt = n + 1
        /\ worker'[w].provider = k /\ worker'[w].job = worker[w].job
        /\ \A v \in Workers : v # w => worker'[v] = worker[v]
    BY <1>1, <2>1 DEF Worker
  <2>3. Remaining(w)' = again
    BY <2>2, RemainingTypeNext DEF TriesOf, CallPcs, again
  <2>4. QED
    BY <1>3, <1>6, <1>5, <2>2, <2>3
<1>7. CASE ~(retryable /\ n < MaxRetries) /\ k < Len(ProviderOrder)
  <2>1. worker' = [worker EXCEPT ![w] =
                     [@ EXCEPT !.pc = "incrementAttempts", !.provider = k + 1, !.attempt = 1]]
    BY <1>7 DEF AfterFailedSend
  <2>2. /\ worker'[w].pc = "incrementAttempts" /\ worker'[w].attempt = 1
        /\ worker'[w].provider = k + 1 /\ worker'[w].job = worker[w].job
        /\ \A v \in Workers : v # w => worker'[v] = worker[v]
    BY <1>1, <2>1 DEF Worker
  <2>3. Remaining(w)' = next
    BY <2>2, RemainingTypeNext DEF TriesOf, CallPcs, next
  <2>4. QED
    BY <1>3, <1>7, <1>5, <2>2, <2>3
<1>8. CASE ~(retryable /\ n < MaxRetries) /\ ~(k < Len(ProviderOrder))
  <2>1. worker' = [worker EXCEPT ![w] = [@ EXCEPT !.pc = "markFatalFailure"]]
    BY <1>8 DEF AfterFailedSend
  <2>2. /\ worker'[w].pc = "markFatalFailure" /\ worker'[w].job = worker[w].job
        /\ \A v \in Workers : v # w => worker'[v] = worker[v]
    BY <1>1, <2>1 DEF Worker
  <2>3. Remaining(w)' = 0
    BY <2>2, RemainingTypeNext DEF CallPcs
  <2>4. QED
    BY <1>3, <1>4, <2>2, <2>3
<1>9. QED
  BY <1>6, <1>7, <1>8

(* A provider call uses up one of the calls the worker may still make. *)
LEMMA CallMade ==
    ASSUME TypeOK, TypeOK', NEW w \in Workers, SendSms(w),
           \A j \in JobIds : RunPaysFor(j)
    PROVE  \A j \in JobIds : RunPaysFor(j)'
<1> DEFINE own == worker[w].job
           n == Remaining(w)
<1>1. /\ worker \in [Workers -> Worker] /\ jobCalls \in [JobIds -> Nat]
      /\ worker[w].pc = "sendSms" /\ own \in JobIds
      /\ jobCalls' = [jobCalls EXCEPT ![own] = @ + 1] /\ job' = job
  BY DEF SendSms, TypeOK
<1>2. /\ n \in 1 .. CallsPerDispatch
      /\ CallsPerDispatch \in Nat
  BY <1>1, RemainingType, CallsPerDispatchType DEF CallPcs
<1>3. /\ Remaining(w)' <= n - 1
      /\ worker'[w].job = own
      /\ \A v \in Workers : v # w => worker'[v] = worker[v]
  <2>1. CASE \E pid \in 1 .. (accepted[MessageOfWorker(w)] + 1) :
                worker' = [worker EXCEPT ![w].pc = "markSent", ![w].pid = pid]
    <3>1. PICK pid \in 1 .. (accepted[MessageOfWorker(w)] + 1) :
                worker' = [worker EXCEPT ![w].pc = "markSent", ![w].pid = pid]
      BY <2>1
    <3>2. /\ worker'[w].pc = "markSent" /\ worker'[w].job = own
          /\ \A v \in Workers : v # w => worker'[v] = worker[v]
      BY <1>1, <3>1 DEF Worker
    <3>3. Remaining(w)' = 0
      BY <3>2, RemainingTypeNext DEF CallPcs
    <3>4. QED
      BY <1>2, <3>2, <3>3
  <2>2. CASE \E retryable \in BOOLEAN : AfterFailedSend(w, retryable)
    BY <1>1, <2>2, TriesDecrease
  <2>3. QED
    BY <2>1, <2>2 DEF SendSms
<1> HIDE DEF n, own
<1>4. Remaining(w)' \in 0 .. CallsPerDispatch
  BY RemainingTypeNext
<1> TAKE j \in JobIds
<1>5. RemainingCalls(j)' \subseteq RemainingCalls(j)
  <2>1. Remaining(w)' <= Remaining(w)
    BY <1>2, <1>3, <1>4 DEF n
  <2>2. QED
    BY <1>3, <2>1, FewerCalls DEF own
<1>6. CASE j # own
  <2>1. jobCalls'[j] = jobCalls[j] /\ Runs(j)' = Runs(j)
    BY <1>1, <1>6 DEF Runs
  <2>2. QED
    BY <1>5, <2>1, NoCall
<1>7. CASE j = own
  <2>1. <<w, n>> \in RemainingCalls(j) /\ <<w, n>> \notin RemainingCalls(j)'
    <3>1. <<w, n>> \in RemainingCalls(j)
      BY <1>2, <1>7 DEF RemainingCalls, own, n
    <3>2. ~(n <= Remaining(w)')
      BY <1>2, <1>3, <1>4
    <3>3. QED
      BY <3>1, <3>2 DEF RemainingCalls
  <2>2. Cardinality(RemainingCalls(j)') <= Cardinality(RemainingCalls(j)) - 1
    <3> DEFINE S == RemainingCalls(j)
               T == RemainingCalls(j)'
    <3>1. T \subseteq S \ {<<w, n>>}
      BY <1>5, <2>1
    <3>2. IsFiniteSet(S)
      BY RemainingFinite
    <3>3. IsFiniteSet(S \ {<<w, n>>}) /\ Cardinality(S \ {<<w, n>>}) = Cardinality(S) - 1
      <4> HIDE DEF S
      <4>1. <<w, n>> \in S
        BY <2>1 DEF S
      <4>2. QED
        BY <3>2, <4>1, FS_RemoveElement
    <3> HIDE DEF S, T
    <3>4. Cardinality(T) <= Cardinality(S \ {<<w, n>>})
      BY <3>1, <3>3, FS_Subset
    <3>5. QED
      BY <3>3, <3>4 DEF S, T
  <2>3. /\ jobCalls'[j] = jobCalls[j] + 1 /\ jobCalls[j] \in Nat
        /\ Runs(j)' = Runs(j)
    BY <1>1, <1>7 DEF Runs
  <2> DEFINE bound == CallsPerDispatch * Runs(j)
  <2>4. bound \in Nat /\ bound' = bound
    BY <2>3, CallsPerDispatchType, RunsType DEF CallsPerDispatch
  <2>5. jobCalls[j] + Cardinality(RemainingCalls(j)) <= bound
    BY DEF RunPaysFor
  <2> HIDE DEF bound
  <2>6. jobCalls'[j] + Cardinality(RemainingCalls(j)') <= bound
    BY <2>2, <2>3, <2>4, <2>5, RemainingFinite
  <2>7. QED
    BY <2>4, <2>6 DEF RunPaysFor, bound
<1>8. QED
  BY <1>6, <1>7

(* A worker moves on in its job without calling a provider. *)
LEMMA MovesOn ==
    ASSUME TypeOK, TypeOK', NEW w \in Workers, NEW pc, Goto(w, pc) \/ Answered(w, pc),
           worker[w].pc \in CallPcs \/ pc \notin CallPcs, UNCHANGED <<job, jobCalls>>,
           \A j \in JobIds : RunPaysFor(j)
    PROVE  \A j \in JobIds : RunPaysFor(j)'
<1>1. PICK q \in {pc, "threw"} :
          worker' = [worker EXCEPT ![w] = [worker[w] EXCEPT !.pc = q]]
  BY WorkerGoes
<1>2. worker \in [Workers -> Worker]
  BY DEF TypeOK
<1>3. /\ worker'[w].pc = q /\ worker'[w].job = worker[w].job
      /\ worker'[w].provider = worker[w].provider /\ worker'[w].attempt = worker[w].attempt
      /\ \A v \in Workers : v # w => worker'[v] = worker[v]
  BY <1>1, <1>2 DEF Worker
<1>4. q \in CallPcs => worker[w].pc \in CallPcs
  BY DEF CallPcs
<1>5. Remaining(w)' <= Remaining(w)
  <2>1. Remaining(w) \in Nat /\ Remaining(w)' \in Nat
    BY RemainingType, RemainingTypeNext, CallsPerDispatchType
  <2>2. CASE q \in CallPcs
    <3>1. TriesOf(worker'[w]) = TriesOf(worker[w])
      BY <1>3 DEF TriesOf
    <3>2. Remaining(w)' = Remaining(w)
      BY <1>3, <1>4, <2>2, <3>1, RemainingType, RemainingTypeNext
    <3>3. QED
      BY <2>1, <3>2
  <2>3. CASE q \notin CallPcs
    <3>1. Remaining(w)' = 0
      BY <1>3, <2>3, RemainingTypeNext
    <3>2. QED
      BY <2>1, <3>1
  <2>4. QED
    BY <2>2, <2>3
<1> TAKE j \in JobIds
<1>6. RemainingCalls(j)' \subseteq RemainingCalls(j)
  BY <1>3, <1>5, FewerCalls
<1>7. Runs(j)' = Runs(j) /\ jobCalls'[j] = jobCalls[j]
  BY DEF Runs
<1>8. QED
  BY <1>6, <1>7, NoCall

(* A call of a dispatch is paid for by the run it is made in. *)
LEMMA DispatchKeepsBound ==
    ASSUME TypeOK, TypeOK', NEW w \in Workers, DispatchStep(w) \/ CallThrows(w),
           \A j \in JobIds : RunPaysFor(j)
    PROVE  \A j \in JobIds : RunPaysFor(j)'
<1>1. CASE SendSms(w)
  BY <1>1, CallMade
<1>2. CASE FindById(w)
  <2>1. worker[w].pc \in CallPcs /\ UNCHANGED <<job, jobCalls>>
    BY <1>2 DEF FindById, outside, CallPcs
  <2>2. PICK pc \in {"returned", "markProcessing"} : Goto(w, pc)
    BY <1>2 DEF FindById
  <2>3. QED
    BY <2>1, <2>2, MovesOn
<1>3. CASE ClaimMessage(w)
  <2>1. worker[w].pc \in CallPcs /\ UNCHANGED <<job, jobCalls>>
    BY <1>3 DEF ClaimMessage, outside, CallPcs
  <2>2. PICK pc \in {"returned", "incrementAttempts"} : Answered(w, pc)
    BY <1>3 DEF ClaimMessage
  <2>3. QED
    BY <2>1, <2>2, MovesOn
<1>4. CASE CountAttempt(w) \/ Throttle(w)
  <2>1. worker[w].pc \in CallPcs /\ UNCHANGED <<job, jobCalls>>
    BY <1>4 DEF CountAttempt, Throttle, outside, CallPcs
  <2>2. PICK pc \in {"throttle", "sendSms"} : Goto(w, pc) \/ Answered(w, pc)
    BY <1>4 DEF CountAttempt, Throttle
  <2>3. QED
    BY <2>1, <2>2, MovesOn
<1>5. CASE RecordSent(w) \/ RecordFatalFailure(w) \/ EnqueueDeadLetter(w) \/ CallThrows(w)
  <2>1. UNCHANGED <<job, jobCalls>>
    BY <1>5 DEF RecordSent, RecordFatalFailure, EnqueueDeadLetter, CallThrows, outside
  <2>2. PICK pc \in {"returned", "enqueueDeadLetter", "threw"} : Goto(w, pc) \/ Answered(w, pc)
    BY <1>5 DEF RecordSent, RecordFatalFailure, EnqueueDeadLetter, CallThrows
  <2>3. pc \notin CallPcs
    BY DEF CallPcs
  <2>4. QED
    BY <2>1, <2>2, <2>3, MovesOn
<1>6. QED
  BY <1>1, <1>2, <1>3, <1>4, <1>5 DEF DispatchStep

(* A run that starts pays for all calls it can make. *)
LEMMA RunStarts ==
    ASSUME TypeOK, TypeOK', NEW w \in Workers, Process(w), \A i \in JobIds : RunPaysFor(i)
    PROVE  \A i \in JobIds : RunPaysFor(i)'
<1>1. PICK j \in JobIds :
        /\ job[j].state = "waiting"
        /\ job' = [job EXCEPT ![j].state = "active", ![j].owner = w]
        /\ worker' = [worker EXCEPT ![w] = [IdleWorker EXCEPT !.pc = "findById", !.job = j]]
  BY DEF Process
<1>2. /\ job \in [JobIds -> Job] /\ worker \in [Workers -> Worker]
      /\ jobCalls \in [JobIds -> Nat] /\ jobCalls' = jobCalls
  BY DEF TypeOK, Process, outside
<1>3. /\ worker'[w].job = j
      /\ \A v \in Workers : v # w => worker'[v] = worker[v]
  BY <1>1, <1>2 DEF IdleWorker
<1>4. \A v \in Workers : v # w => Remaining(v)' = Remaining(v)
  BY <1>3 DEF Remaining
<1>5. ASSUME NEW i \in JobIds, i # j
      PROVE  RunPaysFor(i)'
  <2>1. RemainingCalls(i)' \subseteq RemainingCalls(i)
    <3> SUFFICES ASSUME NEW x \in RemainingCalls(i)'
                 PROVE  x \in RemainingCalls(i)
      OBVIOUS
    <3>1. /\ x \in Workers \X (1 .. CallsPerDispatch)
          /\ worker'[x[1]].job = i /\ x[2] <= Remaining(x[1])'
      BY DEF RemainingCalls, CallsPerDispatch
    <3>2. x[1] # w /\ x[1] \in Workers
      BY <1>3, <1>5, <3>1
    <3>3. QED
      BY <1>3, <1>4, <3>1, <3>2 DEF RemainingCalls
  <2>2. Runs(i)' = Runs(i) /\ jobCalls'[i] = jobCalls[i]
    BY <1>1, <1>2, <1>5 DEF Runs
  <2>3. QED
    BY <2>1, <2>2, NoCall
<1>6. RunPaysFor(j)'
  <2> DEFINE S == RemainingCalls(j)
             T == RemainingCalls(j)'
             N == {w} \X (1 .. CallsPerDispatch)
  <2>1. T \subseteq S \cup N
    <3> SUFFICES ASSUME NEW x \in RemainingCalls(j)', x[1] # w
                 PROVE  x \in RemainingCalls(j)
      <4>1. ASSUME NEW x \in RemainingCalls(j)', x[1] = w
            PROVE  x \in N
        <5>1. x \in Workers \X (1 .. CallsPerDispatch)
          BY DEF RemainingCalls, CallsPerDispatch
        <5>2. QED
          BY <4>1, <5>1
      <4>2. QED
        BY <4>1
    <3>1. /\ x \in Workers \X (1 .. CallsPerDispatch)
          /\ worker'[x[1]].job = j /\ x[2] <= Remaining(x[1])'
      BY DEF RemainingCalls, CallsPerDispatch
    <3>2. QED
      BY <1>3, <1>4, <3>1 DEF RemainingCalls
  <2>2. IsFiniteSet(N) /\ Cardinality(N) = CallsPerDispatch
    <3>1. IsFiniteSet({w}) /\ Cardinality({w}) = 1
      BY FS_Singleton
    <3>2. /\ IsFiniteSet(1 .. CallsPerDispatch)
          /\ Cardinality(1 .. CallsPerDispatch) = CallsPerDispatch
      BY CallsPerDispatchType, FS_Interval
    <3>3. IsFiniteSet(N) /\ Cardinality(N) = Cardinality({w}) * Cardinality(1 .. CallsPerDispatch)
      BY <3>1, <3>2, FS_Product
    <3>4. QED
      BY <3>1, <3>2, <3>3, CallsPerDispatchType
  <2>3. /\ IsFiniteSet(S) /\ Cardinality(S) \in Nat
        /\ IsFiniteSet(T) /\ Cardinality(T) \in Nat
    BY RemainingFinite
  <2>4. job'[j].state = "active" /\ job'[j].failures = job[j].failures
                                 /\ job'[j].stalls = job[j].stalls
    BY <1>1, <1>2 DEF Job
  <2>5. Runs(j) \in Nat /\ Runs(j)' = Runs(j) + 1
    BY <1>1, <1>2, <2>4 DEF Runs, Job
  <2> DEFINE bound == CallsPerDispatch * Runs(j)
             after == CallsPerDispatch * Runs(j)'
  <2>6. bound \in Nat /\ after = bound + CallsPerDispatch
    <3>1. ASSUME NEW c \in Nat, NEW n \in Nat
          PROVE  c * n \in Nat /\ c * (n + 1) = c * n + c
      OBVIOUS
    <3>2. QED
      BY <2>5, <3>1, CallsPerDispatchType
  <2>7. jobCalls[j] + Cardinality(S) <= bound /\ jobCalls'[j] = jobCalls[j] /\ jobCalls[j] \in Nat
    BY <1>2 DEF RunPaysFor
  <2> HIDE DEF S, T, N, bound, after
  <2>8. /\ IsFiniteSet(S \cup N)
        /\ Cardinality(S \cup N) <= Cardinality(S) + Cardinality(N)
        /\ Cardinality(S \cup N) \in Nat
    <3>1. /\ IsFiniteSet(S \cup N)
          /\ Cardinality(S \cup N) = Cardinality(S) + Cardinality(N) - Cardinality(S \cap N)
      BY <2>2, <2>3, FS_Union
    <3>2. Cardinality(S \cap N) \in Nat
      BY <2>3, FS_Subset, FS_CardinalityType
    <3>3. QED
      BY <2>2, <2>3, <3>1, <3>2, CallsPerDispatchType, FS_CardinalityType
  <2>9. Cardinality(T) <= Cardinality(S \cup N)
    BY <2>1, <2>8, FS_Subset
  <2>10. jobCalls'[j] + Cardinality(T) <= after
    BY <2>2, <2>3, <2>6, <2>7, <2>8, <2>9, CallsPerDispatchType
  <2>11. QED
    BY <2>10 DEF RunPaysFor, T, after, CallsPerDispatch
<1>7. QED
  BY <1>5, <1>6

(* A step that leaves the workers alone and starts no run. *)
LEMMA QueueKeepsBound ==
    ASSUME TypeOK, TypeOK', UNCHANGED <<worker, jobCalls>>,
           \A j \in JobIds : RunPaysFor(j) /\ Runs(j)' = Runs(j)
    PROVE  \A j \in JobIds : RunPaysFor(j)'
<1> TAKE j \in JobIds
<1>1. RemainingCalls(j)' \subseteq RemainingCalls(j)
  BY DEF RemainingCalls, Remaining, CallsPerDispatch
<1>2. QED
  BY <1>1, NoCall

(* The end of a run, which only a failure follows up with another one. *)
LEMMA RunEnds ==
    ASSUME TypeOK, TypeOK', OwnersActive, \A j \in JobIds : RunPaysFor(j), NEW w \in Workers,
           JobCompletes(w) \/ JobFails(w) \/ Crash(w)
    PROVE  \A j \in JobIds : RunPaysFor(j)'
<1>1. /\ worker' = [worker EXCEPT ![w] = IdleWorker] /\ UNCHANGED jobCalls
      /\ worker \in [Workers -> Worker] /\ job \in [JobIds -> Job] /\ Null \notin Workers
      /\ worker[w].job \in JobIds
  BY WorkersAssumption DEF JobCompletes, JobFails, Crash, outside, TypeOK
<1>2. /\ worker'[w].pc = "idle"
      /\ \A v \in Workers : v # w => worker'[v] = worker[v]
  BY <1>1, InitialWorker
<1>3. Remaining(w)' = 0
  BY <1>2, RemainingTypeNext DEF CallPcs
<1> TAKE j \in JobIds
<1>4. RemainingCalls(j)' \subseteq RemainingCalls(j)
  <2>1. Remaining(w)' <= Remaining(w)
    BY <1>3, RemainingType, CallsPerDispatchType
  <2>2. QED
    BY <1>2, <1>3, <2>1, FewerCalls
<1>5. Runs(j)' = Runs(j)
  <2>1. CASE UNCHANGED job
    BY <2>1 DEF Runs
  <2>2. Owns(w) => job[worker[w].job].state = "active"
    BY <1>1 DEF Owns, OwnersActive
  <2>3. CASE JobCompletes(w) /\ Owns(w)
    <3>1. job' = [job EXCEPT ![worker[w].job].state = "completed", ![worker[w].job].owner = Null]
      BY <2>3 DEF JobCompletes
    <3>2. QED
      BY <1>1, <2>2, <2>3, <3>1 DEF Runs, Job
  <2>4. CASE JobFails(w) /\ Owns(w)
    <3>1. PICK s \in {"waiting", "failed"} :
            job' = [job EXCEPT ![worker[w].job].state = s,
                               ![worker[w].job].failures = job[worker[w].job].failures + 1,
                               ![worker[w].job].owner = Null]
      BY <2>4 DEF JobFails
    <3>2. j # worker[w].job => job'[j] = job[j]
      BY <1>1, <3>1
    <3>3. j = worker[w].job => /\ job'[j].state = s /\ job'[j].failures = job[j].failures + 1
                               /\ job'[j].stalls = job[j].stalls
      BY <1>1, <3>1 DEF Job
    <3>4. job[j].failures \in Nat /\ job[j].stalls \in Nat
      BY <1>1 DEF Job
    <3>5. QED
      BY <2>2, <2>4, <3>2, <3>3, <3>4 DEF Runs
  <2>5. QED
    BY <2>1, <2>3, <2>4 DEF JobCompletes, JobFails, Crash
<1>6. QED
  BY <1>1, <1>4, <1>5, NoCall

LEMMA AbsentUntouchedStep ==
    ASSUME TypeOK, AbsentUntouched, [Next]_vars
    PROVE  AbsentUntouched'
<1> SUFFICES ASSUME NEW j \in JobIds, job'[j].state = "absent"
             PROVE  job'[j] = job[j]
  BY DEF AbsentUntouched
<1>t. job \in [JobIds -> Job]
  BY DEF TypeOK
<1>1. ASSUME NEW w \in Workers, WorkerStep(w) \/ Crash(w)
      PROVE  job'[j] = job[j]
  <2>1. CASE Process(w)
    BY <1>t, <2>1 DEF Process, Job
  <2>2. CASE DispatchStep(w) \/ CallThrows(w) \/ Crash(w)
    BY <2>2 DEF DispatchStep, FindById, ClaimMessage, CountAttempt, Throttle, SendSms,
       RecordSent, RecordFatalFailure, EnqueueDeadLetter, CallThrows, Crash
  <2>3. CASE JobCompletes(w)
    BY <1>t, <2>3 DEF JobCompletes, Job
  <2>4. CASE JobFails(w)
    BY <1>t, <2>4 DEF JobFails, Job
  <2>5. QED
    BY <1>1, <2>1, <2>2, <2>3, <2>4 DEF WorkerStep
<1>2. ASSUME NEW i \in JobIds, RecoverStalledJob(i) \/ FalseStall(i)
      PROVE  job'[j] = job[j]
  BY <1>2, <1>t DEF RecoverStalledJob, FalseStall, Stall, Job
<1>3. ASSUME NEW a \in Admins, RequeueFind(a) \/ RequeueStep(a) \/ RequeueCrash(a)
      PROVE  job'[j] = job[j]
  <2>1. CASE UNCHANGED job
    BY <2>1
  <2>2. CASE PublishRequeue(a)
    <3>1. PublishedJob.state = "waiting"
      BY DEF PublishedJob, AbsentJob
    <3>2. QED
      BY <1>t, <2>2, <3>1 DEF PublishRequeue
  <2>3. QED
    BY <1>3, <2>1, <2>2 DEF RequeueFind, RequeueStep, RequeueTransition, RequeueRestore,
       RequeueThrows, RequeueCrash
<1>4. CASE Rest \/ UNCHANGED vars
  BY <1>4 DEF Rest, vars
<1>5. QED
  BY <1>1, <1>2, <1>3, <1>4 DEF Next, Activity

LEMMA RunPaysForStep ==
    ASSUME TypeOK, TypeOK', OwnersActive, AbsentUntouched, \A j \in JobIds : RunPaysFor(j),
           [Next]_vars
    PROVE  \A j \in JobIds : RunPaysFor(j)'
<1>t. job \in [JobIds -> Job]
  BY DEF TypeOK
<1>1. ASSUME NEW w \in Workers, WorkerStep(w) \/ Crash(w)
      PROVE  \A j \in JobIds : RunPaysFor(j)'
  BY <1>1, RunStarts, RunEnds, DispatchKeepsBound DEF WorkerStep
<1>2. ASSUME NEW i \in JobIds, RecoverStalledJob(i) \/ FalseStall(i)
      PROVE  \A j \in JobIds : RunPaysFor(j)'
  <2>1. /\ job[i].state = "active" /\ UNCHANGED <<worker, jobCalls>> /\ Stall(i)
    BY <1>2 DEF RecoverStalledJob, FalseStall, outside
  <2>2. PICK s \in {"waiting", "failed"} :
            job' = [job EXCEPT ![i].state = s, ![i].stalls = @ + 1, ![i].owner = Null]
    BY <2>1 DEF Stall
  <2>3. /\ job'[i].state = s /\ job'[i].stalls = job[i].stalls + 1
        /\ job'[i].failures = job[i].failures
        /\ job[i].stalls \in Nat /\ job[i].failures \in Nat
        /\ \A j \in JobIds : j # i => job'[j] = job[j]
    BY <1>t, <2>2 DEF Job
  <2>4. \A j \in JobIds : Runs(j)' = Runs(j)
    BY <2>1, <2>3 DEF Runs
  <2>5. QED
    BY <2>1, <2>4, QueueKeepsBound
<1>3. ASSUME NEW a \in Admins, RequeueFind(a) \/ RequeueStep(a) \/ RequeueCrash(a)
      PROVE  \A j \in JobIds : RunPaysFor(j)'
  <2>1. UNCHANGED <<worker, jobCalls>>
    BY <1>3 DEF RequeueFind, RequeueStep, RequeueTransition, PublishRequeue, RequeueRestore,
       RequeueThrows, RequeueCrash, outside
  <2>2. \A j \in JobIds : Runs(j)' = Runs(j)
    <3>1. CASE UNCHANGED job
      BY <3>1 DEF Runs
    <3>2. CASE PublishRequeue(a)
      <4>1. PICK i \in JobIds : job[i].state = "absent" /\ job' = [job EXCEPT ![i] = PublishedJob]
        <5>1. admin[a].message \in Messages
          BY <3>2 DEF PublishRequeue, TypeOK
        <5>2. \A g \in 1 .. MaxRequeues : <<admin[a].message, g>> \in JobIds
          BY <5>1, BoundAssumption DEF JobIds
        <5>3. QED
          BY <3>2, <5>2 DEF PublishRequeue
      <4>2. job[i] = AbsentJob /\ job'[i] = PublishedJob
        BY <1>t, <4>1 DEF AbsentUntouched
      <4>3. \A j \in JobIds : j # i => job'[j] = job[j]
        BY <1>t, <4>1
      <4>4. Runs(i)' = Runs(i)
        BY <4>2 DEF Runs, PublishedJob, AbsentJob
      <4>5. QED
        BY <4>3, <4>4 DEF Runs
    <3>3. QED
      BY <1>3, <3>1, <3>2 DEF RequeueFind, RequeueStep, RequeueTransition, RequeueRestore,
         RequeueThrows, RequeueCrash
  <2>3. QED
    BY <2>1, <2>2, QueueKeepsBound
<1>4. CASE Rest \/ UNCHANGED vars
  <2>1. UNCHANGED <<worker, job, jobCalls>>
    BY <1>4 DEF Rest, vars, outside
  <2>2. \A j \in JobIds : Runs(j)' = Runs(j)
    BY <2>1 DEF Runs
  <2>3. QED
    BY <2>1, <2>2, QueueKeepsBound
<1>5. QED
  BY <1>1, <1>2, <1>3, <1>4 DEF Next, Activity

LEMMA RunPaysForInit == Init => AbsentUntouched /\ \A j \in JobIds : RunPaysFor(j)
<1> SUFFICES ASSUME Init
             PROVE  AbsentUntouched /\ \A j \in JobIds : RunPaysFor(j)
  OBVIOUS
<1>1. AbsentUntouched
  BY DEF Init, AbsentUntouched, PublishedJob, AbsentJob
<1>2. ASSUME NEW j \in JobIds
      PROVE  RunPaysFor(j)
  <2>1. jobCalls[j] = 0 /\ Runs(j) = 0
    BY DEF Init, Undispatched, Runs, PublishedJob, AbsentJob
  <2>2. RemainingCalls(j) = {}
    <3>1. \A w \in Workers : Remaining(w) = 0
      BY DEF Init, Undispatched, Remaining, IdleWorker, CallPcs
    <3>2. QED
      BY <3>1, CallsPerDispatchType DEF RemainingCalls
  <2>3. Cardinality(RemainingCalls(j)) = 0
    BY <2>2, FS_EmptySet
  <2>4. CallsPerDispatch * 0 = 0
    BY CallsPerDispatchType
  <2>5. QED
    BY <2>1, <2>3, <2>4 DEF RunPaysFor
<1>3. QED
  BY <1>1, <1>2

(***************************************************************************)
(* The retries of BullMQ multiply with those of dispatchAcrossProviders    *)
(* and never more than that: a job's calls are bounded by what its runs    *)
(* may make, whatever is lost, dies or is taken for dead, although a       *)
(* worker that lost its job goes on calling next to the job's new owner.   *)
(***************************************************************************)
THEOREM CallsPaidByRuns == Spec => []CallsBoundedByRuns
<1> DEFINE Bounded == AbsentUntouched /\ \A j \in JobIds : RunPaysFor(j)
<1>1. Init => Bounded
  BY RunPaysForInit
<1>2. TypeOK /\ TypeOK' /\ OwnersActive /\ Bounded /\ [Next]_vars => Bounded'
  BY AbsentUntouchedStep, RunPaysForStep
<1>3. TypeOK /\ Bounded => CallsBoundedByRuns
  <2> SUFFICES ASSUME TypeOK, Bounded, NEW j \in JobIds
               PROVE  jobCalls[j] <= CallsPerDispatch * (job[j].failures + job[j].stalls + 1)
    BY DEF CallsBoundedByRuns
  <2>1. /\ jobCalls[j] \in Nat /\ job[j].failures + job[j].stalls \in Nat
        /\ Runs(j) \in Nat /\ Runs(j) <= job[j].failures + job[j].stalls + 1
    BY DEF TypeOK, Job, Runs
  <2>2. jobCalls[j] + Cardinality(RemainingCalls(j)) <= CallsPerDispatch * Runs(j)
    BY DEF RunPaysFor
  <2>3. \A c, n, k \in Nat : n <= k => c * n \in Nat /\ c * k \in Nat /\ c * n <= c * k
    OBVIOUS
  <2> DEFINE most == job[j].failures + job[j].stalls + 1
  <2>4. most \in Nat /\ Runs(j) <= most
    BY <2>1
  <2> HIDE DEF most
  <2> DEFINE bound == CallsPerDispatch * Runs(j)
             limit == CallsPerDispatch * most
  <2>5. bound \in Nat /\ limit \in Nat /\ bound <= limit
    BY <2>1, <2>3, <2>4, CallsPerDispatchType
  <2> HIDE DEF bound, limit
  <2>6. jobCalls[j] <= limit
    BY <2>1, <2>2, <2>5, RemainingFinite DEF bound
  <2>7. QED
    BY <2>6 DEF limit, most
<1> HIDE DEF Bounded
<1>4. QED
  BY <1>1, <1>2, <1>3, TypeCorrect, AlwaysPaidFor, PTL DEF Spec

-----------------------------------------------------------------------------
(***************************************************************************)
(* Without faults every job of a message waits, is worked on, is worth a   *)
(* dead letter, or sent the message. This is the inductive form of         *)
(* DeadLettersExact; no job is left without a worker.                      *)
(***************************************************************************)
Untroubled == faults.errors + faults.crashes + faults.falseStalls = 0

Manned ==
    /\ \A w \in Workers : worker[w].pc # "threw"
    /\ \A j \in JobIds : job[j].state = "active" => \E w \in Workers : Works(w, j)
Attended ==
    /\ Manned
    /\ \A m \in Messages : row[m].status \in {"QUEUED", "PROCESSING", "SENT", "FATAL_FAILURE"}

WaitingJobs(m) == {j \in JobIds : MessageOf(j) = m /\ job[j].state = "waiting"}
BusyWorkers(m) ==
    {w \in Workers : worker[w].pc \notin {"idle", "returned"} /\ MessageOfWorker(w) = m}
SentOnce(m) == IF row[m].status = "SENT" THEN 1 ELSE 0
LettersOf(m) ==
    Cardinality(JobsOf(m)) =
        deadLetters[m] + Cardinality(WaitingJobs(m)) + Cardinality(BusyWorkers(m)) + SentOnce(m)
Letters == Attended /\ \A m \in Messages : LettersOf(m)

LEMMA FaultlessMeans ==
    ASSUME TypeOK, Untroubled
    PROVE  /\ faults.errors = 0 /\ faults.crashes = 0 /\ faults.falseStalls = 0
           /\ Apart
<1>1. faults.errors \in Nat /\ faults.crashes \in Nat /\ faults.falseStalls \in Nat
  BY DEF TypeOK
<1>2. faults.errors + faults.crashes + faults.falseStalls = 0
  BY DEF Untroubled
<1>3. faults.errors = 0 /\ faults.crashes = 0 /\ faults.falseStalls = 0
  BY ONLY <1>1, <1>2
<1>4. QED
  BY <1>3 DEF Apart

LEMMA NothingFails ==
    ASSUME TypeOK, TypeOK', Untroubled'
    PROVE  /\ ~ErrorHappens
           /\ \A w \in Workers : ~Crash(w)
           /\ \A a \in Admins : ~RequeueCrash(a)
           /\ \A j \in JobIds : ~FalseStall(j)
<1>1. faults \in [errors: Nat, crashes: Nat, falseStalls: Nat, requeues: Nat]
  BY DEF TypeOK
<1>2. faults'.errors = 0 /\ faults'.crashes = 0 /\ faults'.falseStalls = 0
  <2>1. faults'.errors \in Nat /\ faults'.crashes \in Nat /\ faults'.falseStalls \in Nat
    BY DEF TypeOK
  <2>2. faults'.errors + faults'.crashes + faults'.falseStalls = 0
    BY DEF Untroubled
  <2>3. QED
    BY ONLY <2>1, <2>2
<1>3. QED
  BY <1>1, <1>2 DEF ErrorHappens, Crash, RequeueCrash, FalseStall

LEMMA FaultlessBefore == TypeOK /\ TypeOK' /\ [Next]_vars /\ Untroubled' => Untroubled
<1> SUFFICES ASSUME TypeOK, TypeOK', [Next]_vars, Untroubled'
             PROVE  Untroubled
  OBVIOUS
<1>1. /\ faults.errors <= faults'.errors /\ faults.crashes <= faults'.crashes
      /\ faults.falseStalls <= faults'.falseStalls
      /\ faults.errors \in Nat /\ faults.crashes \in Nat /\ faults.falseStalls \in Nat
      /\ faults'.errors \in Nat /\ faults'.crashes \in Nat /\ faults'.falseStalls \in Nat
  BY FaultsGrow
<1>2. faults'.errors = 0 /\ faults'.crashes = 0 /\ faults'.falseStalls = 0
  <2>1. faults'.errors \in Nat /\ faults'.crashes \in Nat /\ faults'.falseStalls \in Nat
    BY <1>1
  <2>2. faults'.errors + faults'.crashes + faults'.falseStalls = 0
    BY DEF Untroubled
  <2>3. QED
    BY ONLY <2>1, <2>2
<1>3. faults.errors = 0 /\ faults.crashes = 0 /\ faults.falseStalls = 0
  BY <1>1, <1>2
<1>4. QED
  BY <1>3 DEF Untroubled

LEMMA MessageSetsFinite ==
    ASSUME NEW m
    PROVE  IsFiniteSet(JobsOf(m)) /\ IsFiniteSet(WaitingJobs(m)) /\ IsFiniteSet(BusyWorkers(m))
<1>1. IsFiniteSet({m} \X (0 .. MaxRequeues))
  <2>1. IsFiniteSet({m})
    BY FS_Singleton
  <2>2. IsFiniteSet(0 .. MaxRequeues)
    <3>1. MaxRequeues \in Int /\ 0 \in Int
      BY BoundAssumption
    <3>2. QED
      BY <3>1, FS_Interval
  <2>3. QED
    BY <2>1, <2>2, FS_Product
<1>2. /\ JobsOf(m) \in SUBSET ({m} \X (0 .. MaxRequeues))
      /\ WaitingJobs(m) \in SUBSET ({m} \X (0 .. MaxRequeues))
  BY DEF JobsOf, WaitingJobs, JobIds, MessageOf
<1>3. BusyWorkers(m) \in SUBSET Workers
  BY DEF BusyWorkers
<1>4. QED
  BY <1>1, <1>2, <1>3, FS_Subset, WorkersAssumption

(* The account of a message after a step that changes one job and one worker. *)
LEMMA LettersBalance ==
    ASSUME TypeOK, TypeOK', NEW m \in Messages, NEW j, NEW w, LettersOf(m),
           JobsOf(m) \ {j} = JobsOf(m)' \ {j},
           WaitingJobs(m) \ {j} = WaitingJobs(m)' \ {j},
           BusyWorkers(m) \ {w} = BusyWorkers(m)' \ {w},
           (IF j \in JobsOf(m)' THEN 1 ELSE 0) + deadLetters[m]
                + (IF j \in WaitingJobs(m) THEN 1 ELSE 0)
                + (IF w \in BusyWorkers(m) THEN 1 ELSE 0) + SentOnce(m)
             = (IF j \in JobsOf(m) THEN 1 ELSE 0) + deadLetters'[m]
                + (IF j \in WaitingJobs(m)' THEN 1 ELSE 0)
                + (IF w \in BusyWorkers(m)' THEN 1 ELSE 0) + SentOnce(m)'
    PROVE  LettersOf(m)'
<1> DEFINE A == JobsOf(m)
           A1 == JobsOf(m)'
           B == WaitingJobs(m)
           B1 == WaitingJobs(m)'
           C == BusyWorkers(m)
           C1 == BusyWorkers(m)'
<1>1. /\ deadLetters[m] \in Nat /\ deadLetters'[m] \in Nat
      /\ SentOnce(m) \in Nat /\ SentOnce(m)' \in Nat
  BY DEF TypeOK, SentOnce
<1>2. IsFiniteSet(A) /\ IsFiniteSet(B) /\ IsFiniteSet(C)
  BY MessageSetsFinite
<1>3. Cardinality(A) = deadLetters[m] + Cardinality(B) + Cardinality(C) + SentOnce(m)
  BY DEF LettersOf
<1>4. A \ {j} = A1 \ {j} /\ B \ {j} = B1 \ {j} /\ C \ {w} = C1 \ {w}
  OBVIOUS
<1>5. (IF j \in A1 THEN 1 ELSE 0) + deadLetters[m] + (IF j \in B THEN 1 ELSE 0)
          + (IF w \in C THEN 1 ELSE 0) + SentOnce(m)
        = (IF j \in A THEN 1 ELSE 0) + deadLetters'[m] + (IF j \in B1 THEN 1 ELSE 0)
          + (IF w \in C1 THEN 1 ELSE 0) + SentOnce(m)'
  OBVIOUS
<1> HIDE DEF A, A1, B, B1, C, C1
<1>6. /\ Cardinality(A) \in Nat /\ Cardinality(A1) \in Nat
      /\ Cardinality(A1) + (IF j \in A THEN 1 ELSE 0) = Cardinality(A) + (IF j \in A1 THEN 1 ELSE 0)
  BY <1>2, <1>4, OneDiffers
<1>7. /\ Cardinality(B) \in Nat /\ Cardinality(B1) \in Nat
      /\ Cardinality(B1) + (IF j \in B THEN 1 ELSE 0) = Cardinality(B) + (IF j \in B1 THEN 1 ELSE 0)
  BY <1>2, <1>4, OneDiffers
<1>8. /\ Cardinality(C) \in Nat /\ Cardinality(C1) \in Nat
      /\ Cardinality(C1) + (IF w \in C THEN 1 ELSE 0) = Cardinality(C) + (IF w \in C1 THEN 1 ELSE 0)
  BY <1>2, <1>4, OneDiffers
<1>9. Cardinality(A1) = deadLetters'[m] + Cardinality(B1) + Cardinality(C1) + SentOnce(m)'
  <2> DEFINE a == IF j \in A THEN 1 ELSE 0
             a1 == IF j \in A1 THEN 1 ELSE 0
             b == IF j \in B THEN 1 ELSE 0
             b1 == IF j \in B1 THEN 1 ELSE 0
             c == IF w \in C THEN 1 ELSE 0
             c1 == IF w \in C1 THEN 1 ELSE 0
  <2>1. a \in Nat /\ a1 \in Nat /\ b \in Nat /\ b1 \in Nat /\ c \in Nat /\ c1 \in Nat
    OBVIOUS
  <2>2. /\ Cardinality(A1) + a = Cardinality(A) + a1
        /\ Cardinality(B1) + b = Cardinality(B) + b1
        /\ Cardinality(C1) + c = Cardinality(C) + c1
    BY <1>6, <1>7, <1>8
  <2>3. a1 + deadLetters[m] + b + c + SentOnce(m) = a + deadLetters'[m] + b1 + c1 + SentOnce(m)'
    BY <1>5
  <2> HIDE DEF a, a1, b, b1, c, c1
  <2>4. QED
    BY <1>1, <1>3, <1>6, <1>7, <1>8, <2>1, <2>2, <2>3
<1>10. QED
  BY <1>9 DEF LettersOf, A1, B1, C1

(* Before the claim, without faults, the message is open: nobody settled it. *)
LEMMA Undecided ==
    ASSUME Ground, Attended, Untroubled, NEW w \in Workers,
           worker[w].pc \in {"findById", "markProcessing"}
    PROVE  row[MessageOfWorker(w)].status \in {"QUEUED", "PROCESSING"}
<1> SUFFICES ASSUME NEW m, m = MessageOfWorker(w)
             PROVE  row[m].status \in {"QUEUED", "PROCESSING"}
  OBVIOUS
<1>1. m \in Messages
  BY JobMessage DEF Ground, TypeOK, MessageOfWorker
<1>2. Load(m, "settle") <= 1
  <2>1. Budget = 1
    BY FaultlessMeans DEF Ground, Budget
  <2>2. Load(m, "settle") <= Budget
    BY <1>1 DEF Ground, PaidFor
  <2>3. QED
    BY <2>1, <2>2
<1>3. /\ Cardinality(OpenJobs(m)) \in Nat /\ Cardinality(OpenWorkers(m, "settle")) \in Nat
      /\ Cardinality(OpenRequests(m)) \in Nat /\ Settled(m, "settle") \in Nat
  BY <1>1, OpenFinite, FS_CardinalityType DEF Ground, PaidFor, Settled
<1>4. w \in OpenWorkers(m, "settle")
  BY DEF OpenWorkers, Counts, HeldPcs
<1>5. Cardinality(OpenWorkers(m, "settle")) # 0
  BY <1>4, OpenFinite, FS_EmptySet
<1>6. Settled(m, "settle") = 0
  BY <1>2, <1>3, <1>5 DEF Load
<1>7. QED
  BY <1>1, <1>6 DEF Attended, Settled

(***************************************************************************)
(* A dispatch without faults: it goes on without settling, it ends with    *)
(* the row SENT, or it ends with a dead letter.                            *)
(***************************************************************************)
Continues(w) ==
    /\ worker'[w].pc # "returned" /\ UNCHANGED deadLetters
    /\ \A n \in Messages : (row'[n].status = "SENT") <=> (row[n].status = "SENT")
EndsSent(w, m) ==
    /\ worker'[w].pc = "returned" /\ UNCHANGED deadLetters
    /\ \A n \in Messages \ {m} : row'[n] = row[n]
    /\ row[m].status # "SENT" /\ row'[m].status = "SENT"
EndsDead(w, m) ==
    /\ worker'[w].pc = "returned" /\ UNCHANGED row
    /\ deadLetters' = [deadLetters EXCEPT ![m] = @ + 1]

LEMMA FaultlessDispatch ==
    ASSUME Ground, TypeOK', Attended, Claimed, Untroubled, Untroubled', NEW w \in Workers,
           DispatchStep(w) \/ CallThrows(w), NEW m, m = MessageOfWorker(w)
    PROVE  /\ worker[w].pc \notin {"idle", "returned"} /\ worker'[w].pc # "threw"
           /\ Continues(w) \/ EndsSent(w, m) \/ EndsDead(w, m)
<1>t. /\ worker \in [Workers -> Worker] /\ row \in [Messages -> SmsMessage]
      /\ deadLetters \in [Messages -> Nat]
  BY DEF Ground, TypeOK
<1>e. ~ErrorHappens
  BY NothingFails DEF Ground
<1>1. ASSUME NEW pc, Goto(w, pc) \/ Answered(w, pc)
      PROVE  worker'[w].pc = pc
  <2>1. Goto(w, pc)
    BY <1>1, <1>e DEF Answered
  <2>2. QED
    BY <1>t, <2>1 DEF Goto, Worker
<1>2. worker[w].pc \notin {"idle", "returned"}
  BY DEF DispatchStep, FindById, ClaimMessage, CountAttempt, Throttle, SendSms,
     RecordSent, RecordFatalFailure, EnqueueDeadLetter, CallThrows, DatabasePcs, QueuePcs
<1>3. m \in Messages
  BY <1>2, JobMessage DEF Ground, TypeOK, MessageOfWorker
<1>4. \A r : SetRow(m, r) => /\ row'[m] = r
                             /\ \A n \in Messages : n # m => row'[n] = row[n]
  BY <1>t, <1>3 DEF SetRow
<1>5. CASE FindById(w)
  <2>1. row[m].status \notin NON_DISPATCHABLE_STATUSES
    BY <1>5, Undecided DEF FindById, NON_DISPATCHABLE_STATUSES
  <2>2. worker'[w].pc = "markProcessing" /\ UNCHANGED <<row, deadLetters>>
    BY <1>1, <1>5, <2>1 DEF FindById, outside
  <2>3. QED
    BY <1>2, <2>2 DEF Continues
<1>6. CASE ClaimMessage(w)
  <2>1. row[m].status \in {"QUEUED", "PROCESSING"}
    BY <1>6, Undecided DEF ClaimMessage
  <2>2. MayMarkProcessing(row[m])
    BY <2>1 DEF MayMarkProcessing, ClaimableStatuses
  <2>3. /\ SetRow(m, MarkProcessing(row[m])) /\ Answered(w, "incrementAttempts")
        /\ UNCHANGED deadLetters
    BY <1>6, <2>2 DEF ClaimMessage, outside
  <2>4. row'[m].status = "PROCESSING"
    BY <1>3, <1>4, <1>t, <2>3 DEF MarkProcessing, SmsMessage
  <2>5. worker'[w].pc = "incrementAttempts"
    BY <1>1, <2>3
  <2>6. QED
    BY <1>2, <1>4, <2>1, <2>3, <2>4, <2>5 DEF Continues
<1>7. CASE CountAttempt(w)
  <2>1. /\ SetRow(m, IncrementAttempts(row[m])) /\ Answered(w, "throttle")
        /\ UNCHANGED deadLetters
    BY <1>7 DEF CountAttempt, outside
  <2>2. row'[m].status = row[m].status
    BY <1>3, <1>4, <1>t, <2>1 DEF IncrementAttempts, SmsMessage
  <2>3. worker'[w].pc = "throttle"
    BY <1>1, <2>1
  <2>4. QED
    BY <1>2, <1>4, <2>1, <2>2, <2>3 DEF Continues
<1>8. CASE Throttle(w)
  <2>1. worker'[w].pc = "sendSms" /\ UNCHANGED <<row, deadLetters>>
    BY <1>1, <1>8 DEF Throttle, outside
  <2>2. QED
    BY <1>2, <2>1 DEF Continues
<1>9. CASE SendSms(w)
  <2>1. UNCHANGED <<row, deadLetters>>
    BY <1>9 DEF SendSms
  <2>2. worker'[w].pc \in {"markSent", "incrementAttempts", "markFatalFailure"}
    <3>1. CASE \E retryable \in BOOLEAN : AfterFailedSend(w, retryable)
      BY <1>t, <3>1 DEF AfterFailedSend, Worker
    <3>2. CASE \E pid : worker' = [worker EXCEPT ![w].pc = "markSent", ![w].pid = pid]
      BY <1>t, <3>2 DEF Worker
    <3>3. QED
      BY <1>9, <3>1, <3>2 DEF SendSms
  <2>3. QED
    BY <1>2, <2>1, <2>2 DEF Continues
<1>10. CASE RecordSent(w)
  <2>1. /\ SetRow(m, MarkSent(row[m], ProviderOfWorker(w), worker[w].pid))
        /\ Answered(w, "returned") /\ UNCHANGED deadLetters /\ worker[w].pc = "markSent"
    BY <1>10 DEF RecordSent, outside
  <2>2. row[m].status = "PROCESSING"
    BY <2>1 DEF Claimed, DispatchPcs
  <2>3. row'[m].status = "SENT"
    <3>1. row'[m] = MarkSent(row[m], ProviderOfWorker(w), worker[w].pid)
      BY <1>3, <1>t, <2>1 DEF SetRow
    <3>2. row[m] \in SmsMessage
      BY <1>3, <1>t
    <3>3. QED
      BY <3>1, <3>2 DEF MarkSent, SmsMessage
  <2>4. worker'[w].pc = "returned"
    BY <1>1, <2>1
  <2>5. QED
    BY <1>2, <1>4, <2>1, <2>2, <2>3, <2>4 DEF EndsSent
<1>11. CASE RecordFatalFailure(w)
  <2>1. /\ SetRow(m, MarkFatalFailure(row[m], ProviderOfWorker(w)))
        /\ Answered(w, "enqueueDeadLetter") /\ UNCHANGED deadLetters
        /\ worker[w].pc = "markFatalFailure"
    BY <1>11 DEF RecordFatalFailure, outside
  <2>2. row[m].status = "PROCESSING"
    BY <2>1 DEF Claimed, DispatchPcs
  <2>3. row'[m].status = "FATAL_FAILURE"
    <3>1. row'[m] = MarkFatalFailure(row[m], ProviderOfWorker(w))
      BY <1>3, <1>t, <2>1 DEF SetRow
    <3>2. row[m] \in SmsMessage
      BY <1>3, <1>t
    <3>3. QED
      BY <3>1, <3>2 DEF MarkFatalFailure, SmsMessage
  <2>4. worker'[w].pc = "enqueueDeadLetter"
    BY <1>1, <2>1
  <2>5. QED
    BY <1>2, <1>4, <2>1, <2>2, <2>3, <2>4 DEF Continues
<1>12. CASE EnqueueDeadLetter(w)
  <2>1. /\ Goto(w, "returned") /\ UNCHANGED row
        /\ deadLetters' = [deadLetters EXCEPT ![m] = @ + 1]
    BY <1>12, <1>e DEF EnqueueDeadLetter
  <2>2. QED
    BY <1>1, <1>2, <2>1 DEF EndsDead
<1>13. ~CallThrows(w)
  BY <1>e DEF CallThrows
<1>14. QED
  BY <1>5, <1>6, <1>7, <1>8, <1>9, <1>10, <1>11, <1>12, <1>13 DEF DispatchStep

(* The account of a message no step of a worker, job or row touches. *)
LEMMA LettersKept ==
    ASSUME NEW m \in Messages, LettersOf(m), deadLetters'[m] = deadLetters[m],
           JobsOf(m)' = JobsOf(m), WaitingJobs(m)' = WaitingJobs(m),
           BusyWorkers(m)' = BusyWorkers(m), SentOnce(m)' = SentOnce(m)
    PROVE  LettersOf(m)'
BY DEF LettersOf

LEMMA LettersDispatch ==
    ASSUME Ground, TypeOK', Letters, Claimed, Untroubled, Untroubled', NEW w \in Workers,
           DispatchStep(w) \/ CallThrows(w)
    PROVE  Manned' /\ \A n \in Messages : LettersOf(n)'
<1> SUFFICES ASSUME NEW m, m = MessageOfWorker(w)
             PROVE  Manned' /\ \A n \in Messages : LettersOf(n)'
  OBVIOUS
<1>t. TypeOK /\ Attended /\ Manned
  BY DEF Ground, Letters, Attended
<1>1. /\ worker[w].pc # "idle" /\ UNCHANGED job
      /\ \A v \in Workers : v # w => worker'[v] = worker[v]
      /\ worker'[w].job = worker[w].job /\ worker'[w].pc # "idle"
  BY <1>t, DispatchMoves
<1>2. /\ worker[w].pc \notin {"idle", "returned"} /\ worker'[w].pc # "threw"
      /\ Continues(w) \/ EndsSent(w, m) \/ EndsDead(w, m)
  BY <1>t, FaultlessDispatch
<1>3. Manned'
  <2>1. \A v \in Workers, j \in JobIds : Works(v, j) => Works(v, j)'
    BY <1>1 DEF Works
  <2>2. \A j \in JobIds : job'[j].state = "active" => \E v \in Workers : Works(v, j)'
    BY <1>1, <1>t, <2>1 DEF Manned
  <2>3. \A v \in Workers : worker'[v].pc # "threw"
    BY <1>1, <1>2, <1>t DEF Manned
  <2>4. QED
    BY <2>2, <2>3 DEF Manned
<1>4. ASSUME NEW n \in Messages
      PROVE  LettersOf(n)'
  <2>1. LettersOf(n)
    BY DEF Letters
  <2>2. JobsOf(n)' = JobsOf(n) /\ WaitingJobs(n)' = WaitingJobs(n)
    BY <1>1 DEF JobsOf, WaitingJobs
  <2>3. BusyWorkers(n) \ {w} = BusyWorkers(n)' \ {w}
    BY <1>1 DEF BusyWorkers, MessageOfWorker
  <2>4. m = MessageOfWorker(w)'
    BY <1>1 DEF MessageOfWorker
  <2>5. w \in BusyWorkers(n) <=> n = m
    BY <1>2 DEF BusyWorkers
  <2>6. w \in BusyWorkers(n)' <=> n = m /\ worker'[w].pc # "returned"
    BY <1>1, <2>4 DEF BusyWorkers
  <2>7. CASE n # m
    <3>1. deadLetters'[n] = deadLetters[n] /\ SentOnce(n)' = SentOnce(n)
      <4>1. deadLetters'[n] = deadLetters[n]
        BY <1>2, <1>t, <2>7 DEF Continues, EndsSent, EndsDead, TypeOK
      <4>2. (row'[n].status = "SENT") <=> (row[n].status = "SENT")
        BY <1>2, <2>7 DEF Continues, EndsSent, EndsDead
      <4>3. QED
        BY <4>1, <4>2 DEF SentOnce
    <3>2. BusyWorkers(n)' = BusyWorkers(n)
      BY <2>3, <2>5, <2>6, <2>7
    <3>3. QED
      BY <2>1, <2>2, <3>1, <3>2, LettersKept
  <2>8. CASE n = m /\ Continues(w)
    <3>1. deadLetters'[n] = deadLetters[n] /\ SentOnce(n)' = SentOnce(n)
      BY <2>8 DEF Continues, SentOnce
    <3>2. BusyWorkers(n)' = BusyWorkers(n)
      <4>1. w \in BusyWorkers(n) /\ w \in BusyWorkers(n)'
        BY <2>5, <2>6, <2>8 DEF Continues
      <4>2. QED
        BY <2>3, <4>1
    <3>3. QED
      BY <2>1, <2>2, <3>1, <3>2, LettersKept
  <2>9. CASE n = m /\ (EndsSent(w, m) \/ EndsDead(w, m))
    <3>1. w \in BusyWorkers(n) /\ w \notin BusyWorkers(n)'
      BY <2>5, <2>6, <2>9 DEF EndsSent, EndsDead
    <3>2. deadLetters'[n] + SentOnce(n)' = deadLetters[n] + SentOnce(n) + 1
      <4>1. deadLetters \in [Messages -> Nat]
        BY <1>t DEF TypeOK
      <4>2. CASE EndsSent(w, m)
        <5>1. /\ deadLetters'[n] = deadLetters[n] /\ deadLetters[n] \in Nat
              /\ SentOnce(n) = 0 /\ SentOnce(n)' = 1
          BY <2>9, <4>1, <4>2 DEF EndsSent, SentOnce
        <5>2. QED
          BY <5>1
      <4>3. CASE EndsDead(w, m)
        <5>1. /\ deadLetters'[n] = deadLetters[n] + 1 /\ deadLetters[n] \in Nat
              /\ SentOnce(n)' = SentOnce(n) /\ SentOnce(n) \in Nat
          BY <2>9, <4>1, <4>3 DEF EndsDead, SentOnce
        <5>2. QED
          BY <5>1
      <4>4. QED
        BY <2>9, <4>2, <4>3
    <3>3. /\ deadLetters[n] \in Nat /\ deadLetters'[n] \in Nat
          /\ SentOnce(n) \in Nat /\ SentOnce(n)' \in Nat
      BY <1>t DEF TypeOK, SentOnce
    <3>4. QED
      BY <1>t, <2>1, <2>2, <2>3, <3>1, <3>2, <3>3, LettersBalance
  <2>10. QED
    BY <1>2, <2>7, <2>8, <2>9
<1>5. QED
  BY <1>3, <1>4

(* A waiting job becomes the work of one worker. *)
LEMMA LettersProcess ==
    ASSUME TypeOK, TypeOK', Letters, NEW w \in Workers, Process(w)
    PROVE  Manned' /\ \A n \in Messages : LettersOf(n)'
<1>1. PICK j \in JobIds :
        /\ job[j].state = "waiting"
        /\ job' = [job EXCEPT ![j].state = "active", ![j].owner = w]
        /\ worker' = [worker EXCEPT ![w] = [IdleWorker EXCEPT !.pc = "findById", !.job = j]]
  BY DEF Process
<1>2. /\ job \in [JobIds -> Job] /\ worker \in [Workers -> Worker]
      /\ UNCHANGED <<row, deadLetters>> /\ worker[w].pc = "idle"
  BY DEF TypeOK, Process, outside
<1>3. /\ worker'[w].job = j /\ worker'[w].pc = "findById"
      /\ \A v \in Workers : v # w => worker'[v] = worker[v]
  BY <1>1, <1>2 DEF IdleWorker
<1>4. /\ job'[j].owner = w /\ job'[j].state = "active"
      /\ \A i \in JobIds : i # j => job'[i] = job[i]
  BY <1>1, <1>2 DEF Job
<1>5. Manned'
  <2>1. Works(w, j)'
    BY <1>3, <1>4 DEF Works
  <2>2. \A v \in Workers, i \in JobIds : i # j /\ Works(v, i) => Works(v, i)'
    BY <1>2, <1>3, <1>4 DEF Works
  <2>3. \A i \in JobIds : job'[i].state = "active" => \E v \in Workers : Works(v, i)'
    BY <1>4, <2>1, <2>2 DEF Letters, Attended, Manned
  <2>4. \A v \in Workers : worker'[v].pc # "threw"
    BY <1>3 DEF Letters, Attended, Manned
  <2>5. QED
    BY <2>3, <2>4 DEF Manned
<1>6. ASSUME NEW n \in Messages
      PROVE  LettersOf(n)'
  <2>1. JobsOf(n)' = JobsOf(n)
    BY <1>1, <1>4 DEF JobsOf
  <2>2. WaitingJobs(n) \ {j} = WaitingJobs(n)' \ {j}
    BY <1>4 DEF WaitingJobs
  <2>3. BusyWorkers(n) \ {w} = BusyWorkers(n)' \ {w}
    BY <1>3 DEF BusyWorkers, MessageOfWorker
  <2>4. w \notin BusyWorkers(n) /\ (w \in BusyWorkers(n)' <=> n = MessageOf(j))
    BY <1>2, <1>3 DEF BusyWorkers, MessageOfWorker
  <2>5. (j \in WaitingJobs(n) <=> n = MessageOf(j)) /\ j \notin WaitingJobs(n)'
    BY <1>1, <1>4 DEF WaitingJobs
  <2>6. SentOnce(n)' = SentOnce(n) /\ deadLetters'[n] = deadLetters[n]
    BY <1>2 DEF SentOnce
  <2>7. LettersOf(n) /\ deadLetters[n] \in Nat /\ SentOnce(n) \in Nat
    BY DEF Letters, TypeOK, SentOnce
  <2>8. QED
    BY <2>1, <2>2, <2>3, <2>4, <2>5, <2>6, <2>7, LettersBalance
<1>7. QED
  BY <1>5, <1>6

(* A worker that returned settles its job. *)
LEMMA LettersCompletes ==
    ASSUME Ground, Apart, TypeOK', Letters, NEW w \in Workers, JobCompletes(w)
    PROVE  Manned' /\ \A n \in Messages : LettersOf(n)'
<1> SUFFICES ASSUME NEW j, j = worker[w].job
             PROVE  Manned' /\ \A n \in Messages : LettersOf(n)'
  OBVIOUS
<1>1. /\ worker[w].pc = "returned" /\ worker' = [worker EXCEPT ![w] = IdleWorker]
      /\ UNCHANGED <<row, deadLetters>>
      /\ job \in [JobIds -> Job] /\ worker \in [Workers -> Worker] /\ j \in JobIds
  BY DEF JobCompletes, outside, Ground, TypeOK
<1>2. job[j].owner = w /\ job[j].state = "active"
  <2>1. Owns(w)
    BY <1>1 DEF Ground, Footing, Apart
  <2>2. QED
    BY <1>1, <2>1, WorkersAssumption DEF Owns, Ground, OwnersActive
<1>3. job' = [job EXCEPT ![j].state = "completed", ![j].owner = Null]
  BY <1>2 DEF JobCompletes, Owns
<1>4. /\ job'[j].state = "completed"
      /\ \A i \in JobIds : i # j => job'[i] = job[i]
  BY <1>1, <1>3 DEF Job
<1>5. /\ worker'[w].pc = "idle"
      /\ \A v \in Workers : v # w => worker'[v] = worker[v]
  BY <1>1, InitialWorker
<1>6. Manned'
  <2>1. \A v \in Workers, i \in JobIds : i # j /\ Works(v, i) => Works(v, i)'
    BY <1>4, <1>5 DEF Works
  <2>2. \A i \in JobIds : job'[i].state = "active" => \E v \in Workers : Works(v, i)'
    BY <1>4, <2>1 DEF Letters, Attended, Manned
  <2>3. \A v \in Workers : worker'[v].pc # "threw"
    BY <1>5 DEF Letters, Attended, Manned
  <2>4. QED
    BY <2>2, <2>3 DEF Manned
<1>7. ASSUME NEW n \in Messages
      PROVE  LettersOf(n)'
  <2>1. JobsOf(n)' = JobsOf(n)
    BY <1>2, <1>4 DEF JobsOf
  <2>2. WaitingJobs(n)' = WaitingJobs(n)
    BY <1>2, <1>4 DEF WaitingJobs
  <2>3. BusyWorkers(n)' = BusyWorkers(n)
    BY <1>1, <1>5 DEF BusyWorkers, MessageOfWorker
  <2>4. SentOnce(n)' = SentOnce(n) /\ deadLetters'[n] = deadLetters[n]
    BY <1>1 DEF SentOnce
  <2>5. QED
    BY <2>1, <2>2, <2>3, <2>4, LettersKept DEF Letters
<1>8. QED
  BY <1>6, <1>7

(* A requeue takes the row back to QUEUED and publishes one more job. *)
LEMMA LettersRequeue ==
    ASSUME Ground, TypeOK', Letters, Untroubled, Untroubled', NEW a \in Admins,
           RequeueFind(a) \/ RequeueStep(a) \/ RequeueCrash(a)
    PROVE  Manned' /\ \A n \in Messages : LettersOf(n)'
<1>t. /\ TypeOK /\ job \in [JobIds -> Job] /\ row \in [Messages -> SmsMessage]
  BY DEF Ground, TypeOK
<1>1. ~RequeueThrows(a) /\ ~RequeueCrash(a) /\ ~RequeueRestore(a) /\ ~ErrorHappens
  <2>1. ~ErrorHappens /\ ~RequeueCrash(a)
    BY <1>t, NothingFails
  <2>2. admin[a].pc # "restore"
    BY <1>t, FaultlessMeans DEF Ground, Footing
  <2>3. QED
    BY <2>1, <2>2 DEF RequeueThrows, RequeueRestore
<1>2. UNCHANGED <<worker, deadLetters>>
  BY <1>1 DEF RequeueFind, RequeueStep, RequeueTransition, PublishRequeue, outside
<1>3. \A n \in Messages : BusyWorkers(n)' = BusyWorkers(n)
  BY <1>2 DEF BusyWorkers, MessageOfWorker
<1>4. CASE RequeueFind(a) \/ RequeueTransition(a)
  <2>1. UNCHANGED job
    BY <1>4 DEF RequeueFind, RequeueTransition
  <2>2. Manned'
    BY <1>2, <2>1 DEF Letters, Attended, Manned, Works
  <2>3. \A n \in Messages : SentOnce(n)' = SentOnce(n)
    <3>1. CASE UNCHANGED row
      BY <3>1 DEF SentOnce
    <3>2. CASE /\ RequeueTransition(a) /\ MayTransitionToQueued(row[admin[a].message])
               /\ SetRow(admin[a].message, TransitionFatalFailureToQueued(row[admin[a].message]))
      <4> DEFINE m == admin[a].message
                 r == TransitionFatalFailureToQueued(row[m])
      <4>1. m \in Messages
        BY <1>t, <3>2 DEF RequeueTransition, TypeOK
      <4>2. row[m].status = "FATAL_FAILURE" /\ r.status = "QUEUED"
        BY <1>t, <3>2, <4>1 DEF MayTransitionToQueued, TransitionFatalFailureToQueued, SmsMessage
      <4> HIDE DEF r
      <4>3. row' = [row EXCEPT ![m] = r]
        BY <3>2 DEF SetRow, r
      <4>4. row'[m] = r /\ \A n \in Messages : n # m => row'[n] = row[n]
        BY <1>t, <4>1, <4>3
      <4>5. QED
        BY <4>2, <4>4 DEF SentOnce
    <3>3. QED
      BY <1>4, <3>1, <3>2 DEF RequeueFind, RequeueTransition
  <2>4. \A n \in Messages : JobsOf(n)' = JobsOf(n) /\ WaitingJobs(n)' = WaitingJobs(n)
    BY <2>1 DEF JobsOf, WaitingJobs
  <2>5. QED
    BY <1>2, <1>3, <2>2, <2>3, <2>4, LettersKept DEF Letters
<1>5. CASE PublishRequeue(a)
  <2>1. PICK j \in JobIds : job[j].state = "absent" /\ job' = [job EXCEPT ![j] = PublishedJob]
    <3>1. admin[a].message \in Messages
      BY <1>5, <1>t DEF PublishRequeue, TypeOK
    <3>2. \A g \in 1 .. MaxRequeues : <<admin[a].message, g>> \in JobIds
      BY <3>1, BoundAssumption DEF JobIds
    <3>3. QED
      BY <1>5, <3>2 DEF PublishRequeue
  <2>2. /\ job'[j].state = "waiting"
        /\ \A i \in JobIds : i # j => job'[i] = job[i]
    BY <1>t, <2>1 DEF PublishedJob, AbsentJob
  <2>3. Manned'
    <3>1. \A v \in Workers, i \in JobIds : i # j /\ Works(v, i) => Works(v, i)'
      BY <1>2, <2>2 DEF Works
    <3>2. \A i \in JobIds : job'[i].state = "active" => \E v \in Workers : Works(v, i)'
      BY <2>2, <3>1 DEF Letters, Attended, Manned
    <3>3. QED
      BY <1>2, <3>2 DEF Letters, Attended, Manned
  <2>4. ASSUME NEW n \in Messages
        PROVE  LettersOf(n)'
    <3>1. SentOnce(n)' = SentOnce(n) /\ deadLetters'[n] = deadLetters[n]
      BY <1>2, <1>5 DEF PublishRequeue, SentOnce
    <3>2. JobsOf(n) \ {j} = JobsOf(n)' \ {j} /\ WaitingJobs(n) \ {j} = WaitingJobs(n)' \ {j}
      BY <2>2 DEF JobsOf, WaitingJobs
    <3>3. j \notin JobsOf(n) /\ j \notin WaitingJobs(n)
      BY <2>1 DEF JobsOf, WaitingJobs
    <3>4. j \in JobsOf(n)' <=> j \in WaitingJobs(n)'
      BY <2>2 DEF JobsOf, WaitingJobs
    <3>5. LettersOf(n) /\ deadLetters[n] \in Nat /\ SentOnce(n) \in Nat
      BY <1>t DEF Letters, TypeOK, SentOnce
    <3>6. QED
      BY <1>3, <1>t, <3>1, <3>2, <3>3, <3>4, <3>5, LettersBalance
  <2>5. QED
    BY <2>3, <2>4
<1>6. QED
  BY <1>1, <1>4, <1>5 DEF RequeueStep

LEMMA LettersStep ==
    ASSUME Ground, TypeOK', Letters, Claimed, Untroubled, Untroubled', [Next]_vars
    PROVE  Letters'
<1> DEFINE Goal == Manned' /\ \A n \in Messages : LettersOf(n)'
<1>t. TypeOK /\ Apart /\ Manned
  BY FaultlessMeans DEF Ground, Letters, Attended
<1>1. ASSUME NEW w \in Workers, WorkerStep(w) \/ Crash(w)
      PROVE  Goal
  <2>1. ~Crash(w)
    BY <1>t, NothingFails
  <2>2. ~JobFails(w)
    BY <1>t DEF JobFails, Manned
  <2>3. QED
    BY <1>1, <1>t, <2>1, <2>2, LettersDispatch, LettersProcess, LettersCompletes DEF WorkerStep
<1>2. ASSUME NEW j \in JobIds
      PROVE  ~RecoverStalledJob(j) /\ ~FalseStall(j)
  <2>1. ~FalseStall(j)
    BY <1>t, NothingFails
  <2>2. job[j].state = "active" => \E w \in Workers : job[j].owner = w /\ worker[w].job = j
    BY <1>t DEF Manned, Works
  <2>3. QED
    BY <2>1, <2>2 DEF RecoverStalledJob
<1>3. ASSUME NEW a \in Admins, RequeueFind(a) \/ RequeueStep(a) \/ RequeueCrash(a)
      PROVE  Goal
  BY <1>3, LettersRequeue
<1>4. ASSUME Rest \/ UNCHANGED vars
      PROVE  Goal
  <2>1. UNCHANGED <<row, job, worker, deadLetters>>
    BY <1>4 DEF Rest, vars, outside
  <2>2. Manned'
    BY <1>t, <2>1 DEF Manned, Works
  <2>3. \A n \in Messages : LettersOf(n)'
    BY <2>1 DEF Letters, LettersOf, JobsOf, WaitingJobs, BusyWorkers, MessageOfWorker, SentOnce
  <2>4. QED
    BY <2>2, <2>3
<1>5. Goal
  BY <1>1, <1>2, <1>3, <1>4 DEF Next, Activity
<1>6. \A n \in Messages : row'[n].status \in {"QUEUED", "PROCESSING", "SENT", "FATAL_FAILURE"}
  <2> DEFINE Statuses == {"QUEUED", "PROCESSING", "SENT", "FATAL_FAILURE"}
  <2>1. \A n \in Messages : row[n].status \in Statuses
    BY DEF Letters, Attended
  <2>2. CASE \A n \in Messages : row'[n].status = row[n].status
    BY <2>1, <2>2
  <2>3. CASE \E m \in Messages :
                /\ \A n \in Messages : n # m => row'[n].status = row[n].status
                /\ <<row[m].status, row'[m].status>> \in
                        {<<"QUEUED", "PROCESSING">>, <<"PROCESSING", "SENT">>,
                         <<"PROCESSING", "FATAL_FAILURE">>, <<"FATAL_FAILURE", "QUEUED">>}
    BY <2>1, <2>3
  <2>4. QED
    BY <1>t, <2>2, <2>3, ClaimedStep
<1>7. QED
  BY <1>5, <1>6 DEF Letters, Attended

LEMMA LettersInit == Init => Letters
<1> SUFFICES ASSUME Init
             PROVE  Letters
  OBVIOUS
<1>1. Attended
  BY DEF Init, Undispatched, Attended, Manned, IdleWorker, PublishedJob, AbsentJob, QueuedMessage
<1>2. ASSUME NEW m \in Messages
      PROVE  LettersOf(m)
  <2>1. JobsOf(m) = WaitingJobs(m)
    BY DEF Init, JobsOf, WaitingJobs, PublishedJob, AbsentJob
  <2>2. BusyWorkers(m) = {}
    BY DEF Init, Undispatched, BusyWorkers, IdleWorker
  <2>3. deadLetters[m] = 0 /\ SentOnce(m) = 0
    BY DEF Init, Undispatched, SentOnce, QueuedMessage
  <2>4. Cardinality(BusyWorkers(m)) = 0 /\ Cardinality(WaitingJobs(m)) \in Nat
    BY <2>2, MessageSetsFinite, FS_EmptySet, FS_CardinalityType
  <2>5. QED
    BY <2>1, <2>3, <2>4 DEF LettersOf
<1>3. QED
  BY <1>1, <1>2 DEF Letters

(***************************************************************************)
(* Without faults, the dead-letter queue at rest holds one letter for each *)
(* job of a message but the one that sent it, however often an operator    *)
(* requeued and however the workers interleaved.                           *)
(***************************************************************************)
THEOREM DeadLettersCounted == Spec => []DeadLettersExact
<1> DEFINE Account == (Apart => Claimed) /\ Ground
           Kept == Untroubled => Letters
<1>1. Init => Kept
  BY LettersInit
<1>2. Account /\ Account' /\ Kept /\ [Next]_vars => Kept'
  <2> SUFFICES ASSUME Apart => Claimed, Ground, Ground', Kept, [Next]_vars, Untroubled'
               PROVE  Letters'
    OBVIOUS
  <2>1. TypeOK /\ TypeOK'
    BY DEF Ground
  <2>2. Untroubled
    BY <2>1, FaultlessBefore
  <2>3. Apart
    BY <2>1, <2>2, FaultlessMeans
  <2>4. QED
    BY <2>1, <2>2, <2>3, LettersStep
<1>3. Account /\ Kept => DeadLettersExact
  <2> SUFFICES ASSUME Ground, Kept, Quiescent, Untroubled, NEW m \in Messages
               PROVE  deadLetters[m] = Cardinality(JobsOf(m)) - SentOnce(m)
    BY DEF DeadLettersExact, Untroubled, SentOnce
  <2>1. BusyWorkers(m) = {} /\ WaitingJobs(m) = {}
    BY DEF Quiescent, BusyWorkers, WaitingJobs
  <2>2. Cardinality(BusyWorkers(m)) = 0 /\ Cardinality(WaitingJobs(m)) = 0
    BY <2>1, FS_EmptySet
  <2>3. deadLetters[m] \in Nat /\ SentOnce(m) \in Nat
    BY DEF Ground, TypeOK, SentOnce
  <2>4. Cardinality(JobsOf(m)) = deadLetters[m] + SentOnce(m)
    BY <2>2, <2>3 DEF Letters, LettersOf
  <2>5. QED
    BY <2>3, <2>4
<1> HIDE DEF Account, Kept
<1>4. Spec => []Account
  BY AlwaysClaimed DEF Account
<1>5. QED
  BY <1>1, <1>2, <1>3, <1>4, PTL DEF Spec
=============================================================================
