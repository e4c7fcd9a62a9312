------------------------------ MODULE SmsSend ------------------------------
(***************************************************************************)
(* POST /sms/send: the checks of the request, then                         *)
(* SmsService.sendSmsRequest with IdempotencyService, run by concurrent    *)
(* requests. The lock and the cache are in Redis, the row with its unique  *)
(* idempotency key in PostgreSQL, the job in BullMQ; every await on one of *)
(* them is one action.                                                     *)
(*                                                                         *)
(* A message is named by the request that inserted it, so a message id and *)
(* a lock token are both members of Requests.                              *)
(***************************************************************************)
EXTENDS ErrorCatalog, FiniteSets

CONSTANTS Requests, Keys, Null,
          KeyOf,          \* the X-Idempotency-Key of each request
          PollAttempts,   \* reads of a request that waits for another one
          \* Bounds of the model, not of the code:
          MaxErrors,      \* calls that fail without effect
          MaxLostAnswers, \* calls that take effect and then throw
          MaxCrashes,     \* requests whose process dies
          MaxExpiries,    \* locks that expire while their holder is alive
          MaxDeletions    \* rows removed behind the service's back

ASSUME KeysAssumption == KeyOf \in [Requests -> Keys] /\ Null \notin Requests
ASSUME PollAssumption == PollAttempts \in Nat \ {0}
ASSUME BoundsAssumption ==
    {MaxErrors, MaxLostAnswers, MaxCrashes, MaxExpiries, MaxDeletions} \subseteq Nat

VARIABLES status, \* the row of each message: its status, or "absent"
          jobs,   \* the messages with a job in queue sms (jobId = messageId)
          cache,  \* sms:idempotency:{key}
          lock,   \* sms:idempotency-lock:{key}: the token of its holder
          req,    \* what each request is doing, and its answer
          worker, \* how far the workers are with each message
          faults, \* how often something went wrong so far
          expired \* history: requests that lost their lock while they held it

vars == <<status, jobs, cache, lock, req, worker, faults, expired>>

RowStatuses == {"absent", "QUEUED", "PROCESSING", "SENT", "FAILED"}

(* The pcs of a request that holds the lock, or believes it does. *)
LockedPcs == {"findAgain", "create", "findExisting", "enqueue", "markFailed",
              "storeHeld", "storeOwn", "release"}
OpenPcs == {"receive", "getCache", "findCached", "dropCache", "findRow", "storeFound",
            "acquireLock", "poll"}
RequestPcs == LockedPcs \cup OpenPcs \cup {"done", "crashed"}

(***************************************************************************)
(* id and seen are the message the request has read and the status it read *)
(* with it; `error' is the exception that waits for the lock's release.    *)
(***************************************************************************)
Errors == {"none", "error", "invalid body", "SMS_IDEMPOTENCY_KEY_REQUIRED",
           "SMS_IDEMPOTENCY_KEY_TOO_LONG", "SMS_MESSAGE_TOO_LONG",
           "SMS_IDEMPOTENCY_CONFLICT", "SMS_QUEUE_PUBLISH_FAILED"}
Request == [pc: RequestPcs, id: Requests \cup {Null}, seen: RowStatuses,
            polls: 0 .. (PollAttempts - 1), error: Errors]
NewRequest == [pc |-> "receive", id |-> Null, seen |-> "absent", polls |-> 0,
               error |-> "none"]

NoFaults == [errors |-> 0, lost |-> 0, crashes |-> 0, expiries |-> 0, deletions |-> 0]

Init ==
    /\ status = [m \in Requests |-> "absent"]
    /\ jobs = {}
    /\ cache = [k \in Keys |-> Null]
    /\ lock = [k \in Keys |-> Null]
    /\ req = [r \in Requests |-> NewRequest]
    /\ worker = [m \in Requests |-> "idle"]
    /\ faults = NoFaults
    /\ expired = {}

-----------------------------------------------------------------------------
(* Helpers. *)

RowsOf(k) == {m \in Requests : KeyOf[m] = k /\ status[m] # "absent"}

Goto(r, pc) == req' = [req EXCEPT ![r].pc = pc]

(* The request has read message m and goes on at pc. *)
Found(r, m, pc) ==
    req' = [req EXCEPT ![r].pc = pc, ![r].id = m, ![r].seen = status[m]]

(* An exception: it ends the request, after the release of a lock it holds. *)
Throw(r, error) ==
    req' = [req EXCEPT ![r].error = error,
                       ![r].pc = IF @ \in LockedPcs THEN "release" ELSE "done"]

LoseAnswer ==
    /\ faults.lost < MaxLostAnswers
    /\ faults' = [faults EXCEPT !.lost = @ + 1]

-----------------------------------------------------------------------------
(***************************************************************************)
(* The header is read before the body is validated, and the service looks  *)
(* at the length of the message before anything else.                      *)
(***************************************************************************)
Headers == {"missing", "blank", "too long", "key"}
Bodies == {"malformed", "too long", "sendable"}
HeaderRefusal(header) ==
    CASE header \in {"missing", "blank"} -> "SMS_IDEMPOTENCY_KEY_REQUIRED"
      [] header = "too long" -> "SMS_IDEMPOTENCY_KEY_TOO_LONG"
      [] OTHER -> "none"
BodyRefusal(body) ==
    CASE body = "malformed" -> "invalid body"
      [] body = "too long" -> "SMS_MESSAGE_TOO_LONG"
      [] OTHER -> "none"
Refusal(header, body) ==
    IF HeaderRefusal(header) # "none" THEN HeaderRefusal(header) ELSE BodyRefusal(body)

Receive(r) ==
    /\ req[r].pc = "receive"
    /\ \E header \in Headers, body \in Bodies :
          LET refusal == Refusal(header, body) IN
          req' = [req EXCEPT ![r].error = refusal,
                             ![r].pc = IF refusal = "none" THEN "getCache" ELSE "done"]
    /\ UNCHANGED <<status, jobs, cache, lock, worker, faults, expired>>

(* findFromIdempotencyCache: GET, findById, and DEL when the row is gone. *)
GetCache(r) ==
    LET m == cache[KeyOf[r]] IN
    /\ req[r].pc = "getCache"
    /\ IF m = Null THEN Goto(r, "findRow")
                   ELSE req' = [req EXCEPT ![r].pc = "findCached", ![r].id = m]
    /\ UNCHANGED <<status, jobs, cache, lock, worker, faults, expired>>

FindCached(r) ==
    LET m == req[r].id IN
    /\ req[r].pc = "findCached"
    /\ IF status[m] # "absent"
          THEN Found(r, m, "done")
          ELSE req' = [req EXCEPT ![r].pc = "dropCache", ![r].id = Null]
    /\ UNCHANGED <<status, jobs, cache, lock, worker, faults, expired>>

DropCache(r) ==
    /\ req[r].pc = "dropCache"
    /\ cache' = [cache EXCEPT ![KeyOf[r]] = Null]
    /\ \/ Goto(r, "findRow") /\ UNCHANGED faults
       \/ Throw(r, "error") /\ LoseAnswer
    /\ UNCHANGED <<status, jobs, lock, worker, expired>>

(* findByIdempotencyKey before the lock is tried. *)
FindRow(r) ==
    /\ req[r].pc = "findRow"
    /\ \/ \E m \in RowsOf(KeyOf[r]) : Found(r, m, "storeFound")
       \/ RowsOf(KeyOf[r]) = {} /\ Goto(r, "acquireLock")
    /\ UNCHANGED <<status, jobs, cache, lock, worker, faults, expired>>

(* storeMessageId; the request then answers, or goes on at pc. *)
StoreId(r, pc) ==
    /\ cache' = [cache EXCEPT ![KeyOf[r]] = req[r].id]
    /\ \/ Goto(r, pc) /\ UNCHANGED faults
       \/ Throw(r, "error") /\ LoseAnswer
    /\ UNCHANGED <<status, jobs, lock, worker, expired>>

StoreFound(r) == req[r].pc = "storeFound" /\ StoreId(r, "done")

(* acquireLock: SET NX. A lost answer leaves the lock to its expiry. *)
AcquireLock(r) ==
    LET k == KeyOf[r] IN
    /\ req[r].pc = "acquireLock"
    /\ \/ /\ lock[k] = Null
          /\ lock' = [lock EXCEPT ![k] = r]
          /\ \/ Goto(r, "findAgain") /\ UNCHANGED faults
             \/ Throw(r, "error") /\ LoseAnswer
       \/ /\ lock[k] # Null
          /\ Goto(r, "poll")
          /\ UNCHANGED <<lock, faults>>
    /\ UNCHANGED <<status, jobs, cache, worker, expired>>

(***************************************************************************)
(* waitForMessageCreatedByConcurrentRequest: one read of its loop, and the *)
(* conflict after the last one.                                            *)
(***************************************************************************)
PollOnceTooOften(r) ==
    /\ req[r].pc = "poll"
    /\ \/ \E m \in RowsOf(KeyOf[r]) : Found(r, m, "storeFound")
       \/ /\ RowsOf(KeyOf[r]) = {}
          /\ IF req[r].polls < PollAttempts
                THEN req' = [req EXCEPT ![r].polls = @ + 1]
                ELSE Throw(r, "SMS_IDEMPOTENCY_CONFLICT")
    /\ UNCHANGED <<status, jobs, cache, lock, worker, faults, expired>>
PollForever(r) ==
    /\ req[r].pc = "poll"
    /\ \/ \E m \in RowsOf(KeyOf[r]) : Found(r, m, "storeFound")
       \/ RowsOf(KeyOf[r]) = {} /\ Goto(r, "poll")
    /\ UNCHANGED <<status, jobs, cache, lock, worker, faults, expired>>
Poll(r) ==
    /\ req[r].pc = "poll"
    /\ \/ \E m \in RowsOf(KeyOf[r]) : Found(r, m, "storeFound")
       \/ /\ RowsOf(KeyOf[r]) = {}
          /\ IF req[r].polls + 1 < PollAttempts
                THEN req' = [req EXCEPT ![r].polls = @ + 1]
                ELSE Throw(r, "SMS_IDEMPOTENCY_CONFLICT")
    /\ UNCHANGED <<status, jobs, cache, lock, worker, faults, expired>>

-----------------------------------------------------------------------------
(* The section behind the lock. *)

FindAgain(r) ==
    /\ req[r].pc = "findAgain"
    /\ \/ \E m \in RowsOf(KeyOf[r]) : Found(r, m, "storeHeld")
       \/ RowsOf(KeyOf[r]) = {} /\ Goto(r, "create")
    /\ UNCHANGED <<status, jobs, cache, lock, worker, faults, expired>>

StoreHeld(r) == req[r].pc = "storeHeld" /\ StoreId(r, "release")

(* createQueuedMessage: the INSERT, refused when the key has a row already. *)
CreateWithoutUniqueKey(r) ==
    /\ req[r].pc = "create"
    /\ status' = [status EXCEPT ![r] = "QUEUED"]
    /\ req' = [req EXCEPT ![r].pc = "enqueue", ![r].id = r, ![r].seen = "QUEUED"]
    /\ UNCHANGED <<jobs, cache, lock, worker, faults, expired>>
Create(r) ==
    /\ req[r].pc = "create"
    /\ \/ /\ RowsOf(KeyOf[r]) = {}
          /\ status' = [status EXCEPT ![r] = "QUEUED"]
          /\ \/ req' = [req EXCEPT ![r].pc = "enqueue", ![r].id = r, ![r].seen = "QUEUED"]
                /\ UNCHANGED faults
             \/ Throw(r, "error") /\ LoseAnswer
       \/ /\ RowsOf(KeyOf[r]) # {}
          /\ Goto(r, "findExisting")
          /\ UNCHANGED <<status, faults>>
    /\ UNCHANGED <<jobs, cache, lock, worker, expired>>

(* findExistingAfterUniqueViolation: the other request's message, if it is *)
(* still there; otherwise the violation is thrown again.                   *)
FindExisting(r) ==
    /\ req[r].pc = "findExisting"
    /\ \/ \E m \in RowsOf(KeyOf[r]) : Found(r, m, "storeHeld")
       \/ RowsOf(KeyOf[r]) = {} /\ Throw(r, "error")
    /\ UNCHANGED <<status, jobs, cache, lock, worker, faults, expired>>

(* enqueueSms. A job that is already there is not added twice. *)
EnqueueOnlyUnderLock(r) ==
    /\ req[r].pc = "enqueue"
    /\ jobs' = IF lock[KeyOf[r]] = r THEN jobs \cup {req[r].id} ELSE jobs
    /\ Goto(r, "storeOwn")
    /\ UNCHANGED <<status, cache, lock, worker, faults, expired>>
Enqueue(r) ==
    /\ req[r].pc = "enqueue"
    /\ jobs' = jobs \cup {req[r].id}
    /\ \/ Goto(r, "storeOwn") /\ UNCHANGED faults
       \/ Goto(r, "markFailed") /\ LoseAnswer
    /\ UNCHANGED <<status, cache, lock, worker, expired>>

(* markQueuePublishFailed, whatever the row is by now; then the 500. *)
MarkFailed(r) ==
    LET m == req[r].id IN
    /\ req[r].pc = "markFailed"
    /\ status' = [status EXCEPT ![m] = IF @ = "absent" THEN @ ELSE "FAILED"]
    /\ \/ Throw(r, "SMS_QUEUE_PUBLISH_FAILED") /\ UNCHANGED faults
       \/ Throw(r, "error") /\ LoseAnswer
    /\ UNCHANGED <<jobs, cache, lock, worker, expired>>

StoreOwn(r) == req[r].pc = "storeOwn" /\ StoreId(r, "release")

(***************************************************************************)
(* releaseLock deletes the lock only while it holds the request's token,   *)
(* and its own failure is only logged.                                     *)
(***************************************************************************)
ReleaseAnyLock(r) ==
    /\ req[r].pc = "release"
    /\ lock' = [lock EXCEPT ![KeyOf[r]] = Null]
    /\ Goto(r, "done")
    /\ UNCHANGED <<status, jobs, cache, faults, worker, expired>>
Release(r) ==
    LET k == KeyOf[r] IN
    /\ req[r].pc = "release"
    /\ lock' = IF lock[k] = r THEN [lock EXCEPT ![k] = Null] ELSE lock
    /\ Goto(r, "done")
    /\ UNCHANGED <<status, jobs, cache, faults, worker, expired>>

(* A call fails without effect. *)
CallThrowsUncompensated(r) ==
    /\ req[r].pc \in (OpenPcs \cup LockedPcs) \ {"receive"}
    /\ faults.errors < MaxErrors
    /\ faults' = [faults EXCEPT !.errors = @ + 1]
    /\ IF req[r].pc = "release" THEN Goto(r, "done") ELSE Throw(r, "SMS_QUEUE_PUBLISH_FAILED")
    /\ UNCHANGED <<status, jobs, cache, lock, worker, expired>>
CallThrowsOverCompensated(r) ==
    /\ req[r].pc \in (OpenPcs \cup LockedPcs) \ {"receive"}
    /\ faults.errors < MaxErrors
    /\ faults' = [faults EXCEPT !.errors = @ + 1]
    /\ CASE req[r].pc \in {"enqueue", "storeOwn"} -> Goto(r, "markFailed")
         [] req[r].pc = "release" -> Goto(r, "done")
         [] OTHER -> Throw(r, "error")
    /\ UNCHANGED <<status, jobs, cache, lock, worker, expired>>
CallThrows(r) ==
    /\ req[r].pc \in (OpenPcs \cup LockedPcs) \ {"receive"}
    /\ faults.errors < MaxErrors
    /\ faults' = [faults EXCEPT !.errors = @ + 1]
    /\ CASE req[r].pc = "enqueue" -> Goto(r, "markFailed")
         [] req[r].pc = "release" -> Goto(r, "done")
         [] OTHER -> Throw(r, "error")
    /\ UNCHANGED <<status, jobs, cache, lock, worker, expired>>

-----------------------------------------------------------------------------
(* The environment of the requests. *)

(* The process that serves the request dies. *)
Crash(r) ==
    /\ req[r].pc \in (OpenPcs \cup LockedPcs) \ {"receive"}
    /\ faults.crashes < MaxCrashes
    /\ faults' = [faults EXCEPT !.crashes = @ + 1]
    /\ Goto(r, "crashed")
    /\ UNCHANGED <<status, jobs, cache, lock, worker, expired>>

(* The lock of a request that is over expires after lockTtlSeconds. *)
LockExpires(k) ==
    /\ lock[k] # Null
    /\ req[lock[k]].pc \in {"done", "crashed"}
    /\ lock' = [lock EXCEPT ![k] = Null]
    /\ UNCHANGED <<status, jobs, cache, req, faults, worker, expired>>

(* The request takes longer than lockTtlSeconds: it holds the lock no more. *)
LockExpiresEarly(k) ==
    /\ lock[k] # Null
    /\ req[lock[k]].pc \in LockedPcs
    /\ faults.expiries < MaxExpiries
    /\ faults' = [faults EXCEPT !.expiries = @ + 1]
    /\ expired' = expired \cup {lock[k]}
    /\ lock' = [lock EXCEPT ![k] = Null]
    /\ UNCHANGED <<status, jobs, cache, req, worker>>

(* The cached id expires after the idempotency TTL. *)
CacheExpires(k) ==
    /\ cache[k] # Null
    /\ cache' = [cache EXCEPT ![k] = Null]
    /\ UNCHANGED <<status, jobs, lock, req, faults, worker, expired>>

(* A row is deleted by hand: the case findFromIdempotencyCache provides for. *)
DeleteRow(m) ==
    /\ status[m] # "absent"
    /\ faults.deletions < MaxDeletions
    /\ faults' = [faults EXCEPT !.deletions = @ + 1]
    /\ status' = [status EXCEPT ![m] = "absent"]
    /\ UNCHANGED <<jobs, cache, lock, req, worker, expired>>

(* A worker claims the queued message of a job and sends it; SmsDispatch    *)
(* has the details. The send is recorded whatever the row is by then.       *)
WorkerClaims(m) ==
    /\ m \in jobs
    /\ worker[m] = "idle"
    /\ status[m] = "QUEUED"
    /\ status' = [status EXCEPT ![m] = "PROCESSING"]
    /\ worker' = [worker EXCEPT ![m] = "sending"]
    /\ UNCHANGED <<jobs, cache, lock, req, faults, expired>>

WorkerSends(m) ==
    /\ worker[m] = "sending"
    /\ worker' = [worker EXCEPT ![m] = "sent"]
    /\ status' = [status EXCEPT ![m] = IF @ = "absent" THEN @ ELSE "SENT"]
    /\ UNCHANGED <<jobs, cache, lock, req, faults, expired>>

-----------------------------------------------------------------------------
CacheStep(r) == Receive(r) \/ GetCache(r) \/ FindCached(r) \/ DropCache(r) \/ StoreFound(r)
WaitStep(r) == FindRow(r) \/ AcquireLock(r) \/ Poll(r)
LockedStep(r) ==
    \/ FindAgain(r) \/ StoreHeld(r) \/ Create(r) \/ FindExisting(r) \/ Enqueue(r)
    \/ MarkFailed(r) \/ StoreOwn(r) \/ Release(r)

RequestStep(r) == CacheStep(r) \/ WaitStep(r) \/ LockedStep(r) \/ CallThrows(r)

Over == \A r \in Requests : req[r].pc \in {"done", "crashed"}

Rest == Over /\ UNCHANGED vars

Next ==
    \/ \E r \in Requests : RequestStep(r) \/ Crash(r)
    \/ \E k \in Keys : LockExpires(k) \/ LockExpiresEarly(k) \/ CacheExpires(k)
    \/ \E m \in Requests : DeleteRow(m) \/ WorkerClaims(m) \/ WorkerSends(m)
    \/ Rest

Spec == Init /\ [][Next]_vars

(* A request that is being served goes on and workers take jobs; nothing is *)
(* obliged to fail.                                                         *)
Fairness ==
    /\ \A r \in Requests : WF_vars(RequestStep(r))
    /\ \A m \in Requests : WF_vars(WorkerClaims(m) \/ WorkerSends(m))

FairSpec == Spec /\ Fairness

-----------------------------------------------------------------------------
(* Properties. *)

(* Every variable keeps its type, and a request that is about to use a message id has one. *)
NamedPcs == {"findCached", "storeFound", "storeHeld", "enqueue", "storeOwn", "markFailed"}
TypeOK ==
    /\ status \in [Requests -> RowStatuses]
    /\ jobs \subseteq Requests
    /\ cache \in [Keys -> Requests \cup {Null}]
    /\ lock \in [Keys -> Requests \cup {Null}]
    /\ req \in [Requests -> Request]
    /\ worker \in [Requests -> {"idle", "sending", "sent"}]
    /\ faults \in [errors: Nat, lost: Nat, crashes: Nat, expiries: Nat, deletions: Nat]
    /\ expired \subseteq Requests
    /\ \A r \in Requests : req[r].pc \in NamedPcs => req[r].id \in Requests

Accepted(r) == req[r].pc = "done" /\ req[r].error = "none"

(***************************************************************************)
(* While no row is deleted, sendSmsRequest implements IdempotentCreate:    *)
(* whatever locks expired, answers were lost and requests died, a key gets *)
(* one message, and each 202 that was ever given for the key names it      *)
(* (README.md, Idempotency).                                               *)
(***************************************************************************)
Chosen == [k \in Keys |-> IF RowsOf(k) = {} THEN Null ELSE CHOOSE m \in RowsOf(k) : TRUE]
Answers == [r \in Requests |-> IF Accepted(r) THEN req[r].id ELSE Null]
Creation == INSTANCE IdempotentCreate WITH chosen <- Chosen, answer <- Answers
CreationImplemented == Creation!Spec

(***************************************************************************)
(* Two requests with one key end up behind the lock together only if one   *)
(* of them outlived its lock: a request never releases the lock of the one *)
(* that came after it (acquireLock, releaseLock).                          *)
(***************************************************************************)
Holders(k) == {r \in Requests : KeyOf[r] = k /\ req[r].pc \in LockedPcs}
SoleHolder == \A k \in Keys : Cardinality(Holders(k) \ expired) <= 1

(***************************************************************************)
(* Once all requests are over, a row is left QUEUED without a job only     *)
(* where a process died, an answer was lost, or both the publication and   *)
(* its compensation failed (README.md, No Transactional Outbox).           *)
(***************************************************************************)
Orphans == {m \in Requests : status[m] = "QUEUED" /\ m \notin jobs}
OrphansArePaidFor ==
    Over => 2 * Cardinality(Orphans)
                <= 2 * (faults.lost + faults.crashes) + faults.errors

(***************************************************************************)
(* A refusal is meant: a 4xx answer leaves no row, no job and no lock of   *)
(* the request behind, and a message whose creator was told that the       *)
(* publication failed is sent only if it did happen and its answer was     *)
(* lost.                                                                   *)
(***************************************************************************)
RefusedIsUnsent ==
    \A r \in Requests :
        /\ req[r].pc = "done" /\ IsClientError(req[r].error)
            => status[r] = "absent" /\ r \notin jobs /\ \A k \in Keys : lock[k] # r
        /\ req[r].error = "SMS_QUEUE_PUBLISH_FAILED" /\ worker[req[r].id] # "idle"
            => faults.lost > 0

(***************************************************************************)
(* Every request is answered, unless its process dies: the wait for a      *)
(* concurrent request gives up, whether or not that one still holds the    *)
(* lock (waitForMessageCreatedByConcurrentRequest). And a cached id whose  *)
(* row is gone is no answer and no error (findFromIdempotencyCache): a 202 *)
(* shows a row that the request has read or inserted, and an unexpected    *)
(* error comes from a call that failed or a lock that was lost.            *)
(***************************************************************************)
Answered(r) ==
    /\ req[r].pc = "done"
    /\ req[r].error = "none" => req[r].seen # "absent"
    /\ req[r].error = "error" => faults.errors + faults.lost + faults.expiries > 0
EveryRequestAnswered == \A r \in Requests : <>(Answered(r) \/ req[r].pc = "crashed")

(***************************************************************************)
(* Unless a call fails, a process dies or a row is deleted, a 202 is kept: *)
(* the message it names is sent, even when locks expire under their        *)
(* holders and the request that answers is not the one that publishes.     *)
(***************************************************************************)
Trouble == faults.errors + faults.lost + faults.crashes + faults.deletions > 0
AcceptedIsSent ==
    \A r, m \in Requests :
        (Accepted(r) /\ req[r].id = m)
            ~> (Trouble \/ (worker[m] = "sent" /\ status[m] = "SENT"))
=============================================================================
