--------------------------- MODULE SmsSend_proofs ---------------------------
(***************************************************************************)
(* Theorems about SmsSend, for any number of requests and keys, any number *)
(* of polls and any number of faults.                                      *)
(***************************************************************************)
EXTENDS SmsSend, FiniteSetTheorems, TLAPS

-----------------------------------------------------------------------------
(* Type correctness. *)

(* What every step asks of the requests of the next state. *)
RequestsTyped ==
    /\ req \in [Requests -> Request]
    /\ \A r \in Requests : req[r].pc \in NamedPcs => req[r].id \in Requests

LEMMA TypeInit == Init => TypeOK
BY KeysAssumption, PollAssumption
   DEF Init, TypeOK, NewRequest, Request, RequestPcs, OpenPcs, LockedPcs, NamedPcs, RowStatuses,
       Errors, NoFaults

(* A request that is sent on to another call keeps its type. *)
LEMMA GotoType ==
    ASSUME RequestsTyped, NEW r \in Requests, NEW pc \in RequestPcs, Goto(r, pc),
           pc \in NamedPcs => req[r].id \in Requests
    PROVE  RequestsTyped'
BY DEF RequestsTyped, Request, Goto

(* So does one that has read a message. *)
LEMMA FoundType ==
    ASSUME TypeOK, RequestsTyped, NEW r \in Requests, NEW m \in Requests, NEW pc \in RequestPcs,
           Found(r, m, pc)
    PROVE  RequestsTyped'
<1>1. status[m] \in RowStatuses /\ req[r] \in Request
  BY DEF TypeOK
<1>2. [req[r] EXCEPT !.pc = pc, !.id = m, !.seen = status[m]] \in Request
  BY <1>1 DEF Request
<1>3. req' = [req EXCEPT ![r] = [req[r] EXCEPT !.pc = pc, !.id = m, !.seen = status[m]]]
  BY DEF Found, RequestsTyped
<1>4. req' \in [Requests -> Request]
  BY <1>2, <1>3 DEF RequestsTyped
<1>5. req'[r].id = m /\ \A s \in Requests \ {r} : req'[s] = req[s]
  BY <1>1, <1>3 DEF RequestsTyped, Request
<1>6. QED
  BY <1>4, <1>5 DEF RequestsTyped

(* And one that throws, which no longer needs its message. *)
LEMMA ThrowType ==
    ASSUME RequestsTyped, NEW r \in Requests, NEW error \in Errors, Throw(r, error)
    PROVE  RequestsTyped'
<1> DEFINE pc == IF req[r].pc \in LockedPcs THEN "release" ELSE "done"
<1>1. pc \in RequestPcs \ NamedPcs
  BY DEF RequestPcs, LockedPcs, NamedPcs
<1>2. req' = [req EXCEPT ![r].error = error, ![r].pc = pc]
  BY DEF Throw, RequestsTyped, Request
<1> HIDE DEF pc
<1>3. QED
  BY <1>1, <1>2 DEF RequestsTyped, Request

LEMMA FaultsType ==
    ASSUME TypeOK, LoseAnswer
    PROVE  faults' \in [errors: Nat, lost: Nat, crashes: Nat, expiries: Nat, deletions: Nat]
BY DEF TypeOK, LoseAnswer

LEMMA Pcs ==
    /\ LockedPcs \subseteq RequestPcs /\ OpenPcs \subseteq RequestPcs
    /\ {"done", "crashed"} \subseteq RequestPcs
BY DEF RequestPcs

(* The rows of a key are messages. *)
LEMMA RowsAreRequests == \A k : RowsOf(k) \subseteq Requests
BY DEF RowsOf

(* storeMessageId, in each of its three places. *)
LEMMA StoreIdType ==
    ASSUME TypeOK, RequestsTyped, NEW r \in Requests, req[r].pc \in NamedPcs,
           NEW pc \in {"done", "release"}, StoreId(r, pc)
    PROVE  TypeOK'
<1>1. req[r].id \in Requests
  BY DEF RequestsTyped
<1>2. cache' \in [Keys -> Requests \cup {Null}]
  BY <1>1 DEF StoreId, TypeOK
<1>3. pc \in RequestPcs /\ pc \notin NamedPcs
  BY DEF RequestPcs, LockedPcs, NamedPcs
<1>4. RequestsTyped'
  BY <1>3, GotoType, ThrowType DEF StoreId, Errors
<1>5. faults' \in [errors: Nat, lost: Nat, crashes: Nat, expiries: Nat, deletions: Nat]
  BY FaultsType DEF StoreId, TypeOK
<1>6. QED
  BY <1>2, <1>4, <1>5 DEF StoreId, TypeOK, RequestsTyped

LEMMA TypeCacheStep ==
    ASSUME TypeOK, RequestsTyped, NEW r \in Requests, CacheStep(r)
    PROVE  TypeOK'
<1>1. CASE Receive(r)
  <2>1. \A h \in Headers, b \in Bodies : Refusal(h, b) \in Errors
    BY DEF Headers, Bodies, Refusal, HeaderRefusal, BodyRefusal, Errors
  <2>2. PICK h \in Headers, b \in Bodies :
          req' = [req EXCEPT ![r].error = Refusal(h, b),
                             ![r].pc = IF Refusal(h, b) = "none" THEN "getCache" ELSE "done"]
    BY <1>1 DEF Receive
  <2>3. {"getCache", "done"} \subseteq RequestPcs \ NamedPcs
    BY DEF RequestPcs, OpenPcs, NamedPcs
  <2>4. RequestsTyped'
    BY <2>1, <2>2, <2>3 DEF RequestsTyped, Request
  <2>5. QED
    BY <1>1, <2>4 DEF Receive, TypeOK, RequestsTyped
<1>2. CASE GetCache(r)
  <2>1. cache[KeyOf[r]] \in Requests \cup {Null}
    BY KeysAssumption DEF TypeOK
  <2>2. {"findCached", "findRow"} \subseteq RequestPcs /\ "findRow" \notin NamedPcs
    BY DEF RequestPcs, OpenPcs, NamedPcs
  <2>3. CASE cache[KeyOf[r]] = Null
    BY <1>2, <2>2, <2>3, GotoType DEF GetCache, TypeOK, RequestsTyped
  <2>4. CASE cache[KeyOf[r]] # Null
    <3>1. req' = [req EXCEPT ![r].pc = "findCached", ![r].id = cache[KeyOf[r]]]
      BY <1>2, <2>4 DEF GetCache
    <3>2. RequestsTyped'
      BY <2>1, <2>2, <2>4, <3>1 DEF RequestsTyped, Request
    <3>3. QED
      BY <1>2, <3>2 DEF GetCache, TypeOK, RequestsTyped
  <2>5. QED
    BY <2>3, <2>4
<1>3. CASE FindCached(r)
  <2>1. req[r].pc \in NamedPcs /\ req[r].id \in Requests
    BY <1>3 DEF FindCached, NamedPcs, RequestsTyped
  <2>2. {"done", "dropCache"} \subseteq RequestPcs \ NamedPcs
    BY DEF RequestPcs, OpenPcs, NamedPcs
  <2>3. ASSUME Found(r, req[r].id, "done")
        PROVE  RequestsTyped'
    BY <2>1, <2>2, <2>3, FoundType
  <2>4. ASSUME req' = [req EXCEPT ![r].pc = "dropCache", ![r].id = Null]
        PROVE  RequestsTyped'
    BY <2>2, <2>4 DEF RequestsTyped, Request
  <2>5. RequestsTyped'
    BY <1>3, <2>3, <2>4 DEF FindCached
  <2>6. QED
    BY <1>3, <2>5 DEF FindCached, TypeOK, RequestsTyped
<1>4. CASE DropCache(r)
  <2>1. "findRow" \in RequestPcs \ NamedPcs /\ "error" \in Errors
    BY DEF RequestPcs, OpenPcs, NamedPcs, Errors
  <2>2. RequestsTyped'
    BY <1>4, <2>1, GotoType, ThrowType DEF DropCache
  <2>3. cache' \in [Keys -> Requests \cup {Null}]
    BY <1>4 DEF DropCache, TypeOK
  <2>4. QED
    BY <1>4, <2>2, <2>3, FaultsType DEF DropCache, TypeOK, RequestsTyped
<1>5. CASE StoreFound(r)
  BY <1>5, StoreIdType DEF StoreFound, NamedPcs
<1>6. QED
  BY <1>1, <1>2, <1>3, <1>4, <1>5 DEF CacheStep

LEMMA TypeWaitStep ==
    ASSUME TypeOK, RequestsTyped, NEW r \in Requests, WaitStep(r)
    PROVE  TypeOK'
<1>p. /\ {"storeFound", "acquireLock", "findAgain", "poll"} \subseteq RequestPcs
      /\ "acquireLock" \notin NamedPcs /\ "findAgain" \notin NamedPcs /\ "poll" \notin NamedPcs
      /\ {"error", "SMS_IDEMPOTENCY_CONFLICT"} \subseteq Errors
  BY DEF RequestPcs, OpenPcs, LockedPcs, NamedPcs, Errors
<1>1. CASE FindRow(r)
  <2>1. RequestsTyped'
    BY <1>1, <1>p, FoundType, GotoType, RowsAreRequests DEF FindRow
  <2>2. QED
    BY <1>1, <2>1 DEF FindRow, TypeOK, RequestsTyped
<1>2. CASE AcquireLock(r)
  <2>1. RequestsTyped'
    BY <1>2, <1>p, GotoType, ThrowType DEF AcquireLock
  <2>2. lock' \in [Keys -> Requests \cup {Null}]
    BY <1>2 DEF AcquireLock, TypeOK
  <2>3. QED
    BY <1>2, <2>1, <2>2, FaultsType DEF AcquireLock, TypeOK, RequestsTyped
<1>3. CASE Poll(r)
  <2>1. ASSUME \E m \in RowsOf(KeyOf[r]) : Found(r, m, "storeFound")
        PROVE  RequestsTyped'
    BY <2>1, <1>p, FoundType, RowsAreRequests
  <2>2. ASSUME req[r].polls + 1 < PollAttempts, req' = [req EXCEPT ![r].polls = @ + 1]
        PROVE  RequestsTyped'
    <3>1. req[r].polls + 1 \in 0 .. (PollAttempts - 1)
      BY <2>2, PollAssumption DEF RequestsTyped, Request
    <3>2. QED
      BY <2>2, <3>1 DEF RequestsTyped, Request
  <2>3. ASSUME Throw(r, "SMS_IDEMPOTENCY_CONFLICT")
        PROVE  RequestsTyped'
    BY <2>3, <1>p, ThrowType
  <2>4. RequestsTyped'
    BY <1>3, <2>1, <2>2, <2>3 DEF Poll
  <2>5. QED
    BY <1>3, <2>4 DEF Poll, TypeOK, RequestsTyped
<1>4. QED
  BY <1>1, <1>2, <1>3 DEF WaitStep

LEMMA TypeLockedStep ==
    ASSUME TypeOK, RequestsTyped, NEW r \in Requests, LockedStep(r)
    PROVE  TypeOK'
<1>p. /\ {"storeHeld", "create", "enqueue", "findExisting", "markFailed", "storeOwn", "release",
          "done"} \subseteq RequestPcs
      /\ "create" \notin NamedPcs /\ "findExisting" \notin NamedPcs /\ "done" \notin NamedPcs
      /\ {"error", "SMS_QUEUE_PUBLISH_FAILED"} \subseteq Errors
  BY DEF RequestPcs, LockedPcs, NamedPcs, Errors
<1>1. CASE FindAgain(r)
  <2>1. RequestsTyped'
    BY <1>1, <1>p, FoundType, GotoType, RowsAreRequests DEF FindAgain
  <2>2. QED
    BY <1>1, <2>1 DEF FindAgain, TypeOK, RequestsTyped
<1>2. CASE StoreHeld(r) \/ StoreOwn(r)
  BY <1>2, StoreIdType DEF StoreHeld, StoreOwn, NamedPcs
<1>3. CASE Create(r)
  <2>1. ASSUME req' = [req EXCEPT ![r].pc = "enqueue", ![r].id = r, ![r].seen = "QUEUED"]
        PROVE  RequestsTyped'
    BY <2>1, <1>p DEF RequestsTyped, Request, RowStatuses
  <2>2. RequestsTyped'
    BY <1>3, <2>1, <1>p, GotoType, ThrowType DEF Create
  <2>3. status' \in [Requests -> RowStatuses]
    BY <1>3 DEF Create, TypeOK, RowStatuses
  <2>4. QED
    BY <1>3, <2>2, <2>3, FaultsType DEF Create, TypeOK, RequestsTyped
<1>4. CASE FindExisting(r)
  <2>1. RequestsTyped'
    BY <1>4, <1>p, FoundType, ThrowType, RowsAreRequests DEF FindExisting
  <2>2. QED
    BY <1>4, <2>1 DEF FindExisting, TypeOK, RequestsTyped
<1>5. CASE Enqueue(r)
  <2>1. req[r].id \in Requests
    BY <1>5 DEF Enqueue, RequestsTyped, NamedPcs
  <2>2. RequestsTyped'
    BY <1>5, <2>1, <1>p, GotoType DEF Enqueue
  <2>3. QED
    BY <1>5, <2>1, <2>2, FaultsType DEF Enqueue, TypeOK, RequestsTyped
<1>6. CASE MarkFailed(r)
  <2>1. RequestsTyped'
    BY <1>6, <1>p, ThrowType DEF MarkFailed
  <2>2. status' \in [Requests -> RowStatuses]
    BY <1>6 DEF MarkFailed, TypeOK, RowStatuses
  <2>3. QED
    BY <1>6, <2>1, <2>2, FaultsType DEF MarkFailed, TypeOK, RequestsTyped
<1>7. CASE Release(r)
  <2>1. RequestsTyped'
    BY <1>7, <1>p, GotoType DEF Release
  <2>2. lock' \in [Keys -> Requests \cup {Null}]
    BY <1>7 DEF Release, TypeOK
  <2>3. QED
    BY <1>7, <2>1, <2>2 DEF Release, TypeOK, RequestsTyped
<1>8. QED
  BY <1>1, <1>2, <1>3, <1>4, <1>5, <1>6, <1>7 DEF LockedStep

LEMMA TypeCallThrows ==
    ASSUME TypeOK, RequestsTyped, NEW r \in Requests, CallThrows(r)
    PROVE  TypeOK'
<1>p. /\ {"markFailed", "done"} \subseteq RequestPcs /\ "done" \notin NamedPcs
      /\ "error" \in Errors
  BY DEF RequestPcs, LockedPcs, NamedPcs, Errors
<1>1. CASE req[r].pc = "enqueue"
  <2>1. req[r].id \in Requests /\ Goto(r, "markFailed")
    BY <1>1 DEF CallThrows, RequestsTyped, NamedPcs
  <2>2. QED
    BY <2>1, <1>p, GotoType
       DEF CallThrows, TypeOK, RequestsTyped
<1>2. CASE req[r].pc = "release"
  <2>1. Goto(r, "done")
    BY <1>2 DEF CallThrows
  <2>2. QED
    BY <2>1, <1>p, GotoType DEF CallThrows, TypeOK, RequestsTyped
<1>3. CASE req[r].pc \notin {"enqueue", "release"}
  <2>1. Throw(r, "error")
    BY <1>3 DEF CallThrows
  <2>2. QED
    BY <2>1, <1>p, ThrowType DEF CallThrows, TypeOK, RequestsTyped
<1>4. QED
  BY <1>1, <1>2, <1>3

(* Crashes, expiries, deleted rows and the workers. *)
LEMMA TypeEnvironment ==
    ASSUME TypeOK, RequestsTyped,
           \/ \E r \in Requests : Crash(r)
           \/ \E k \in Keys : LockExpires(k) \/ LockExpiresEarly(k) \/ CacheExpires(k)
           \/ \E m \in Requests : DeleteRow(m) \/ WorkerClaims(m) \/ WorkerSends(m)
    PROVE  TypeOK'
<1>1. ASSUME NEW r \in Requests, Crash(r)
      PROVE  TypeOK'
  <2>1. "crashed" \in RequestPcs \ NamedPcs
    BY DEF RequestPcs, NamedPcs
  <2>2. QED
    BY <1>1, <2>1, GotoType DEF Crash, TypeOK, RequestsTyped
<1>2. ASSUME NEW k \in Keys, LockExpires(k) \/ LockExpiresEarly(k) \/ CacheExpires(k)
      PROVE  TypeOK'
  BY <1>2 DEF LockExpires, LockExpiresEarly, CacheExpires, TypeOK
<1>3. ASSUME NEW m \in Requests, DeleteRow(m) \/ WorkerClaims(m) \/ WorkerSends(m)
      PROVE  TypeOK'
  BY <1>3 DEF DeleteRow, WorkerClaims, WorkerSends, TypeOK, RowStatuses
<1>4. QED
  BY <1>1, <1>2, <1>3

LEMMA TypeStep == TypeOK /\ [Next]_vars => TypeOK'
<1> SUFFICES ASSUME TypeOK, [Next]_vars
             PROVE  TypeOK'
  OBVIOUS
<1>1. RequestsTyped
  BY DEF TypeOK, RequestsTyped
<1>2. CASE \E r \in Requests : RequestStep(r)
  BY <1>1, <1>2, TypeCacheStep, TypeWaitStep, TypeLockedStep, TypeCallThrows DEF RequestStep
<1>3. CASE Rest \/ UNCHANGED vars
  BY <1>3 DEF Rest, vars, TypeOK
<1>4. QED
  BY <1>1, <1>2, <1>3, TypeEnvironment DEF Next

(***************************************************************************)
(* Every variable keeps its type, and a request never stores, publishes or *)
(* marks a message it does not know.                                       *)
(***************************************************************************)
THEOREM TypeCorrect == Spec => []TypeOK
BY TypeInit, TypeStep, PTL DEF Spec

-----------------------------------------------------------------------------
(* A step of a request leaves the other requests alone, and one that is over stays over. *)
LEMMA OneRequest ==
    ASSUME TypeOK, NEW r \in Requests, RequestStep(r) \/ Crash(r)
    PROVE  /\ req[r].pc \notin {"done", "crashed"}
           /\ \A s \in Requests : s # r => req'[s] = req[s]
           /\ DOMAIN req' = Requests
           /\ expired' = expired
<1>1. CASE CacheStep(r)
  BY <1>1 DEF CacheStep, Receive, GetCache, FindCached, DropCache, StoreFound, StoreId,
              Goto, Found, Throw, TypeOK
<1>2. CASE WaitStep(r)
  BY <1>2 DEF WaitStep, FindRow, AcquireLock, Poll, Goto, Found, Throw, TypeOK
<1>3. CASE LockedStep(r)
  BY <1>3 DEF LockedStep, FindAgain, StoreHeld, Create, FindExisting, Enqueue, MarkFailed,
              StoreOwn, Release, StoreId, Goto, Found, Throw, TypeOK
<1>4. CASE CallThrows(r) \/ Crash(r)
  BY <1>4 DEF CallThrows, Crash, Goto, Throw, TypeOK, OpenPcs, LockedPcs
<1>5. QED
  BY <1>1, <1>2, <1>3, <1>4 DEF RequestStep

-----------------------------------------------------------------------------
(* The lock. *)

(* A request behind the lock holds it, until it has outlived it. *)
HoldersHaveLock ==
    \A r \in Requests : req[r].pc \in LockedPcs /\ r \notin expired => lock[KeyOf[r]] = r

(* AcquireLock is the only way to get behind the lock. *)
LEMMA OnlyWayIn ==
    ASSUME TypeOK, NEW r \in Requests, RequestStep(r) \/ Crash(r), req'[r].pc \in LockedPcs
    PROVE  req[r].pc \in LockedPcs \/ AcquireLock(r)
<1>1. CASE CacheStep(r)
  <2>1. CASE Receive(r)
    BY <2>1 DEF Receive, TypeOK, LockedPcs, Request
  <2>2. CASE GetCache(r)
    BY <2>2 DEF GetCache, Goto, TypeOK, LockedPcs, Request
  <2>3. CASE FindCached(r)
    BY <2>3 DEF FindCached, Found, TypeOK, LockedPcs, Request
  <2>4. CASE DropCache(r) \/ StoreFound(r)
    BY <2>4 DEF DropCache, StoreFound, StoreId, Goto, Throw, TypeOK, LockedPcs, Request
  <2>5. QED
    BY <1>1, <2>1, <2>2, <2>3, <2>4 DEF CacheStep
<1>2. CASE WaitStep(r)
  <2>t. req[r] \in Request
    BY DEF TypeOK
  <2>f. ASSUME NEW m, Found(r, m, "storeFound")
        PROVE  req'[r].pc = "storeFound"
    BY <2>f, <2>t DEF Found, TypeOK, Request
  <2>1. CASE FindRow(r)
    <3>1. req'[r].pc \in {"storeFound", "acquireLock"}
      BY <2>1, <2>f, <2>t DEF FindRow, Goto, TypeOK, Request
    <3>2. QED
      BY <3>1 DEF LockedPcs
  <2>2. CASE Poll(r)
    <3>1. req'[r].pc \in {"storeFound", "poll", "done"}
      BY <2>2, <2>f, <2>t DEF Poll, Throw, TypeOK, Request, LockedPcs
    <3>2. QED
      BY <3>1 DEF LockedPcs
  <2>3. QED
    BY <1>2, <2>1, <2>2 DEF WaitStep
<1>3. CASE LockedStep(r)
  BY <1>3 DEF LockedStep, FindAgain, StoreHeld, Create, FindExisting, Enqueue, MarkFailed,
              StoreOwn, Release, LockedPcs
<1>4. CASE CallThrows(r)
  BY <1>4 DEF CallThrows, Goto, Throw, TypeOK, LockedPcs, Request
<1>5. CASE Crash(r)
  BY <1>5 DEF Crash, Goto, TypeOK, LockedPcs, Request
<1>6. QED
  BY <1>1, <1>2, <1>3, <1>4, <1>5 DEF RequestStep

LEMMA HolderStep == TypeOK /\ HoldersHaveLock /\ [Next]_vars => HoldersHaveLock'
<1> SUFFICES ASSUME TypeOK, HoldersHaveLock, [Next]_vars,
                    NEW s \in Requests, req'[s].pc \in LockedPcs, s \notin expired'
             PROVE  lock'[KeyOf[s]] = s
  BY DEF HoldersHaveLock
<1>k. KeyOf[s] \in Keys /\ s # Null
  BY KeysAssumption
<1>1. ASSUME NEW r \in Requests, RequestStep(r) \/ Crash(r)
      PROVE  lock'[KeyOf[s]] = s
  <2>k. KeyOf[r] \in Keys /\ r # Null /\ s \notin expired
    BY <1>1, OneRequest, KeysAssumption
  <2>1. CASE AcquireLock(r)
    <3>1. CASE s = r
      <4>1. lock[KeyOf[r]] = Null /\ lock' = [lock EXCEPT ![KeyOf[r]] = r]
        BY <2>1, <3>1 DEF AcquireLock, Goto, Throw, TypeOK, Request, LockedPcs
      <4>2. QED
        BY <3>1, <4>1, <2>k DEF TypeOK
    <3>2. CASE s # r
      BY <1>1, <2>1, <3>2, <1>k, <2>k, OneRequest DEF AcquireLock, HoldersHaveLock, TypeOK
    <3>3. QED
      BY <3>1, <3>2
  <2>2. CASE ~AcquireLock(r)
    <3>1. req[s].pc \in LockedPcs
      BY <1>1, <2>2, OneRequest, OnlyWayIn
    <3>2. lock[KeyOf[s]] = s
      BY <2>k, <3>1 DEF HoldersHaveLock
    <3>3. CASE Release(r)
      <4>1. s # r
        BY <3>3 DEF Release, Goto, TypeOK, Request, LockedPcs
      <4>2. QED
        BY <3>2, <3>3, <4>1, <1>k, <2>k DEF Release, TypeOK
    <3>4. CASE ~Release(r)
      BY <1>1, <2>2, <3>2, <3>4
         DEF RequestStep, CacheStep, WaitStep, LockedStep, Receive, GetCache, FindCached,
             DropCache, StoreFound, StoreId, FindRow, Poll, FindAgain, StoreHeld, Create,
             FindExisting, Enqueue, MarkFailed, StoreOwn, CallThrows, Crash
    <3>5. QED
      BY <3>3, <3>4
  <2>3. QED
    BY <2>1, <2>2
<1>2. ASSUME NEW k \in Keys, LockExpires(k)
      PROVE  lock'[KeyOf[s]] = s
  <2>1. lock[KeyOf[s]] = s /\ req[s].pc \in LockedPcs
    BY <1>2 DEF LockExpires, HoldersHaveLock
  <2>2. k # KeyOf[s]
    BY <1>2, <2>1 DEF LockExpires, LockedPcs
  <2>3. QED
    BY <1>2, <2>1, <2>2, <1>k DEF LockExpires, TypeOK
<1>3. ASSUME NEW k \in Keys, LockExpiresEarly(k)
      PROVE  lock'[KeyOf[s]] = s
  <2>1. lock[KeyOf[s]] = s /\ lock[k] # s
    BY <1>3 DEF LockExpiresEarly, HoldersHaveLock
  <2>2. QED
    BY <1>3, <2>1, <1>k DEF LockExpiresEarly, TypeOK
<1>4. CASE \/ \E k \in Keys : CacheExpires(k)
           \/ \E m \in Requests : DeleteRow(m) \/ WorkerClaims(m) \/ WorkerSends(m)
           \/ Rest \/ UNCHANGED vars
  BY <1>4 DEF CacheExpires, DeleteRow, WorkerClaims, WorkerSends, Rest, vars, HoldersHaveLock
<1>5. QED
  BY <1>1, <1>2, <1>3, <1>4 DEF Next

(***************************************************************************)
(* Two requests with one key are behind the lock together only after one   *)
(* of them outlived its lock: acquireLock takes a free lock only, and      *)
(* releaseLock deletes no lock but the request's own.                      *)
(***************************************************************************)
THEOREM HolderIsAlone == Spec => []SoleHolder
<1>1. Init => HoldersHaveLock
  BY DEF Init, HoldersHaveLock, NewRequest, LockedPcs
<1>2. HoldersHaveLock => SoleHolder
  <2> SUFFICES ASSUME HoldersHaveLock, NEW k \in Keys
               PROVE  Cardinality(Holders(k) \ expired) <= 1
    BY DEF SoleHolder
  <2>1. Holders(k) \ expired \in SUBSET {lock[k]}
    BY DEF Holders, HoldersHaveLock
  <2>2. IsFiniteSet({lock[k]}) /\ Cardinality({lock[k]}) = 1
    BY FS_Singleton
  <2>3. Cardinality(Holders(k) \ expired) <= Cardinality({lock[k]})
    BY <2>1, <2>2, FS_Subset
  <2>4. QED
    BY <2>2, <2>3
<1>3. QED
  BY <1>1, <1>2, HolderStep, TypeCorrect, PTL DEF Spec

-----------------------------------------------------------------------------
(* One key, one message, one answer. *)

(* A request that knows its message, and has nothing else to say. *)
HasMessage(r) ==
    req[r].pc \in NamedPcs \/ (req[r].pc \in {"release", "done"} /\ req[r].error = "none")

(***************************************************************************)
(* A key has one row at most, and whoever knows a message for a key, the   *)
(* cache or a request, knows that row. Rows stay while none is deleted.    *)
(***************************************************************************)
CreationInductive ==
    /\ \A a, b \in Requests :
        status[a] # "absent" /\ status[b] # "absent" /\ KeyOf[a] = KeyOf[b] => a = b
    /\ \A k \in Keys : cache[k] # Null => cache[k] \in RowsOf(k)
    /\ \A r \in Requests : HasMessage(r) => req[r].id \in RowsOf(KeyOf[r])

(* Only the INSERT changes which rows there are, and only for a key without one. *)
SameRows == \A m \in Requests : status'[m] # "absent" <=> status[m] # "absent"
NewRow(r) ==
    /\ Create(r) /\ RowsOf(KeyOf[r]) = {}
    /\ \A m \in Requests : status'[m] # "absent" <=> m = r \/ status[m] # "absent"

LEMMA RowsChange ==
    ASSUME TypeOK, MaxDeletions = 0, [Next]_vars
    PROVE  SameRows \/ \E r \in Requests : NewRow(r)
<1>1. ASSUME NEW r \in Requests, Create(r)
      PROVE  SameRows \/ NewRow(r)
  BY <1>1 DEF Create, SameRows, NewRow, TypeOK
<1>2. ASSUME NEW r \in Requests, MarkFailed(r)
      PROVE  SameRows
  BY <1>2 DEF MarkFailed, SameRows, TypeOK
<1>3. ASSUME NEW r \in Requests, RequestStep(r) \/ Crash(r), ~Create(r), ~MarkFailed(r)
      PROVE  SameRows
  BY <1>3 DEF RequestStep, CacheStep, WaitStep, LockedStep, Receive, GetCache, FindCached,
              DropCache, StoreFound, StoreId, FindRow, AcquireLock, Poll, FindAgain, StoreHeld,
              FindExisting, Enqueue, StoreOwn, Release, CallThrows, Crash, SameRows
<1>4. ASSUME NEW m \in Requests, DeleteRow(m)
      PROVE  FALSE
  BY <1>4 DEF DeleteRow, TypeOK
<1>5. ASSUME NEW m \in Requests, WorkerClaims(m) \/ WorkerSends(m)
      PROVE  SameRows
  BY <1>5 DEF WorkerClaims, WorkerSends, SameRows, TypeOK
<1>6. CASE \/ \E k \in Keys : LockExpires(k) \/ LockExpiresEarly(k) \/ CacheExpires(k)
           \/ Rest \/ UNCHANGED vars
  BY <1>6 DEF LockExpires, LockExpiresEarly, CacheExpires, Rest, vars, SameRows
<1>7. QED
  BY <1>1, <1>2, <1>3, <1>4, <1>5, <1>6 DEF Next

LEMMA RowsGrow ==
    ASSUME TypeOK, MaxDeletions = 0, [Next]_vars
    PROVE  \A k : RowsOf(k) \subseteq RowsOf(k)'
BY RowsChange DEF RowsOf, SameRows, NewRow

(* A request that throws no longer has a message to answer with. *)
LEMMA ThrowForgets ==
    ASSUME TypeOK, NEW r \in Requests, NEW error, error # "none", Throw(r, error)
    PROVE  ~HasMessage(r)'
<1>1. req'[r].error = error /\ req'[r].pc \in {"release", "done"}
  BY DEF Throw, TypeOK, Request
<1>2. QED
  BY <1>1 DEF HasMessage, NamedPcs

LEMMA GotoKeeps ==
    ASSUME TypeOK, NEW r \in Requests, NEW pc, Goto(r, pc)
    PROVE  req'[r].pc = pc /\ req'[r].id = req[r].id /\ req'[r].error = req[r].error
BY DEF Goto, TypeOK, Request

LEMMA FoundKnows ==
    ASSUME TypeOK, NEW r \in Requests, NEW m, NEW pc, Found(r, m, pc)
    PROVE  req'[r].pc = pc /\ req'[r].id = m
BY DEF Found, TypeOK, Request

LEMMA MessageKnown ==
    ASSUME TypeOK, CreationInductive, MaxDeletions = 0, NEW r \in Requests,
           RequestStep(r) \/ Crash(r), HasMessage(r)'
    PROVE  req'[r].id \in RowsOf(KeyOf[r])'
<1>g. RowsOf(KeyOf[r]) \subseteq RowsOf(KeyOf[r])'
  BY RowsGrow DEF Next
<1>k. KeyOf[r] \in Keys
  BY KeysAssumption
<1>f. ASSUME NEW m \in RowsOf(KeyOf[r]), NEW pc, Found(r, m, pc)
      PROVE  req'[r].id \in RowsOf(KeyOf[r])'
  BY <1>f, <1>g, FoundKnows
<1>s. ASSUME HasMessage(r), req'[r].id = req[r].id
      PROVE  req'[r].id \in RowsOf(KeyOf[r])'
  BY <1>s, <1>g DEF CreationInductive
<1>t. ASSUME NEW error, error # "none", Throw(r, error)
      PROVE  FALSE
  BY <1>t, ThrowForgets
<1>1. CASE Receive(r)
  <2>1. req'[r].pc = "getCache" \/ (req'[r].pc = "done" /\ req'[r].error # "none")
    BY <1>1 DEF Receive, TypeOK, Request
  <2>2. QED
    BY <2>1 DEF HasMessage, NamedPcs
<1>2. CASE GetCache(r)
  <2>1. CASE cache[KeyOf[r]] = Null
    BY <1>2, <2>1, GotoKeeps DEF GetCache, HasMessage, NamedPcs
  <2>2. CASE cache[KeyOf[r]] # Null
    <3>1. req'[r].id = cache[KeyOf[r]]
      BY <1>2, <2>2 DEF GetCache, TypeOK, Request
    <3>2. QED
      BY <2>2, <3>1, <1>g, <1>k DEF CreationInductive
  <2>3. QED
    BY <2>1, <2>2
<1>3. CASE FindCached(r)
  <2>1. req[r].id \in RowsOf(KeyOf[r])
    BY <1>3 DEF FindCached, CreationInductive, HasMessage, NamedPcs
  <2>2. status[req[r].id] # "absent"
    BY <2>1 DEF RowsOf
  <2>3. QED
    BY <1>3, <1>f, <2>1, <2>2 DEF FindCached
<1>4. CASE DropCache(r)
  BY <1>4, <1>t, GotoKeeps DEF DropCache, HasMessage, NamedPcs
<1>5. CASE StoreFound(r) \/ StoreHeld(r) \/ StoreOwn(r)
  <2>1. HasMessage(r)
    BY <1>5 DEF StoreFound, StoreHeld, StoreOwn, HasMessage, NamedPcs
  <2>2. QED
    BY <1>5, <1>s, <1>t, <2>1, GotoKeeps DEF StoreFound, StoreHeld, StoreOwn, StoreId
<1>6. CASE FindRow(r) \/ Poll(r) \/ FindAgain(r) \/ FindExisting(r)
  <2>1. CASE \E m \in RowsOf(KeyOf[r]), pc \in {"storeFound", "storeHeld"} : Found(r, m, pc)
    BY <2>1, <1>f
  <2>2. CASE \E pc \in {"acquireLock", "create"} : Goto(r, pc)
    BY <2>2, GotoKeeps DEF HasMessage, NamedPcs
  <2>3. CASE \E error \in {"SMS_IDEMPOTENCY_CONFLICT", "error"} : Throw(r, error)
    BY <2>3, <1>t
  <2>4. CASE req[r].pc = "poll" /\ req' = [req EXCEPT ![r].polls = @ + 1]
    BY <2>4 DEF TypeOK, Request, HasMessage, NamedPcs
  <2>5. QED
    BY <1>6, <2>1, <2>2, <2>3, <2>4 DEF FindRow, Poll, FindAgain, FindExisting
<1>7. CASE AcquireLock(r)
  BY <1>7, <1>t, GotoKeeps DEF AcquireLock, HasMessage, NamedPcs
<1>8. CASE Create(r)
  <2>1. CASE Goto(r, "findExisting")
    BY <2>1, GotoKeeps DEF HasMessage, NamedPcs
  <2>2. CASE /\ status' = [status EXCEPT ![r] = "QUEUED"]
             /\ req' = [req EXCEPT ![r].pc = "enqueue", ![r].id = r, ![r].seen = "QUEUED"]
    BY <2>2 DEF TypeOK, Request, RowsOf
  <2>3. QED
    BY <1>8, <1>t, <2>1, <2>2 DEF Create
<1>9. CASE Enqueue(r)
  <2>1. HasMessage(r)
    BY <1>9 DEF Enqueue, HasMessage, NamedPcs
  <2>2. QED
    BY <1>9, <1>s, <2>1, GotoKeeps DEF Enqueue
<1>10. CASE MarkFailed(r)
  BY <1>10, <1>t DEF MarkFailed
<1>11. CASE Release(r)
  <2>1. req[r].error = "none" /\ HasMessage(r) /\ req'[r].id = req[r].id
    BY <1>11, GotoKeeps DEF Release, HasMessage, NamedPcs
  <2>2. QED
    BY <1>s, <2>1
<1>12. CASE CallThrows(r)
  <2>1. CASE req[r].pc = "enqueue"
    BY <1>12, <1>s, <2>1, GotoKeeps DEF CallThrows, HasMessage, NamedPcs
  <2>2. CASE req[r].pc = "release"
    BY <1>12, <1>s, <2>2, GotoKeeps DEF CallThrows, HasMessage, NamedPcs
  <2>3. CASE req[r].pc \notin {"enqueue", "release"}
    BY <1>12, <1>t, <2>3 DEF CallThrows
  <2>4. QED
    BY <2>1, <2>2, <2>3
<1>13. CASE Crash(r)
  BY <1>13, GotoKeeps DEF Crash, HasMessage, NamedPcs
<1>14. QED
  BY <1>1, <1>2, <1>3, <1>4, <1>5, <1>6, <1>7, <1>8, <1>9, <1>10, <1>11, <1>12, <1>13
     DEF RequestStep, CacheStep, WaitStep, LockedStep

LEMMA CreationStep ==
    ASSUME TypeOK, CreationInductive, MaxDeletions = 0, [Next]_vars
    PROVE  CreationInductive'
<1>1. ASSUME NEW a \in Requests, NEW b \in Requests,
             status'[a] # "absent", status'[b] # "absent", KeyOf[a] = KeyOf[b]
      PROVE  a = b
  <2>1. CASE SameRows
    BY <1>1, <2>1 DEF SameRows, CreationInductive
  <2>2. CASE \E r \in Requests : NewRow(r)
    BY <1>1, <2>2 DEF NewRow, RowsOf, CreationInductive
  <2>3. QED
    BY <2>1, <2>2, RowsChange
<1>2. ASSUME NEW k \in Keys, cache'[k] # Null
      PROVE  cache'[k] \in RowsOf(k)'
  <2>1. CASE cache'[k] = cache[k]
    BY <1>2, <2>1, RowsGrow DEF CreationInductive
  <2>2. ASSUME NEW r \in Requests, StoreFound(r) \/ StoreHeld(r) \/ StoreOwn(r)
        PROVE  cache'[k] = cache[k] \/ (k = KeyOf[r] /\ cache'[k] \in RowsOf(k))
    <3>1. req[r].id \in RowsOf(KeyOf[r])
      BY <2>2 DEF StoreFound, StoreHeld, StoreOwn, CreationInductive, HasMessage, NamedPcs
    <3>2. cache' = [cache EXCEPT ![KeyOf[r]] = req[r].id]
      BY <2>2 DEF StoreFound, StoreHeld, StoreOwn, StoreId
    <3>3. QED
      BY <3>1, <3>2 DEF TypeOK
  <2>3. ASSUME NEW r \in Requests, DropCache(r)
        PROVE  cache'[k] = cache[k]
    BY <1>2, <2>3 DEF DropCache, TypeOK
  <2>4. ASSUME NEW r \in Requests, RequestStep(r) \/ Crash(r), ~DropCache(r),
               ~StoreFound(r), ~StoreHeld(r), ~StoreOwn(r)
        PROVE  cache' = cache
    BY <2>4 DEF RequestStep, CacheStep, WaitStep, LockedStep, Receive, GetCache, FindCached,
                FindRow, AcquireLock, Poll, FindAgain, Create, FindExisting, Enqueue,
                MarkFailed, Release, CallThrows, Crash
  <2>5. ASSUME NEW j \in Keys, CacheExpires(j)
        PROVE  cache'[k] = cache[k]
    BY <1>2, <2>5 DEF CacheExpires, TypeOK
  <2>6. ASSUME \/ \E j \in Keys : LockExpires(j) \/ LockExpiresEarly(j)
               \/ \E m \in Requests : DeleteRow(m) \/ WorkerClaims(m) \/ WorkerSends(m)
               \/ Rest \/ UNCHANGED vars
        PROVE  cache' = cache
    BY <2>6 DEF LockExpires, LockExpiresEarly, DeleteRow, WorkerClaims, WorkerSends, Rest, vars
  <2>7. QED
    BY <2>1, <2>2, <2>3, <2>4, <2>5, <2>6, RowsGrow DEF Next
<1>3. ASSUME NEW s \in Requests, HasMessage(s)'
      PROVE  req'[s].id \in RowsOf(KeyOf[s])'
  <2>1. CASE req'[s] = req[s]
    BY <1>3, <2>1, RowsGrow DEF CreationInductive, HasMessage
  <2>2. ASSUME NEW r \in Requests, RequestStep(r) \/ Crash(r)
        PROVE  req'[s].id \in RowsOf(KeyOf[s])'
    BY <1>3, <2>1, <2>2, OneRequest, MessageKnown
  <2>3. ASSUME \/ \E k \in Keys : LockExpires(k) \/ LockExpiresEarly(k) \/ CacheExpires(k)
               \/ \E m \in Requests : DeleteRow(m) \/ WorkerClaims(m) \/ WorkerSends(m)
               \/ Rest \/ UNCHANGED vars
        PROVE  req' = req
    BY <2>3 DEF LockExpires, LockExpiresEarly, CacheExpires, DeleteRow, WorkerClaims,
                WorkerSends, Rest, vars
  <2>4. QED
    BY <2>1, <2>2, <2>3 DEF Next
<1>4. QED
  BY <1>1, <1>2, <1>3 DEF CreationInductive

(* The message of a key is its row. *)
LEMMA ChosenIsTheRow ==
    ASSUME CreationInductive, NEW k \in Keys, NEW m \in RowsOf(k)
    PROVE  Chosen[k] = m
<1>1. \A n \in RowsOf(k) : n = m
  BY DEF RowsOf, CreationInductive
<1>2. (CHOOSE n \in RowsOf(k) : TRUE) \in RowsOf(k)
  OBVIOUS
<1>3. Chosen[k] = CHOOSE n \in RowsOf(k) : TRUE
  BY DEF Chosen
<1>4. QED
  BY <1>1, <1>2, <1>3

LEMMA ChosenStays ==
    ASSUME CreationInductive, CreationInductive', NEW k \in Keys, RowsOf(k)' = RowsOf(k)
    PROVE  Chosen'[k] = Chosen[k]
<1>1. CASE RowsOf(k) = {}
  BY <1>1 DEF Chosen
<1>2. ASSUME NEW m \in RowsOf(k)
      PROVE  Chosen'[k] = Chosen[k]
  <2>1. Chosen[k] = m
    BY ChosenIsTheRow
  <2>2. \A n \in RowsOf(k)' : n = m
    BY <1>2 DEF RowsOf, CreationInductive
  <2>3. (CHOOSE n \in RowsOf(k)' : TRUE) \in RowsOf(k)'
    BY <1>2
  <2>4. Chosen'[k] = CHOOSE n \in RowsOf(k)' : TRUE
    BY <1>2 DEF Chosen
  <2>5. QED
    BY <2>1, <2>2, <2>3, <2>4
<1>3. QED
  BY <1>1, <1>2

(* A step without a new row changes no answer that was given. *)
LEMMA AnswerStep ==
    ASSUME TypeOK, CreationInductive, CreationInductive', MaxDeletions = 0, SameRows,
           NEW r \in Requests, RequestStep(r) \/ Crash(r)
    PROVE  Answers' = Answers \/ Creation!Answer(r)
<1>k. KeyOf[r] \in Keys
  BY KeysAssumption
<1>1. ASSUME NEW k \in Keys
      PROVE  Chosen'[k] = Chosen[k]
  <2>1. RowsOf(k)' = RowsOf(k)
    BY DEF SameRows, RowsOf
  <2>2. QED
    BY <2>1, ChosenStays
<1>2. Chosen' = Chosen
  BY <1>1 DEF Chosen
<1>3. /\ req[r].pc \notin {"done", "crashed"}
      /\ \A s \in Requests : s # r => req'[s] = req[s]
  BY OneRequest
<1>4. Answers[r] = Null /\ \A s \in Requests : s # r => Answers'[s] = Answers[s]
  BY <1>3 DEF Answers, Accepted
<1>5. CASE Accepted(r)'
  <2>1. req'[r].id \in RowsOf(KeyOf[r])
    BY <1>5 DEF CreationInductive, HasMessage, Accepted, RowsOf, SameRows
  <2>2. Chosen[KeyOf[r]] = req'[r].id /\ req'[r].id # Null
    BY <2>1, <1>k, ChosenIsTheRow, KeysAssumption DEF RowsOf
  <2>3. Answers' = [Answers EXCEPT ![r] = Chosen[KeyOf[r]]]
    BY <1>4, <1>5, <2>2 DEF Answers
  <2>4. QED
    BY <1>2, <1>4, <2>2, <2>3 DEF Creation!Answer
<1>6. CASE ~Accepted(r)'
  <2>1. Answers'[r] = Null
    BY <1>6 DEF Answers
  <2>2. QED
    BY <1>4, <2>1 DEF Answers
<1>7. QED
  BY <1>5, <1>6

(* The INSERT chooses the message of a key and answers nobody. *)
LEMMA ChooseStep ==
    ASSUME TypeOK, CreationInductive, CreationInductive', NEW r \in Requests, NewRow(r)
    PROVE  Creation!Choose(r)
<1>k. KeyOf[r] \in Keys
  BY KeysAssumption
<1>1. Chosen[KeyOf[r]] = Null
  BY <1>k DEF NewRow, Chosen
<1>2. RowsOf(KeyOf[r])' = {r}
  BY DEF NewRow, RowsOf
<1>3. Chosen'[KeyOf[r]] = r
  <2>1. (CHOOSE m \in RowsOf(KeyOf[r])' : TRUE) \in RowsOf(KeyOf[r])'
    BY <1>2
  <2>2. Chosen'[KeyOf[r]] = CHOOSE m \in RowsOf(KeyOf[r])' : TRUE
    BY <1>2, <1>k DEF Chosen
  <2>3. QED
    BY <1>2, <2>1, <2>2
<1>4. ASSUME NEW k \in Keys, k # KeyOf[r]
      PROVE  Chosen'[k] = Chosen[k]
  <2>1. RowsOf(k)' = RowsOf(k)
    BY <1>4 DEF NewRow, RowsOf
  <2>2. QED
    BY <2>1, ChosenStays
<1>5. Chosen' = [Chosen EXCEPT ![KeyOf[r]] = r]
  BY <1>3, <1>4 DEF Chosen
<1>6. Answers' = Answers
  <2>1. req[r].pc = "create" /\ \A s \in Requests : s # r => req'[s] = req[s]
    BY OneRequest DEF NewRow, Create, RequestStep, LockedStep
  <2>2. req'[r].pc \in {"enqueue", "findExisting", "release"}
    BY <2>1 DEF NewRow, Create, Goto, Throw, TypeOK, Request, LockedPcs
  <2>3. QED
    BY <2>1, <2>2 DEF Answers, Accepted
<1>7. QED
  BY <1>1, <1>5, <1>6 DEF Creation!Choose

(***************************************************************************)
(* While no row is deleted, sendSmsRequest gives each key one message for  *)
(* good and answers every accepted request with it, whatever locks expire, *)
(* calls fail, answers are lost and requests die.                          *)
(***************************************************************************)
THEOREM CreationRefined == ASSUME MaxDeletions = 0 PROVE Spec => CreationImplemented
<1>1. Init => CreationInductive
  BY DEF Init, CreationInductive, NewRequest, HasMessage, NamedPcs
<1>2. Init => Creation!Init
  BY DEF Init, Creation!Init, Chosen, Answers, Accepted, RowsOf, NewRequest
<1>3. ASSUME TypeOK, CreationInductive, CreationInductive', [Next]_vars
      PROVE  [Creation!Next]_<<Chosen, Answers>>
  <2>1. ASSUME NEW r \in Requests, NewRow(r)
        PROVE  Creation!Next
    BY <1>3, <2>1, ChooseStep DEF Creation!Next
  <2>2. ASSUME SameRows
        PROVE  Chosen' = Chosen
    <3>1. \A k \in Keys : RowsOf(k)' = RowsOf(k)
      BY <2>2 DEF SameRows, RowsOf
    <3>2. \A k \in Keys : Chosen'[k] = Chosen[k]
      BY <1>3, <3>1, ChosenStays
    <3>3. QED
      BY <3>2 DEF Chosen
  <2>3. ASSUME SameRows, NEW r \in Requests, RequestStep(r) \/ Crash(r)
        PROVE  [Creation!Next]_<<Chosen, Answers>>
    BY <1>3, <2>2, <2>3, AnswerStep DEF Creation!Next
  <2>4. ASSUME SameRows,
               \/ \E k \in Keys : LockExpires(k) \/ LockExpiresEarly(k) \/ CacheExpires(k)
               \/ \E m \in Requests : DeleteRow(m) \/ WorkerClaims(m) \/ WorkerSends(m)
               \/ Rest \/ UNCHANGED vars
        PROVE  UNCHANGED <<Chosen, Answers>>
    <3>1. req' = req
      BY <2>4 DEF LockExpires, LockExpiresEarly, CacheExpires, DeleteRow, WorkerClaims,
                  WorkerSends, Rest, vars
    <3>2. QED
      BY <2>2, <2>4, <3>1 DEF Answers, Accepted
  <2>5. QED
    BY <1>3, <2>1, <2>3, <2>4, RowsChange DEF Next
<1>4. TypeOK /\ CreationInductive /\ [Next]_vars => CreationInductive'
  BY CreationStep
<1>5. QED
  BY <1>1, <1>2, <1>3, <1>4, TypeCorrect, PTL DEF Spec, CreationImplemented, Creation!Spec

-----------------------------------------------------------------------------
(* Refusals. *)

(* The errors of a request that sendSmsRequest answers with a 4xx. *)
Refusals == {"invalid body", "SMS_IDEMPOTENCY_KEY_REQUIRED", "SMS_IDEMPOTENCY_KEY_TOO_LONG",
             "SMS_MESSAGE_TOO_LONG", "SMS_IDEMPOTENCY_CONFLICT"}

LEMMA ClientErrorsAreRefusals ==
    ASSUME NEW error \in Errors, IsClientError(error)
    PROVE  error \in Refusals
<1>1. AnswerTo("none") = 500 /\ AnswerTo("error") = 500
  BY DEF AnswerTo, ErrorCode, BadRequest, Forbidden, NotFound, Conflict, Internal
<1>2. AnswerTo("SMS_QUEUE_PUBLISH_FAILED") = 500
  BY DEF AnswerTo, HttpStatus, ErrorCode, BadRequest, Forbidden, NotFound, Conflict, Internal
<1>3. error \notin {"none", "error", "SMS_QUEUE_PUBLISH_FAILED"}
  BY <1>1, <1>2 DEF IsClientError
<1>4. QED
  BY <1>3 DEF Errors, Refusals

(* Nothing was done for a request. *)
Untouched(r) == status[r] = "absent" /\ r \notin jobs /\ \A k \in Keys : lock[k] # r

(***************************************************************************)
(* A request leaves no trace before it is behind the lock, and a 4xx comes *)
(* from there. One whose publication fails marks its own message, and a    *)
(* job can only be there if an answer was lost.                            *)
(***************************************************************************)
RefusalInductive(r) ==
    /\ req[r].pc \in OpenPcs \/ req[r].error \in Refusals => Untouched(r)
    /\ req[r].error # "none" => req[r].pc \in {"release", "done", "crashed"}
    /\ req[r].pc \in {"findAgain", "create", "enqueue"} => r \notin jobs
    /\ req[r].pc \in {"enqueue", "markFailed"} \/ req[r].error = "SMS_QUEUE_PUBLISH_FAILED"
        => req[r].id = r
    /\ req[r].pc = "markFailed" \/ req[r].error = "SMS_QUEUE_PUBLISH_FAILED"
        => r \notin jobs \/ faults.lost > 0
    /\ worker[r] # "idle" => r \in jobs

RefusalInvariant == \A r \in Requests : RefusalInductive(r)

(* What the others do to a request and its message. *)
KeptOut(r) ==
    /\ req'[r] = req[r]
    /\ status[r] = "absent" => status'[r] = "absent"
    /\ r \in jobs' => r \in jobs
    /\ r \in jobs => r \in jobs'
    /\ \A k \in Keys : lock'[k] = r => lock[k] = r
    /\ worker'[r] # "idle" => worker[r] # "idle" \/ r \in jobs
    /\ faults.lost > 0 => faults'.lost > 0

LEMMA OthersKeepOut ==
    ASSUME TypeOK, RefusalInvariant, NEW s \in Requests, NEW r \in Requests, r # s,
           RequestStep(r) \/ Crash(r)
    PROVE  KeptOut(s)
<1>q. req'[s] = req[s]
  BY OneRequest
<1>s. status[s] = "absent" => status'[s] = "absent"
  <2>1. CASE Create(r) \/ MarkFailed(r)
    BY <2>1 DEF Create, MarkFailed, TypeOK
  <2>2. CASE ~(Create(r) \/ MarkFailed(r))
    BY <2>2 DEF RequestStep, CacheStep, WaitStep, LockedStep, Receive, GetCache, FindCached,
         DropCache, StoreFound, StoreId, FindRow, AcquireLock, Poll, FindAgain, StoreHeld,
         FindExisting, Enqueue, StoreOwn, Release, CallThrows, Crash
  <2>3. QED
    BY <2>1, <2>2
<1>j. (s \in jobs' => s \in jobs) /\ (s \in jobs => s \in jobs')
  <2>1. CASE Enqueue(r)
    BY <2>1 DEF Enqueue, RefusalInvariant, RefusalInductive
  <2>2. CASE ~Enqueue(r)
    BY <2>2 DEF RequestStep, CacheStep, WaitStep, LockedStep, Receive, GetCache, FindCached,
         DropCache, StoreFound, StoreId, FindRow, AcquireLock, Poll, FindAgain, StoreHeld,
         Create, FindExisting, MarkFailed, StoreOwn, Release, CallThrows, Crash
  <2>3. QED
    BY <2>1, <2>2
<1>l. \A k \in Keys : lock'[k] = s => lock[k] = s
  <2>1. CASE AcquireLock(r) \/ Release(r)
    BY <2>1, KeysAssumption DEF AcquireLock, Release, TypeOK
  <2>2. CASE ~(AcquireLock(r) \/ Release(r))
    BY <2>2 DEF RequestStep, CacheStep, WaitStep, LockedStep, Receive, GetCache, FindCached,
         DropCache, StoreFound, StoreId, FindRow, Poll, FindAgain, StoreHeld,
         Create, FindExisting, Enqueue, MarkFailed, StoreOwn, CallThrows, Crash
  <2>3. QED
    BY <2>1, <2>2
<1>w. worker' = worker
  BY DEF RequestStep, CacheStep, WaitStep, LockedStep, Receive, GetCache, FindCached,
         DropCache, StoreFound, StoreId, FindRow, AcquireLock, Poll, FindAgain, StoreHeld,
         Create, FindExisting, Enqueue, MarkFailed, StoreOwn, Release, CallThrows, Crash
<1>f. \/ faults' = faults \/ LoseAnswer
      \/ faults' = [faults EXCEPT !.errors = @ + 1]
      \/ faults' = [faults EXCEPT !.crashes = @ + 1]
  BY DEF RequestStep, CacheStep, WaitStep, LockedStep, Receive, GetCache, FindCached,
         DropCache, StoreFound, StoreId, FindRow, AcquireLock, Poll, FindAgain, StoreHeld,
         Create, FindExisting, Enqueue, MarkFailed, StoreOwn, Release, CallThrows, Crash
<1>g. faults.lost > 0 => faults'.lost > 0
  BY <1>f DEF LoseAnswer, TypeOK
<1>h. QED
  BY <1>q, <1>s, <1>j, <1>l, <1>w, <1>g DEF KeptOut

LEMMA EnvironmentKeepsOut ==
    ASSUME TypeOK, NEW s \in Requests,
           \/ \E k \in Keys : LockExpires(k) \/ LockExpiresEarly(k) \/ CacheExpires(k)
           \/ \E m \in Requests : DeleteRow(m) \/ WorkerClaims(m) \/ WorkerSends(m)
           \/ Rest \/ UNCHANGED vars
    PROVE  KeptOut(s)
<1>1. ASSUME NEW k \in Keys, LockExpires(k) \/ LockExpiresEarly(k) \/ CacheExpires(k)
      PROVE  KeptOut(s)
  BY <1>1, KeysAssumption DEF LockExpires, LockExpiresEarly, CacheExpires, KeptOut, TypeOK
<1>2. ASSUME NEW m \in Requests, DeleteRow(m) \/ WorkerClaims(m) \/ WorkerSends(m)
      PROVE  KeptOut(s)
  BY <1>2 DEF DeleteRow, WorkerClaims, WorkerSends, KeptOut, TypeOK
<1>3. CASE Rest \/ UNCHANGED vars
  BY <1>3 DEF Rest, vars, KeptOut
<1>4. QED
  BY <1>1, <1>2, <1>3

LEMMA KeptOutIsEnough ==
    ASSUME NEW s \in Requests, RefusalInductive(s), KeptOut(s)
    PROVE  RefusalInductive(s)'
BY DEF RefusalInductive, KeptOut, Untouched

(* What a step of the request itself may do to its message. *)
LEMMA RefusalOwnStep ==
    ASSUME TypeOK, NEW r \in Requests, RefusalInductive(r), RequestStep(r) \/ Crash(r)
    PROVE  RefusalInductive(r)'
<1>o. /\ "receive" \notin LockedPcs /\ {"release", "done", "crashed"} \cap OpenPcs = {}
      /\ OpenPcs \cap {"findAgain", "create", "enqueue", "markFailed", "findExisting",
                       "storeHeld", "storeOwn"} = {}
      /\ OpenPcs \cap LockedPcs = {}
  BY DEF OpenPcs, LockedPcs
<1>q. req[r] \in Request /\ req \in [Requests -> Request]
  BY DEF TypeOK
(* Nothing but the request itself changes. *)
<1>k. ASSUME UNCHANGED <<status, jobs, lock, worker>>, faults.lost > 0 => faults'.lost > 0
      PROVE  /\ Untouched(r) => Untouched(r)'
             /\ (r \notin jobs \/ faults.lost > 0) => (r \notin jobs \/ faults.lost > 0)'
             /\ (worker[r] # "idle" => r \in jobs)'
  BY <1>k DEF Untouched, RefusalInductive
<1>l. LoseAnswer => faults'.lost > 0
  BY DEF LoseAnswer, TypeOK
<1>1. CASE CacheStep(r) \/ FindRow(r) \/ Poll(r)
  <2>1. UNCHANGED <<status, jobs, lock, worker>> /\ (faults.lost > 0 => faults'.lost > 0)
    BY <1>1, <1>l DEF CacheStep, Receive, GetCache, FindCached, DropCache, StoreFound, StoreId,
                      FindRow, Poll
  <2>2. req[r].pc \in OpenPcs /\ req[r].error = "none"
    <3>1. req[r].pc \in OpenPcs
      BY <1>1 DEF CacheStep, Receive, GetCache, FindCached, DropCache, StoreFound,
                  FindRow, Poll, OpenPcs
    <3>2. QED
      BY <3>1, <1>o DEF RefusalInductive
  <2>3. \/ req'[r].pc \in OpenPcs /\ req'[r].error = "none"
        \/ req'[r].pc = "done" /\ req'[r].error # "SMS_QUEUE_PUBLISH_FAILED"
    <3>1. CASE Receive(r)
      <4>1. \A h \in Headers, b \in Bodies : Refusal(h, b) # "SMS_QUEUE_PUBLISH_FAILED"
        BY DEF Headers, Bodies, Refusal, HeaderRefusal, BodyRefusal
      <4>2. QED
        BY <3>1, <4>1, <1>q DEF Receive, Request, OpenPcs
    <3>2. CASE GetCache(r) \/ FindCached(r)
      BY <3>2, <1>q, <2>2 DEF GetCache, FindCached, Goto, Found, Request, OpenPcs
    <3>3. CASE DropCache(r) \/ StoreFound(r)
      BY <3>3, <1>q, <2>2 DEF DropCache, StoreFound, StoreId, Goto, Throw, Request, OpenPcs,
         LockedPcs
    <3>4. CASE FindRow(r) \/ Poll(r)
      <4>1. CASE \E m \in RowsOf(KeyOf[r]) : Found(r, m, "storeFound")
        BY <4>1, <1>q, <2>2 DEF Found, Request, OpenPcs
      <4>2. CASE Goto(r, "acquireLock") \/ req' = [req EXCEPT ![r].polls = @ + 1]
        BY <4>2, <1>q, <2>2 DEF Goto, Request, OpenPcs
      <4>3. CASE Throw(r, "SMS_IDEMPOTENCY_CONFLICT")
        BY <4>3, <1>q, <1>o, <2>2 DEF Throw, Request
      <4>4. QED
        BY <3>4, <4>1, <4>2, <4>3 DEF FindRow, Poll
    <3>5. QED
      BY <1>1, <3>1, <3>2, <3>3, <3>4 DEF CacheStep
  <2>4. Untouched(r)'
    BY <1>k, <2>1, <2>2 DEF RefusalInductive
  <2>5. QED
    BY <1>k, <1>o, <2>1, <2>3, <2>4 DEF RefusalInductive, Untouched, Refusals
<1>2. CASE AcquireLock(r)
  <2>1. req[r].pc \in OpenPcs /\ req[r].error = "none" /\ Untouched(r)
    BY <1>2, <1>o DEF AcquireLock, RefusalInductive, OpenPcs
  <2>2. \/ req'[r].pc = "findAgain" /\ req'[r].error = "none"
        \/ req'[r].pc = "done" /\ req'[r].error = "error"
        \/ req'[r].pc = "poll" /\ req'[r].error = "none" /\ lock' = lock
    BY <1>2, <1>q, <2>1 DEF AcquireLock, Goto, Throw, Request, LockedPcs
  <2>3. UNCHANGED <<status, jobs, worker>>
    BY <1>2 DEF AcquireLock
  <2>4. QED
    BY <1>o, <2>1, <2>2, <2>3 DEF RefusalInductive, Untouched, Refusals, OpenPcs
<1>3. CASE FindAgain(r) \/ FindExisting(r) \/ StoreHeld(r) \/ StoreOwn(r)
  <2>1. UNCHANGED <<status, jobs, lock, worker>> /\ (faults.lost > 0 => faults'.lost > 0)
    BY <1>3, <1>l DEF FindAgain, FindExisting, StoreHeld, StoreOwn, StoreId
  <2>2. req[r].pc \in {"findAgain", "findExisting", "storeHeld", "storeOwn"}
        /\ req[r].error = "none"
    BY <1>3 DEF FindAgain, FindExisting, StoreHeld, StoreOwn, RefusalInductive
  <2>3. \/ req'[r].pc = "create" /\ req'[r].error = "none" /\ req[r].pc = "findAgain"
        \/ req'[r].pc \in {"storeHeld", "release"} /\ req'[r].error \in {"none", "error"}
            /\ (req'[r].error = "error" => req'[r].pc = "release")
    <3>1. CASE \E m \in RowsOf(KeyOf[r]) : Found(r, m, "storeHeld")
      BY <3>1, <1>q, <2>2 DEF Found, Request
    <3>2. CASE req[r].pc = "findAgain" /\ Goto(r, "create")
      BY <3>2, <1>q, <2>2 DEF Goto, Request
    <3>3. CASE Goto(r, "release")
      BY <3>3, <1>q, <2>2 DEF Goto, Request
    <3>4. CASE Throw(r, "error")
      BY <3>4, <1>q, <2>2 DEF Throw, Request, LockedPcs
    <3>5. QED
      BY <1>3, <3>1, <3>2, <3>3, <3>4 DEF FindAgain, FindExisting, StoreHeld, StoreOwn, StoreId
  <2>4. QED
    BY <1>k, <1>o, <2>1, <2>2, <2>3 DEF RefusalInductive, Refusals, OpenPcs
<1>4. CASE Create(r)
  <2>1. UNCHANGED <<jobs, lock, worker>>
    BY <1>4 DEF Create
  <2>2. req[r].pc = "create" /\ req[r].error = "none"
    BY <1>4 DEF Create, RefusalInductive
  <2>3. \/ req'[r].pc = "enqueue" /\ req'[r].error = "none" /\ req'[r].id = r
        \/ req'[r].pc = "release" /\ req'[r].error = "error"
        \/ req'[r].pc = "findExisting" /\ req'[r].error = "none"
    BY <1>4, <1>q, <2>2 DEF Create, Goto, Throw, Request, LockedPcs
  <2>4. QED
    BY <2>1, <2>2, <2>3 DEF RefusalInductive, Refusals, OpenPcs
<1>5. CASE Enqueue(r)
  <2>1. UNCHANGED <<status, lock, worker>> /\ jobs \subseteq jobs'
    BY <1>5 DEF Enqueue
  <2>2. req[r].pc = "enqueue" /\ req[r].error = "none" /\ req[r].id = r
    BY <1>5 DEF Enqueue, RefusalInductive
  <2>3. /\ req'[r].error = "none" /\ req'[r].id = r
        /\ req'[r].pc = "storeOwn" \/ (req'[r].pc = "markFailed" /\ faults'.lost > 0)
    BY <1>5, <1>q, <1>l, <2>2 DEF Enqueue, Goto, Request
  <2>4. QED
    BY <2>1, <2>2, <2>3 DEF RefusalInductive, Refusals, OpenPcs
<1>6. CASE MarkFailed(r)
  <2>1. UNCHANGED <<jobs, lock, worker>> /\ (faults.lost > 0 => faults'.lost > 0)
    BY <1>6, <1>l DEF MarkFailed
  <2>2. req[r].pc = "markFailed" /\ req[r].id = r /\ (r \notin jobs \/ faults.lost > 0)
    BY <1>6 DEF MarkFailed, RefusalInductive
  <2>3. /\ req'[r].pc = "release" /\ req'[r].id = r
        /\ req'[r].error \in {"error", "SMS_QUEUE_PUBLISH_FAILED"}
    BY <1>6, <1>q, <2>2 DEF MarkFailed, Throw, Request, LockedPcs
  <2>4. QED
    BY <2>1, <2>2, <2>3 DEF RefusalInductive, Refusals, OpenPcs
<1>7. CASE Release(r)
  <2>1. UNCHANGED <<status, jobs, faults, worker>> /\ \A k \in Keys : lock'[k] = r => lock[k] = r
    BY <1>7, KeysAssumption DEF Release, TypeOK
  <2>2. req[r].pc = "release" /\ req' = [req EXCEPT ![r].pc = "done"]
    BY <1>7 DEF Release, Goto
  <2>3. req'[r].pc = "done" /\ req'[r].error = req[r].error /\ req'[r].id = req[r].id
    BY <1>q, <2>2 DEF Request
  <2>4. QED
    BY <2>1, <2>2, <2>3, <1>o DEF RefusalInductive, Untouched
<1>8. CASE CallThrows(r) \/ Crash(r)
  <2>1. UNCHANGED <<status, jobs, lock, worker>> /\ (faults.lost > 0 => faults'.lost > 0)
    BY <1>8 DEF CallThrows, Crash, TypeOK
  <2>2. CASE req[r].pc = "enqueue" /\ Goto(r, "markFailed")
    <3>1. /\ req'[r].pc = "markFailed" /\ req'[r].error = req[r].error /\ req'[r].id = req[r].id
      BY <1>q, <2>2 DEF Goto, Request
    <3>2. QED
      BY <1>k, <2>1, <2>2, <3>1 DEF RefusalInductive, Refusals, OpenPcs
  <2>3. CASE \E pc \in {"done", "crashed"} : Goto(r, pc)
    <3>1. /\ req'[r].pc \in {"done", "crashed"} /\ req'[r].error = req[r].error
          /\ req'[r].id = req[r].id
      BY <1>q, <2>3 DEF Goto, Request
    <3>2. QED
      BY <1>k, <2>1, <3>1 DEF RefusalInductive, OpenPcs
  <2>4. CASE Throw(r, "error")
    <3>1. req'[r].pc \in {"release", "done"} /\ req'[r].error = "error"
      BY <1>q, <2>4 DEF Throw, Request
    <3>2. QED
      BY <1>k, <2>1, <3>1 DEF RefusalInductive, Refusals, OpenPcs
  <2>5. QED
    BY <1>8, <2>2, <2>3, <2>4 DEF CallThrows, Crash
<1>9. QED
  BY <1>1, <1>2, <1>3, <1>4, <1>5, <1>6, <1>7, <1>8 DEF RequestStep, WaitStep, LockedStep

LEMMA RefusalsKept == Spec => []RefusalInvariant
<1>1. Init => RefusalInvariant
  <2> SUFFICES ASSUME Init, NEW r \in Requests
               PROVE  RefusalInductive(r)
    BY DEF RefusalInvariant
  <2>1. req[r] = NewRequest /\ worker[r] = "idle"
    BY DEF Init
  <2>2. Untouched(r)
    BY KeysAssumption DEF Init, Untouched
  <2>3. QED
    BY <2>1, <2>2 DEF RefusalInductive, NewRequest, Refusals
<1>2. TypeOK /\ RefusalInvariant /\ [Next]_vars => RefusalInvariant'
  <2> SUFFICES ASSUME TypeOK, RefusalInvariant, [Next]_vars, NEW s \in Requests
               PROVE  RefusalInductive(s)'
    BY DEF RefusalInvariant
  <2>1. RefusalInductive(s)
    BY DEF RefusalInvariant
  <2>2. CASE RequestStep(s) \/ Crash(s)
    BY <2>1, <2>2, RefusalOwnStep
  <2>3. ASSUME NEW r \in Requests, r # s, RequestStep(r) \/ Crash(r)
        PROVE  RefusalInductive(s)'
    BY <2>1, <2>3, OthersKeepOut, KeptOutIsEnough
  <2>4. CASE \/ \E k \in Keys : LockExpires(k) \/ LockExpiresEarly(k) \/ CacheExpires(k)
             \/ \E m \in Requests : DeleteRow(m) \/ WorkerClaims(m) \/ WorkerSends(m)
             \/ Rest \/ UNCHANGED vars
    BY <2>1, <2>4, EnvironmentKeepsOut, KeptOutIsEnough
  <2>5. QED
    BY <2>2, <2>3, <2>4 DEF Next
<1>3. QED
  BY <1>1, <1>2, TypeCorrect, PTL DEF Spec

(***************************************************************************)
(* A 4xx answer means that nothing was left behind, and a 500 that says    *)
(* the publication failed is followed by a send only if it did happen and  *)
(* its answer was lost.                                                    *)
(***************************************************************************)
THEOREM RefusalsAreMeant == Spec => []RefusedIsUnsent
<1>1. TypeOK /\ RefusalInvariant => RefusedIsUnsent
  <2> SUFFICES ASSUME TypeOK, RefusalInvariant, NEW r \in Requests
               PROVE  /\ req[r].pc = "done" /\ IsClientError(req[r].error)
                          => status[r] = "absent" /\ r \notin jobs /\ \A k \in Keys : lock[k] # r
                      /\ req[r].error = "SMS_QUEUE_PUBLISH_FAILED" /\ worker[req[r].id] # "idle"
                          => faults.lost > 0
    BY DEF RefusedIsUnsent
  <2>1. RefusalInductive(r) /\ req[r].error \in Errors
    BY DEF RefusalInvariant, TypeOK, Request
  <2>2. IsClientError(req[r].error) => Untouched(r)
    BY <2>1, ClientErrorsAreRefusals DEF RefusalInductive
  <2>3. QED
    BY <2>1, <2>2 DEF RefusalInductive, Untouched
<1>2. QED
  BY <1>1, RefusalsKept, TypeCorrect, PTL

-----------------------------------------------------------------------------
(***************************************************************************)
(* Orphans. A queued row without a job is its creator's to publish, until  *)
(* the publication fails; then its creator's to mark, until that fails     *)
(* too. Each of the two failures is one error, and a crash or a lost       *)
(* answer is counted as both.                                              *)
(***************************************************************************)
Unpublished == {m \in Orphans : req[m].pc # "enqueue"}
Abandoned == {m \in Orphans : req[m].pc \notin {"enqueue", "markFailed"}}
Bill == 2 * (faults.lost + faults.crashes) + faults.errors
OrphansInductive ==
    /\ IsFiniteSet(Unpublished) /\ IsFiniteSet(Abandoned)
    /\ Cardinality(Unpublished) + Cardinality(Abandoned) <= Bill

LEMMA BillType == TypeOK => Bill \in Nat
<1> SUFFICES ASSUME TypeOK PROVE Bill \in Nat
  OBVIOUS
<1>1. faults.lost \in Nat /\ faults.crashes \in Nat /\ faults.errors \in Nat
  BY DEF TypeOK
<1>2. QED
  BY <1>1 DEF Bill

(* A set that grows by no more than one request. *)
LEMMA GrowsByOne ==
    ASSUME NEW S, NEW T, NEW r, IsFiniteSet(S), T \subseteq S \cup {r}
    PROVE  /\ IsFiniteSet(T) /\ Cardinality(T) \in Nat /\ Cardinality(S) \in Nat
           /\ Cardinality(T) <= Cardinality(S) + 1
           /\ (r \in T => r \in S) => Cardinality(T) <= Cardinality(S)
<1>1. Cardinality(S) \in Nat
  BY FS_CardinalityType
<1>2. IsFiniteSet(S \cup {r}) /\ Cardinality(S \cup {r}) <= Cardinality(S) + 1
      /\ Cardinality(S \cup {r}) \in Nat
  <2>1. /\ IsFiniteSet(S \cup {r})
        /\ Cardinality(S \cup {r}) = Cardinality(S) \/ Cardinality(S \cup {r}) = Cardinality(S) + 1
    BY FS_AddElement
  <2>2. QED
    BY <1>1, <2>1
<1>3. IsFiniteSet(T) /\ Cardinality(T) <= Cardinality(S \cup {r}) /\ Cardinality(T) \in Nat
  BY <1>2, FS_Subset, FS_CardinalityType
<1>4. ASSUME r \in T => r \in S
      PROVE  Cardinality(T) <= Cardinality(S)
  <2>1. T \subseteq S
    BY <1>4
  <2>2. QED
    BY <2>1, FS_Subset
<1>5. QED
  BY <1>1, <1>2, <1>3, <1>4

(* Nobody else makes a row QUEUED or takes its job away. *)
LEMMA OthersMakeNoOrphan ==
    ASSUME TypeOK, RefusalInvariant, NEW s \in Requests, NEW r \in Requests, r # s,
           RequestStep(r) \/ Crash(r)
    PROVE  (s \in Orphans' => s \in Orphans) /\ req'[s] = req[s]
<1>1. status'[s] = status[s]
  <2>1. CASE Create(r)
    BY <2>1 DEF Create, TypeOK
  <2>2. CASE MarkFailed(r)
    <3>1. req[r].id = r
      BY <2>2 DEF MarkFailed, RefusalInvariant, RefusalInductive
    <3>2. QED
      BY <2>2, <3>1 DEF MarkFailed, TypeOK
  <2>3. CASE ~(Create(r) \/ MarkFailed(r))
    BY <2>3 DEF RequestStep, CacheStep, WaitStep, LockedStep, Receive, GetCache, FindCached,
         DropCache, StoreFound, StoreId, FindRow, AcquireLock, Poll, FindAgain, StoreHeld,
         FindExisting, Enqueue, StoreOwn, Release, CallThrows, Crash
  <2>4. QED
    BY <2>1, <2>2, <2>3
<1>2. s \in jobs => s \in jobs'
  BY OthersKeepOut DEF KeptOut
<1>3. QED
  BY <1>1, <1>2, OneRequest DEF Orphans

(* What a request does to its own message, and who pays. *)
LEMMA OwnOrphan ==
    ASSUME TypeOK, RefusalInvariant, NEW r \in Requests, RequestStep(r) \/ Crash(r)
    PROVE  \/ /\ Bill' >= Bill
              /\ r \in Unpublished' => r \in Unpublished
              /\ r \in Abandoned' => r \in Abandoned
           \/ /\ Bill' >= Bill + 1
              /\ \/ r \in Unpublished' => r \in Unpublished
                 \/ r \in Abandoned' => r \in Abandoned
           \/ Bill' >= Bill + 2
<1>q. req[r] \in Request /\ req \in [Requests -> Request] /\ status \in [Requests -> RowStatuses]
  BY DEF TypeOK
<1>f. /\ faults.lost \in Nat /\ faults.crashes \in Nat /\ faults.errors \in Nat
      /\ faults \in [errors: Nat, lost: Nat, crashes: Nat, expiries: Nat, deletions: Nat]
  BY DEF TypeOK
<1>l. ASSUME LoseAnswer
      PROVE  Bill' >= Bill + 2
  <2>1. /\ faults'.lost = faults.lost + 1 /\ faults'.crashes = faults.crashes
        /\ faults'.errors = faults.errors
    BY <1>l, <1>f DEF LoseAnswer
  <2>2. QED
    BY <1>f, <2>1 DEF Bill
<1>u. ASSUME faults' = faults
      PROVE  Bill' >= Bill
  BY <1>u, BillType DEF Bill
<1>1. CASE CacheStep(r) \/ WaitStep(r)
  <2>1. UNCHANGED <<status, jobs>> /\ (faults' = faults \/ LoseAnswer)
    BY <1>1 DEF CacheStep, Receive, GetCache, FindCached, DropCache, StoreFound, StoreId,
                WaitStep, FindRow, AcquireLock, Poll
  <2>2. req[r].pc \notin {"enqueue", "markFailed"}
    BY <1>1 DEF CacheStep, Receive, GetCache, FindCached, DropCache, StoreFound, StoreId,
                WaitStep, FindRow, AcquireLock, Poll
  <2>3. QED
    BY <1>l, <1>u, <2>1, <2>2 DEF Orphans, Unpublished, Abandoned
<1>2. CASE \/ FindAgain(r) \/ FindExisting(r) \/ StoreHeld(r) \/ StoreOwn(r) \/ Release(r)
  <2>1. UNCHANGED <<status, jobs>> /\ (faults' = faults \/ LoseAnswer)
    BY <1>2 DEF FindAgain, FindExisting, StoreHeld, StoreOwn, StoreId, Release
  <2>2. req[r].pc \notin {"enqueue", "markFailed"}
    BY <1>2 DEF FindAgain, FindExisting, StoreHeld, StoreOwn, StoreId, Release
  <2>3. QED
    BY <1>l, <1>u, <2>1, <2>2 DEF Orphans, Unpublished, Abandoned
<1>3. CASE Create(r)
  <2>1. CASE LoseAnswer
    BY <1>l, <2>1
  <2>2. CASE /\ req' = [req EXCEPT ![r].pc = "enqueue", ![r].id = r, ![r].seen = "QUEUED"]
             /\ UNCHANGED faults
    <3>1. req'[r].pc = "enqueue"
      BY <1>q, <2>2 DEF Request
    <3>2. QED
      BY <1>u, <2>2, <3>1 DEF Unpublished, Abandoned
  <2>3. CASE UNCHANGED <<status, faults>>
    <3>1. req[r].pc = "create" /\ jobs' = jobs
      BY <1>3 DEF Create
    <3>2. QED
      BY <1>u, <2>3, <3>1 DEF Orphans, Unpublished, Abandoned
  <2>4. QED
    BY <1>3, <2>1, <2>2, <2>3 DEF Create
<1>4. CASE Enqueue(r)
  <2>1. r \notin Orphans'
    BY <1>4 DEF Enqueue, RefusalInvariant, RefusalInductive, Orphans
  <2>2. faults' = faults \/ LoseAnswer
    BY <1>4 DEF Enqueue
  <2>3. QED
    BY <1>l, <1>u, <2>1, <2>2 DEF Unpublished, Abandoned
<1>5. CASE MarkFailed(r)
  <2>1. req[r].id = r
    BY <1>5 DEF MarkFailed, RefusalInvariant, RefusalInductive
  <2>2. status'[r] # "QUEUED"
    BY <1>5, <1>q, <2>1 DEF MarkFailed
  <2>3. faults' = faults \/ LoseAnswer
    BY <1>5 DEF MarkFailed
  <2>4. QED
    BY <1>l, <1>u, <2>2, <2>3 DEF Orphans, Unpublished, Abandoned
<1>6. CASE CallThrows(r)
  <2>1. Bill' >= Bill + 1
    <3>1. /\ faults'.lost = faults.lost /\ faults'.crashes = faults.crashes
          /\ faults'.errors = faults.errors + 1
      BY <1>6, <1>f DEF CallThrows
    <3>2. QED
      BY <1>f, <3>1 DEF Bill
  <2>2. UNCHANGED <<status, jobs>>
    BY <1>6 DEF CallThrows
  <2>3. CASE req[r].pc = "enqueue"
    <3>1. Goto(r, "markFailed")
      BY <1>6, <2>3 DEF CallThrows
    <3>2. req'[r].pc = "markFailed"
      BY <1>q, <3>1 DEF Goto, Request
    <3>3. QED
      BY <2>1, <3>2 DEF Abandoned
  <2>4. CASE req[r].pc # "enqueue"
    BY <2>1, <2>2, <2>4 DEF Unpublished, Orphans
  <2>5. QED
    BY <2>3, <2>4
<1>7. CASE Crash(r)
  <2>1. /\ faults'.lost = faults.lost /\ faults'.crashes = faults.crashes + 1
        /\ faults'.errors = faults.errors
    BY <1>7, <1>f DEF Crash
  <2>2. Bill' >= Bill + 2
    BY <1>f, <2>1 DEF Bill
  <2>3. QED
    BY <2>2
<1>8. QED
  BY <1>1, <1>2, <1>3, <1>4, <1>5, <1>6, <1>7 DEF RequestStep, LockedStep

LEMMA OrphanStep ==
    TypeOK /\ TypeOK' /\ RefusalInvariant /\ OrphansInductive /\ [Next]_vars => OrphansInductive'
<1> SUFFICES ASSUME TypeOK, TypeOK', RefusalInvariant, OrphansInductive, [Next]_vars
             PROVE  OrphansInductive'
  OBVIOUS
<1> DEFINE U == Cardinality(Unpublished)
           A == Cardinality(Abandoned)
           U1 == Cardinality(Unpublished')
           A1 == Cardinality(Abandoned')
<1>1. Bill \in Nat /\ Bill' \in Nat
  <2>1. /\ faults'.lost \in Nat /\ faults'.crashes \in Nat /\ faults'.errors \in Nat
    BY DEF TypeOK
  <2>2. Bill' \in Nat
    BY <2>1 DEF Bill
  <2>3. QED
    BY <2>2, BillType
<1>2. ASSUME NEW r \in Requests, RequestStep(r) \/ Crash(r)
      PROVE  OrphansInductive'
  <2>1. /\ Unpublished' \subseteq Unpublished \cup {r}
        /\ Abandoned' \subseteq Abandoned \cup {r}
    BY <1>2, OthersMakeNoOrphan DEF Orphans, Unpublished, Abandoned
  <2>2. /\ IsFiniteSet(Unpublished') /\ U1 \in Nat /\ U \in Nat /\ U1 <= U + 1
        /\ (r \in Unpublished' => r \in Unpublished) => U1 <= U
    BY <2>1, GrowsByOne DEF OrphansInductive
  <2>3. /\ IsFiniteSet(Abandoned') /\ A1 \in Nat /\ A \in Nat /\ A1 <= A + 1
        /\ (r \in Abandoned' => r \in Abandoned) => A1 <= A
    BY <2>1, GrowsByOne DEF OrphansInductive
  <2>4. U + A <= Bill
    BY DEF OrphansInductive
  <2> HIDE DEF U, A, U1, A1
  <2>5. \/ Bill' >= Bill /\ U1 <= U /\ A1 <= A
        \/ Bill' >= Bill + 1 /\ (U1 <= U \/ A1 <= A)
        \/ Bill' >= Bill + 2
    BY <1>2, <2>2, <2>3, OwnOrphan
  <2>6. U1 + A1 <= Bill'
    BY <1>1, <2>2, <2>3, <2>4, <2>5
  <2>7. QED
    BY <2>2, <2>3, <2>6 DEF OrphansInductive, U1, A1
<1>3. ASSUME \A m \in Requests : m \in Orphans' => m \in Orphans, UNCHANGED req, Bill' = Bill
      PROVE  OrphansInductive'
  <2>1. Unpublished' \subseteq Unpublished /\ Abandoned' \subseteq Abandoned
    BY <1>3 DEF Orphans, Unpublished, Abandoned
  <2>2. IsFiniteSet(Unpublished') /\ U1 \in Nat /\ U \in Nat /\ U1 <= U
    BY <2>1, FS_Subset, FS_CardinalityType DEF OrphansInductive
  <2>3. IsFiniteSet(Abandoned') /\ A1 \in Nat /\ A \in Nat /\ A1 <= A
    BY <2>1, FS_Subset, FS_CardinalityType DEF OrphansInductive
  <2>4. U + A <= Bill
    BY DEF OrphansInductive
  <2> HIDE DEF U, A, U1, A1
  <2>5. U1 + A1 <= Bill'
    BY <1>1, <1>3, <2>2, <2>3, <2>4
  <2>6. QED
    BY <2>2, <2>3, <2>5 DEF OrphansInductive, U1, A1
<1>4. ASSUME NEW k \in Keys, LockExpires(k) \/ LockExpiresEarly(k) \/ CacheExpires(k)
      PROVE  OrphansInductive'
  <2>1. UNCHANGED <<status, jobs, req>>
    BY <1>4 DEF LockExpires, LockExpiresEarly, CacheExpires
  <2>2. Bill' = Bill
    BY <1>4 DEF LockExpires, LockExpiresEarly, CacheExpires, Bill, TypeOK
  <2>3. QED
    BY <1>3, <2>1, <2>2 DEF Orphans
<1>5. ASSUME NEW m \in Requests, DeleteRow(m) \/ WorkerClaims(m) \/ WorkerSends(m)
      PROVE  OrphansInductive'
  <2>1. UNCHANGED <<jobs, req>> /\ \A s \in Requests : status'[s] = "QUEUED" => status[s] = "QUEUED"
    BY <1>5 DEF DeleteRow, WorkerClaims, WorkerSends, TypeOK
  <2>2. Bill' = Bill
    BY <1>5 DEF DeleteRow, WorkerClaims, WorkerSends, Bill, TypeOK
  <2>3. QED
    BY <1>3, <2>1, <2>2 DEF Orphans
<1>6. CASE Rest \/ UNCHANGED vars
  BY <1>3, <1>6 DEF Rest, vars, Orphans, Bill
<1>7. QED
  BY <1>2, <1>4, <1>5, <1>6 DEF Next

(***************************************************************************)
(* Once all requests are over, every row left QUEUED without a job is paid *)
(* for by a crash, a lost answer, or the failure of the publication and of *)
(* its compensation (sendSmsRequest), for any number of requests.          *)
(***************************************************************************)
THEOREM OrphansPaidFor == Spec => []OrphansArePaidFor
<1>1. Init => OrphansInductive
  <2> SUFFICES ASSUME Init PROVE OrphansInductive
    OBVIOUS
  <2>1. Unpublished = {} /\ Abandoned = {} /\ Bill = 0
    BY DEF Init, Orphans, Unpublished, Abandoned, Bill, NoFaults
  <2>2. QED
    BY <2>1, FS_EmptySet DEF OrphansInductive
<1>2. TypeOK /\ OrphansInductive => OrphansArePaidFor
  <2> SUFFICES ASSUME TypeOK, OrphansInductive, Over
               PROVE  2 * Cardinality(Orphans)
                        <= 2 * (faults.lost + faults.crashes) + faults.errors
    BY DEF OrphansArePaidFor
  <2>1. Unpublished = Orphans /\ Abandoned = Orphans
    BY DEF Over, Unpublished, Abandoned, Orphans
  <2>2. Cardinality(Orphans) \in Nat
    BY <2>1, FS_CardinalityType DEF OrphansInductive
  <2>3. Cardinality(Orphans) + Cardinality(Orphans) <= Bill /\ Bill \in Nat
    BY <2>1, BillType DEF OrphansInductive
  <2>4. 2 * Cardinality(Orphans) <= Bill
    BY <2>2, <2>3
  <2>5. QED
    BY <2>4 DEF Bill
<1>3. QED
  BY <1>1, <1>2, OrphanStep, TypeCorrect, RefusalsKept, PTL DEF Spec
=============================================================================
