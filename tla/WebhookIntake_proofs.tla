------------------------ MODULE WebhookIntake_proofs ------------------------
(***************************************************************************)
(* Theorems about WebhookIntake, for any deliveries, handlers, windows,    *)
(* claim lifetimes and any number of faults.                               *)
(***************************************************************************)
EXTENDS WebhookIntake, TLAPS

-----------------------------------------------------------------------------
(* Type correctness. *)

(* The parts of TypeOK that a step may disturb one at a time. *)
HandlersTyped ==
    /\ handler \in [Handlers -> Handler]
    /\ \A h \in Handlers : handler[h].pc # "idle" => handler[h].delivery \in Deliveries
RowTyped == row \in SmsMessage /\ lastError \notin Unprintable
HistoryTyped ==
    /\ done \cup contested \cup overtaken \cup dropped \subseteq Deliveries
    /\ originals \subseteq Deliveries \X Signed
FaultsTyped == faults \in [errors: 0 .. MaxFaults, stale: 0 .. MaxFaults]

LEMMA Idle == IdleHandler \in Handler /\ IdleHandler.pc = "idle" /\ IdleHandler.delivery = Null
BY DEF IdleHandler, Handler, HandlerPcs

(* A step of one handler that leaves it in a typed state. *)
LEMMA HandlerType ==
    ASSUME TypeOK, NEW h \in Handlers, NEW x \in Handler,
           x.pc # "idle" => x.delivery \in Deliveries,
           handler' = [handler EXCEPT ![h] = x]
    PROVE  HandlersTyped'
BY DEF TypeOK, HandlersTyped

LEMMA AnswerType ==
    ASSUME TypeOK, NEW h \in Handlers, Answer(h)
    PROVE  HandlersTyped'
BY HandlerType, Idle DEF Answer

LEMMA GotoType ==
    ASSUME TypeOK, NEW h \in Handlers, NEW pc \in HandlerPcs, handler[h].pc # "idle", Goto(h, pc)
    PROVE  HandlersTyped'
<1> DEFINE x == [handler[h] EXCEPT !.pc = pc]
<1>1. x \in Handler /\ (x.pc # "idle" => x.delivery \in Deliveries)
  BY DEF TypeOK, Handler
<1>2. handler' = [handler EXCEPT ![h] = x]
  BY DEF Goto
<1> HIDE DEF x
<1>3. QED
  BY <1>1, <1>2, HandlerType

(* What an exception makes of a handler. *)
Threw(h) ==
    IF handler[h].delivery.provider = Bird /\ handler[h].pc \in {"find", "update"}
        THEN [handler[h] EXCEPT !.pc = "release"] ELSE IdleHandler

LEMMA ThrowIs ==
    ASSUME TypeOK, NEW h \in Handlers, Throw(h)
    PROVE  handler' = [handler EXCEPT ![h] = Threw(h)]
BY DEF Throw, Threw, TypeOK

LEMMA ThrowType ==
    ASSUME TypeOK, NEW h \in Handlers, Throw(h)
    PROVE  HandlersTyped'
<1>1. Threw(h) \in Handler /\ (Threw(h).pc # "idle" => Threw(h).delivery \in Deliveries)
  BY Idle DEF Threw, TypeOK, Handler, HandlerPcs
<1>2. QED
  BY <1>1, ThrowIs, HandlerType

LEMMA FaultType ==
    ASSUME TypeOK, NEW kind \in {"errors", "stale"}, FaultHappens(kind)
    PROVE  FaultsTyped'
BY IntakeAssumption DEF TypeOK, FaultHappens, FaultsTyped

LEMMA FinishType ==
    ASSUME TypeOK, NEW h \in Handlers, handler[h].pc # "idle", Finish(h)
    PROVE  HandlersTyped' /\ HistoryTyped'
<1>1. HandlersTyped'
  BY AnswerType DEF Finish
<1>2. handler[h].delivery \in Deliveries
  BY DEF TypeOK
<1>3. QED
  BY <1>1, <1>2 DEF Finish, HistoryTyped, TypeOK, Copy

(* A status that may be applied, and what it leaves. *)
LEMMA Applied ==
    ASSUME NEW r \in SmsMessage, NEW s, MayApplyDeliveryStatus(r, s)
    PROVE  /\ s \in {"SENT"} \cup DELIVERY_TERMINAL_STATUSES
           /\ ApplyDeliveryStatus(r, s) \in SmsMessage
           /\ ApplyDeliveryStatus(r, s).status = s
<1>1. s \in {"SENT"} \cup DELIVERY_TERMINAL_STATUSES
  BY DEF MayApplyDeliveryStatus, AllowedPreviousStatusesFor, DELIVERY_TERMINAL_STATUSES
<1>2. QED
  BY <1>1 DEF ApplyDeliveryStatus, SmsMessage, SmsStatuses, Timestamp,
     DELIVERY_TERMINAL_STATUSES, DELIVERY_FAILURE_STATUSES

LEMMA Printable == \A d : BuildLastError(d) \notin Unprintable
BY DeliveriesAssumption DEF BuildLastError, SanitizeDiagnosticCode

LEMMA TypeInit == Init => TypeOK
<1> SUFFICES ASSUME Init PROVE TypeOK
  OBVIOUS
<1> DEFINE r == MarkProcessing(QueuedMessage)
<1>1. r \in SmsMessage
  BY DEF MarkProcessing, QueuedMessage, SmsMessage, SmsStatuses, Timestamp
<1> HIDE DEF r
<1>2. \A p \in Providers : MarkSent(r, p, 1) \in SmsMessage /\ MarkSent(r, p, 1).status = "SENT"
  BY <1>1 DEF MarkSent, SmsMessage, SmsStatuses, Timestamp
<1>3. row \in SmsMessage
  BY <1>2, IntakeAssumption DEF Init, r
<1>4. QED
  BY <1>3, Idle, IntakeAssumption, DeliveriesAssumption DEF Init, TypeOK

LEMMA TypeReceive ==
    ASSUME TypeOK, NEW h \in Handlers, Receive(h)
    PROVE  TypeOK'
<1>1. HandlersTyped'
  <2>1. ASSUME NEW d \in Deliveries, ReceiveTwilio(h, d)
        PROVE  HandlersTyped'
    <3> DEFINE x == [IdleHandler EXCEPT !.pc = "find", !.delivery = d]
    <3>1. x \in Handler /\ x.delivery \in Deliveries
      BY Idle DEF Handler, HandlerPcs
    <3>2. handler' = [handler EXCEPT ![h] = x]
      BY <2>1 DEF ReceiveTwilio
    <3> HIDE DEF x
    <3>3. QED
      BY <3>1, <3>2, HandlerType
  <2>2. ASSUME NEW d \in Deliveries, NEW stamp \in Signed \cup {now}, ReceiveBird(h, d, stamp)
        PROVE  HandlersTyped'
    <3> DEFINE x == [pc |-> "claim", delivery |-> d, stamp |-> Copied(stamp), at |-> now]
    <3>1. x \in Handler /\ x.delivery \in Deliveries
      BY IntakeAssumption DEF TypeOK, Handler, HandlerPcs, Copied
    <3>2. handler' = [handler EXCEPT ![h] = x]
      BY <2>2 DEF ReceiveBird
    <3> HIDE DEF x
    <3>3. QED
      BY <3>1, <3>2, HandlerType
  <2>3. QED
    BY <2>1, <2>2 DEF Receive
<1>2. UNCHANGED <<now, config, service, faults, history>>
  BY DEF Receive, ReceiveBird, ReceiveTwilio
<1>3. QED
  BY <1>1, <1>2 DEF TypeOK, HandlersTyped, service, history

(* The keys that a handler may claim or release. *)
LEMMA TypeClaim ==
    ASSUME TypeOK, NEW h \in Handlers, Claim(h)
    PROVE  TypeOK'
<1> DEFINE d == handler[h].delivery
           k == ClaimKey(d)
<1>1. handler[h].pc = "claim" /\ d \in Deliveries /\ UNCHANGED <<now, config, row, lastError>>
  BY DEF Claim, TypeOK
<1>2. CASE TurnAway(h) /\ UNCHANGED <<expiry, faults>>
  <2>1. HandlersTyped'
    BY <1>2, AnswerType DEF TurnAway
  <2>2. HistoryTyped'
    BY <1>1, <1>2 DEF TurnAway, HistoryTyped, TypeOK
  <2>3. QED
    BY <1>1, <1>2, <2>1, <2>2 DEF TypeOK, HandlersTyped, HistoryTyped
<1>3. CASE /\ expiry' = [expiry EXCEPT ![k] = now + Ttl]
           /\ \/ handler' = [handler EXCEPT ![h].pc = "find", ![h].at = 0] /\ UNCHANGED faults
              \/ Throw(h) /\ FaultHappens("stale")
           /\ contested' = contested \cup {e \in {d} : AtWork(e)}
           /\ UNCHANGED <<done, originals, overtaken, dropped>>
  <2>1. expiry' \in [WebhookIds -> Nat]
    <3>1. now + Ttl \in Nat
      BY IntakeAssumption DEF TypeOK
    <3> HIDE DEF k
    <3>2. QED
      BY <1>3, <3>1 DEF TypeOK
  <2>2. HistoryTyped'
    BY <1>1, <1>3 DEF HistoryTyped, TypeOK
  <2>3. HandlersTyped' /\ FaultsTyped'
    <3>1. CASE handler' = [handler EXCEPT ![h].pc = "find", ![h].at = 0] /\ UNCHANGED faults
      <4> DEFINE x == [handler[h] EXCEPT !.pc = "find", !.at = 0]
      <4>1. x \in Handler /\ x.delivery \in Deliveries
        BY <1>1 DEF TypeOK, Handler, HandlerPcs
      <4>2. handler' = [handler EXCEPT ![h] = x]
        BY <3>1 DEF TypeOK, Handler
      <4> HIDE DEF x
      <4>3. QED
        BY <3>1, <4>1, <4>2, HandlerType DEF TypeOK, FaultsTyped
    <3>2. CASE Throw(h) /\ FaultHappens("stale")
      BY <3>2, ThrowType, FaultType
    <3>3. QED
      BY <1>3, <3>1, <3>2
  <2>4. QED
    BY <1>1, <2>1, <2>2, <2>3 DEF TypeOK, HandlersTyped, HistoryTyped, FaultsTyped
<1>4. QED
  BY <1>2, <1>3 DEF Claim

LEMMA TypeWork ==
    ASSUME TypeOK, NEW h \in Handlers, Find(h) \/ Update(h)
    PROVE  TypeOK'
<1>1. CASE Find(h)
  <2>1. HandlersTyped' /\ HistoryTyped'
    <3>1. CASE Goto(h, "update") /\ UNCHANGED history
      BY <1>1, <3>1, GotoType DEF Find, HandlerPcs, TypeOK, HistoryTyped, history
    <3>2. CASE Finish(h)
      BY <1>1, <3>2, FinishType DEF Find
    <3>3. QED
      BY <1>1, <3>1, <3>2 DEF Find
  <2>2. QED
    BY <1>1, <2>1 DEF Find, TypeOK, HandlersTyped, HistoryTyped, service
<1>2. CASE Update(h)
  <2>1. HandlersTyped' /\ HistoryTyped' /\ FaultsTyped'
    <3>1. CASE Finish(h) /\ UNCHANGED faults
      BY <1>2, <3>1, FinishType DEF Update, TypeOK, FaultsTyped
    <3>2. CASE Throw(h) /\ FaultHappens("errors") /\ UNCHANGED history
      BY <3>2, ThrowType, FaultType DEF TypeOK, HistoryTyped, history
    <3>3. QED
      BY <1>2, <3>1, <3>2 DEF Update
  <2>2. RowTyped'
    BY <1>2, Applied, Printable DEF Update, TypeOK, RowTyped
  <2>3. QED
    BY <1>2, <2>1, <2>2 DEF Update, TypeOK, HandlersTyped, HistoryTyped, FaultsTyped, RowTyped
<1>3. QED
  BY <1>1, <1>2

LEMMA TypeEnd ==
    ASSUME TypeOK, NEW h \in Handlers, Release(h) \/ CallThrows(h)
    PROVE  TypeOK'
<1>1. CASE Release(h)
  <2>1. expiry' \in [WebhookIds -> Nat]
    BY <1>1 DEF Release, TypeOK
  <2>2. QED
    BY <1>1, <2>1, AnswerType DEF Release, TypeOK, HandlersTyped, history
<1>2. CASE CallThrows(h)
  BY <1>2, ThrowType, FaultType DEF CallThrows, TypeOK, HandlersTyped, FaultsTyped, service, history
<1>3. QED
  BY <1>1, <1>2

LEMMA TypeWorld ==
    ASSUME TypeOK, Crash \/ Tick
    PROVE  TypeOK'
<1>1. CASE Crash
  BY <1>1, FaultType, Idle DEF Crash, TypeOK, FaultsTyped, history
<1>2. CASE Tick
  BY <1>2, IntakeAssumption DEF Tick, TypeOK, history
<1>3. QED
  BY <1>1, <1>2

LEMMA TypeStep == TypeOK /\ [Next]_vars => TypeOK'
<1> SUFFICES ASSUME TypeOK, [Next]_vars PROVE TypeOK'
  OBVIOUS
<1>1. CASE UNCHANGED vars
  BY <1>1 DEF vars, service, history, TypeOK
<1>2. QED
  BY <1>1, TypeReceive, TypeClaim, TypeWork, TypeEnd, TypeWorld DEF Next, HandlerStep

(***************************************************************************)
(* Every variable keeps its type, and whatever a payload calls its error,  *)
(* last_error is a token that can be logged.                               *)
(***************************************************************************)
THEOREM TypeCorrect == Spec => []TypeOK
BY TypeInit, TypeStep, PTL DEF Spec

-----------------------------------------------------------------------------
(***************************************************************************)
(* What is known of a delivery by the step its handler has come to: it was *)
(* verified and is complete, only Bird's are claimed, under their own id,  *)
(* and what is to be applied has a meaning.                                *)
(***************************************************************************)
Agrees(x) ==
    /\ x.pc \in {"claim", "release"} => x.delivery.provider = Bird
    /\ x.pc # "idle" => x.delivery.signed /\ Complete(x.delivery)
    /\ x.pc # "idle" /\ x.delivery.provider = Bird => x.delivery.webhookId \in WebhookIds
    /\ x.pc = "update" => StatusOf(x.delivery) # Null
    /\ x.stamp \in Signed => x.delivery.provider = Bird
HandlersAgree == \A h \in Handlers : Agrees(handler[h])

LEMMA IdleAgrees == Agrees(IdleHandler)
BY IntakeAssumption DEF Agrees, IdleHandler

LEMMA AgreeOne ==
    ASSUME TypeOK, HandlersAgree, NEW h \in Handlers, NEW x, Agrees(x),
           handler' = [handler EXCEPT ![h] = x]
    PROVE  HandlersAgree'
BY DEF TypeOK, HandlersAgree

LEMMA AnswerAgrees ==
    ASSUME TypeOK, HandlersAgree, NEW h \in Handlers, Answer(h)
    PROVE  HandlersAgree'
BY AgreeOne, IdleAgrees DEF Answer

LEMMA ThrowAgrees ==
    ASSUME TypeOK, HandlersAgree, NEW h \in Handlers, Throw(h)
    PROVE  HandlersAgree'
<1>1. Agrees(Threw(h))
  <2>1. CASE handler[h].delivery.provider = Bird /\ handler[h].pc \in {"find", "update"}
    BY <2>1 DEF Threw, TypeOK, Handler, HandlersAgree, Agrees
  <2>2. CASE ~(handler[h].delivery.provider = Bird /\ handler[h].pc \in {"find", "update"})
    BY <2>2, IdleAgrees DEF Threw
  <2>3. QED
    BY <2>1, <2>2
<1>2. QED
  BY <1>1, ThrowIs, AgreeOne

LEMMA AgreeReceive ==
    ASSUME TypeOK, HandlersAgree, NEW h \in Handlers, Receive(h)
    PROVE  HandlersAgree'
<1>1. ASSUME NEW d \in Deliveries, ReceiveTwilio(h, d)
      PROVE  HandlersAgree'
  <2> DEFINE x == [IdleHandler EXCEPT !.pc = "find", !.delivery = d]
  <2>1. x.pc = "find" /\ x.delivery = d /\ x.stamp \notin Signed
    BY IntakeAssumption DEF IdleHandler
  <2>2. d.signed /\ Complete(d) /\ d.provider # Bird /\ handler' = [handler EXCEPT ![h] = x]
    BY <1>1, IntakeAssumption DEF ReceiveTwilio, TwilioVerifies
  <2> HIDE DEF x
  <2>3. Agrees(x)
    BY <2>1, <2>2 DEF Agrees
  <2>4. QED
    BY <2>2, <2>3, AgreeOne
<1>2. ASSUME NEW d \in Deliveries, NEW stamp \in Signed \cup {now}, ReceiveBird(h, d, stamp)
      PROVE  HandlersAgree'
  <2> DEFINE x == [pc |-> "claim", delivery |-> d, stamp |-> Copied(stamp), at |-> now]
  <2>1. d.signed /\ Complete(d) /\ d.provider = Bird /\ handler' = [handler EXCEPT ![h] = x]
    BY <1>2 DEF ReceiveBird, BirdVerifies
  <2>2. d.webhookId \in WebhookIds
    BY <1>2 DEF ReceiveBird, BirdVerifies, WebhookIds
  <2>3. Agrees(x)
    BY <2>1, <2>2 DEF Agrees
  <2> HIDE DEF x
  <2>4. QED
    BY <2>1, <2>3, AgreeOne
<1>3. QED
  BY <1>1, <1>2 DEF Receive

LEMMA AgreeWork ==
    ASSUME TypeOK, HandlersAgree, NEW h \in Handlers, HandlerStep(h)
    PROVE  HandlersAgree'
<1>1. CASE Claim(h)
  <2>1. CASE TurnAway(h)
    BY <2>1, AnswerAgrees DEF TurnAway
  <2>2. CASE Throw(h)
    BY <2>2, ThrowAgrees
  <2>3. CASE handler' = [handler EXCEPT ![h].pc = "find", ![h].at = 0]
    <3> DEFINE x == [handler[h] EXCEPT !.pc = "find", !.at = 0]
    <3>1. Agrees(x)
      BY <1>1 DEF Claim, TypeOK, Handler, HandlersAgree, Agrees
    <3>2. handler' = [handler EXCEPT ![h] = x]
      BY <2>3 DEF TypeOK, Handler
    <3> HIDE DEF x
    <3>3. QED
      BY <3>1, <3>2, AgreeOne
  <2>4. QED
    BY <1>1, <2>1, <2>2, <2>3 DEF Claim
<1>2. CASE Find(h)
  <2>1. CASE Finish(h)
    BY <2>1, AnswerAgrees DEF Finish
  <2>2. CASE Goto(h, "update") /\ StatusOf(handler[h].delivery) # Null
    <3> DEFINE x == [handler[h] EXCEPT !.pc = "update"]
    <3>1. Agrees(x)
      BY <1>2, <2>2 DEF Find, TypeOK, Handler, HandlersAgree, Agrees
    <3>2. handler' = [handler EXCEPT ![h] = x]
      BY <2>2 DEF Goto
    <3> HIDE DEF x
    <3>3. QED
      BY <3>1, <3>2, AgreeOne
  <2>3. QED
    BY <1>2, <2>1, <2>2 DEF Find
<1>3. CASE Update(h)
  BY <1>3, AnswerAgrees, ThrowAgrees DEF Update, Finish
<1>4. CASE Release(h) \/ CallThrows(h)
  BY <1>4, AnswerAgrees, ThrowAgrees DEF Release, CallThrows
<1>5. QED
  BY <1>1, <1>2, <1>3, <1>4 DEF HandlerStep

LEMMA AgreeStep == TypeOK /\ HandlersAgree /\ [Next]_vars => HandlersAgree'
<1> SUFFICES ASSUME TypeOK, HandlersAgree, [Next]_vars PROVE HandlersAgree'
  OBVIOUS
<1>1. CASE UNCHANGED vars \/ Tick
  BY <1>1 DEF vars, Tick, HandlersAgree
<1>2. CASE Crash
  BY <1>2, IdleAgrees DEF Crash, HandlersAgree
<1>3. QED
  BY <1>1, <1>2, AgreeReceive, AgreeWork DEF Next

LEMMA AgreeInit == Init => HandlersAgree
BY IdleAgrees DEF Init, HandlersAgree

-----------------------------------------------------------------------------
(***************************************************************************)
(* last_error. LastErrorExplains is inductive once the row is known to be  *)
(* sent or settled and the handlers to agree.                              *)
(***************************************************************************)
Settled == row.status \in {"SENT"} \cup DELIVERY_TERMINAL_STATUSES

(* A report that may be applied leaves a diagnostic exactly for a failure. *)
LEMMA ErrorOfFailure ==
    ASSUME NEW d, Complete(d), StatusOf(d) \in {"SENT"} \cup DELIVERY_TERMINAL_STATUSES
    PROVE  BuildLastError(d) # Null <=> StatusOf(d) \in DELIVERY_FAILURE_STATUSES
<1>1. FirstOf(Report(d).code, Report(d).status) # Null
  BY DEF Complete, FirstOf
<1>2. SanitizeDiagnosticCode(FirstOf(Report(d).code, Report(d).status)) # Null
  BY <1>1, DeliveriesAssumption DEF SanitizeDiagnosticCode
<1>3. QED
  BY <1>2 DEF BuildLastError, DELIVERY_TERMINAL_STATUSES, DELIVERY_FAILURE_STATUSES

LEMMA ErrorUpdate ==
    ASSUME TypeOK, HandlersAgree, Settled, LastErrorExplains, NEW h \in Handlers, Update(h)
    PROVE  Settled' /\ LastErrorExplains'
<1> DEFINE d == handler[h].delivery
<1>1. d \in Deliveries /\ d.signed /\ Complete(d)
  BY DEF Update, TypeOK, HandlersAgree, Agrees
<1>2. CASE MayApplyDeliveryStatus(row, StatusOf(d))
  <2>1. /\ StatusOf(d) \in {"SENT"} \cup DELIVERY_TERMINAL_STATUSES
        /\ row'.status = StatusOf(d) /\ lastError' = BuildLastError(d)
    BY <1>2, Applied DEF Update, TypeOK
  <2>2. BuildLastError(d) # Null <=> StatusOf(d) \in DELIVERY_FAILURE_STATUSES
    BY <1>1, <2>1, ErrorOfFailure
  <2>3. QED
    BY <1>1, <2>1, <2>2 DEF Settled, LastErrorExplains
<1>3. CASE ~MayApplyDeliveryStatus(row, StatusOf(d))
  BY <1>3 DEF Update, Settled, LastErrorExplains
<1>4. QED
  BY <1>2, <1>3

LEMMA ErrorStep ==
    TypeOK /\ HandlersAgree /\ Settled /\ LastErrorExplains /\ [Next]_vars
        => Settled' /\ LastErrorExplains'
<1> SUFFICES ASSUME TypeOK, HandlersAgree, Settled, LastErrorExplains, [Next]_vars
             PROVE  Settled' /\ LastErrorExplains'
  OBVIOUS
<1>1. CASE UNCHANGED <<row, lastError>>
  BY <1>1 DEF Settled, LastErrorExplains
<1>2. CASE \E h \in Handlers : Update(h)
  BY <1>2, ErrorUpdate
<1>3. QED
  BY <1>1, <1>2 DEF Next, Receive, ReceiveBird, ReceiveTwilio, HandlerStep, Claim, Find, Release,
     CallThrows, Crash, Tick, service, vars

LEMMA ErrorInit == Init => Settled /\ LastErrorExplains
<1> SUFFICES ASSUME Init PROVE Settled /\ LastErrorExplains
  OBVIOUS
<1>1. row.status = "SENT" /\ lastError = Null
  BY DEF Init, MarkSent, MarkProcessing, QueuedMessage
<1>2. QED
  BY <1>1 DEF Settled, LastErrorExplains, DELIVERY_FAILURE_STATUSES

(***************************************************************************)
(* last_error names the code or status of a verified report that means the *)
(* very failure the row records, and nothing when the row records none.    *)
(***************************************************************************)
THEOREM ErrorsExplained == Spec => []LastErrorExplains
<1>1. Init => TypeOK /\ HandlersAgree /\ Settled /\ LastErrorExplains
  BY TypeInit, AgreeInit, ErrorInit
<1>2. TypeOK /\ HandlersAgree /\ Settled /\ LastErrorExplains /\ [Next]_vars
        => TypeOK' /\ HandlersAgree' /\ Settled' /\ LastErrorExplains'
  BY TypeStep, AgreeStep, ErrorStep
<1>3. QED
  BY <1>1, <1>2, PTL DEF Spec

-----------------------------------------------------------------------------
(***************************************************************************)
(* Duplicates. While no claim is left behind, a claim that stands belongs  *)
(* to a delivery that is done or at work, and while no call fails, nobody  *)
(* has to release one.                                                     *)
(***************************************************************************)
Work == {"find", "update", "release"}
ClaimsHeld ==
    faults.stale = 0 =>
        \A d \in Deliveries :
            d.provider = Bird /\ d.webhookId \in WebhookIds /\ expiry[d.webhookId] > now
                => d \in done \/ AtWork(d)
NothingToRelease ==
    faults.stale = 0 /\ faults.errors = 0 => \A h \in Handlers : handler[h].pc # "release"
DuplicatesKept == ClaimsHeld /\ NothingToRelease /\ DuplicateAnswerIsKept

LEMMA StaleExcuses ==
    ASSUME TypeOK, FaultHappens("stale")
    PROVE  DuplicatesKept'
<1>1. faults'.stale # 0
  BY DEF TypeOK, FaultHappens
<1>2. QED
  BY <1>1 DEF DuplicatesKept, ClaimsHeld, NothingToRelease, DuplicateAnswerIsKept

LEMMA ErrorCounts ==
    ASSUME TypeOK, FaultHappens("errors")
    PROVE  faults'.errors # 0 /\ faults'.stale = faults.stale
BY DEF TypeOK, FaultHappens

(* A delivery stays at work while the handlers that work on it do. *)
LEMMA WorkKept ==
    ASSUME TypeOK, NEW h \in Handlers, NEW x, handler' = [handler EXCEPT ![h] = x],
           NEW e, AtWork(e),
           handler[h].delivery = e /\ handler[h].pc \in Work => x.delivery = e /\ x.pc \in Work
    PROVE  AtWork(e)'
<1>1. PICK g \in Handlers : handler[g].delivery = e /\ handler[g].pc \in Work
  BY DEF AtWork, Work
<1>2. handler'[g].delivery = e /\ handler'[g].pc \in Work
  BY <1>1 DEF TypeOK
<1>3. QED
  BY <1>2 DEF AtWork, Work

(* Steps of a handler before its claim, or between two pieces of work. *)
LEMMA DuplicatesQuiet ==
    ASSUME TypeOK, DuplicatesKept, NEW h \in Handlers, NEW x,
           handler' = [handler EXCEPT ![h] = x],
           handler[h].pc \in Work => x.delivery = handler[h].delivery /\ x.pc \in Work,
           x.pc # "release" \/ faults'.errors # 0,
           faults'.stale = faults.stale, faults.errors # 0 => faults'.errors # 0,
           UNCHANGED <<now, expiry, history>>
    PROVE  DuplicatesKept'
<1>1. \A e : AtWork(e) => AtWork(e)'
  BY WorkKept
<1>2. ClaimsHeld'
  BY <1>1 DEF DuplicatesKept, ClaimsHeld, history
<1>3. NothingToRelease'
  BY DEF DuplicatesKept, NothingToRelease, TypeOK
<1>4. DuplicateAnswerIsKept'
  BY <1>1 DEF DuplicatesKept, DuplicateAnswerIsKept, history
<1>5. QED
  BY <1>2, <1>3, <1>4 DEF DuplicatesKept

LEMMA DuplicatesReceive ==
    ASSUME TypeOK, DuplicatesKept, NEW h \in Handlers, Receive(h)
    PROVE  DuplicatesKept'
<1>1. handler[h].pc = "idle" /\ UNCHANGED <<now, service, faults, history>>
  BY DEF Receive, ReceiveBird, ReceiveTwilio
<1>2. ASSUME NEW x, handler' = [handler EXCEPT ![h] = x], x.pc # "release"
      PROVE  DuplicatesKept'
  BY <1>1, <1>2, DuplicatesQuiet DEF Work, service
<1>3. ASSUME NEW d \in Deliveries, ReceiveTwilio(h, d)
      PROVE  DuplicatesKept'
  <2>1. [IdleHandler EXCEPT !.pc = "find", !.delivery = d].pc # "release"
    BY DEF IdleHandler
  <2>2. QED
    BY <1>2, <1>3, <2>1 DEF ReceiveTwilio
<1>4. ASSUME NEW d \in Deliveries, NEW stamp \in Signed \cup {now}, ReceiveBird(h, d, stamp)
      PROVE  DuplicatesKept'
  <2> DEFINE x == [pc |-> "claim", delivery |-> d, stamp |-> Copied(stamp), at |-> now]
  <2>1. handler' = [handler EXCEPT ![h] = x] /\ x.pc # "release"
    BY <1>4 DEF ReceiveBird
  <2> HIDE DEF x
  <2>2. QED
    BY <1>2, <2>1
<1>5. QED
  BY <1>3, <1>4 DEF Receive

LEMMA DuplicatesClaim ==
    ASSUME TypeOK, HandlersAgree, DuplicatesKept, NEW h \in Handlers, Claim(h)
    PROVE  DuplicatesKept'
<1> DEFINE d == handler[h].delivery
<1>1. /\ handler[h].pc = "claim" /\ d \in Deliveries /\ UNCHANGED now
      /\ d.provider = Bird /\ d.webhookId \in WebhookIds
  BY DEF Claim, TypeOK, HandlersAgree, Agrees
<1>2. ASSUME NEW x, handler' = [handler EXCEPT ![h] = x]
      PROVE  \A e : AtWork(e) => AtWork(e)'
  BY <1>1, <1>2, WorkKept DEF Work
<1>3. CASE expiry[d.webhookId] > now /\ TurnAway(h) /\ UNCHANGED <<expiry, faults>>
  <2>1. handler' = [handler EXCEPT ![h] = IdleHandler]
    BY <1>3 DEF TurnAway, Answer
  <2>2. \A e : AtWork(e) => AtWork(e)'
    BY <1>2, <2>1
  <2>3. UNCHANGED done
    BY <1>3 DEF TurnAway
  <2>4. ClaimsHeld'
    BY <1>1, <1>3, <2>2, <2>3 DEF DuplicatesKept, ClaimsHeld
  <2>5. NothingToRelease'
    BY <1>3, <2>1, Idle DEF DuplicatesKept, NothingToRelease, TypeOK
  <2>6. DuplicateAnswerIsKept'
    <3>1. CASE faults.stale # 0
      BY <1>3, <3>1 DEF DuplicateAnswerIsKept
    <3>2. CASE faults.stale = 0
      <4>1. d \in done \/ AtWork(d)
        BY <1>1, <1>3, <3>2 DEF DuplicatesKept, ClaimsHeld
      <4>2. /\ dropped' = dropped
            /\ \/ overtaken' = overtaken
               \/ AtWork(d) /\ overtaken' = overtaken \cup {d}
        BY <1>3, <3>2, <4>1 DEF TurnAway
      <4>3. QED
        BY <1>3, <2>2, <4>2 DEF DuplicatesKept, DuplicateAnswerIsKept
    <3>3. QED
      BY <3>1, <3>2
  <2>7. QED
    BY <2>4, <2>5, <2>6 DEF DuplicatesKept
<1>4. CASE /\ expiry' = [expiry EXCEPT ![d.webhookId] = now + Ttl]
           /\ handler' = [handler EXCEPT ![h].pc = "find", ![h].at = 0] /\ UNCHANGED faults
           /\ UNCHANGED <<done, originals, overtaken, dropped>>
  <2> DEFINE x == [handler[h] EXCEPT !.pc = "find", !.at = 0]
  <2>1. handler' = [handler EXCEPT ![h] = x] /\ x.delivery = d /\ x.pc = "find"
    BY <1>4 DEF TypeOK, Handler
  <2> HIDE DEF x
  <2>2. \A e : AtWork(e) => AtWork(e)'
    BY <1>2, <2>1
  <2>3. \A e : e = d => AtWork(e)'
    BY <2>1 DEF AtWork, TypeOK
  <2>4. ClaimsHeld'
    <3> SUFFICES ASSUME faults.stale = 0, NEW e \in Deliveries, e.provider = Bird,
                        e.webhookId \in WebhookIds, expiry'[e.webhookId] > now
                 PROVE  e \in done \/ AtWork(e)'
      BY <1>1, <1>4 DEF ClaimsHeld
    <3>1. CASE e.webhookId = d.webhookId
      <4>1. d.webhookId # Null
        BY <1>1 DEF WebhookIds
      <4>2. e = d
        BY <1>1, <3>1, <4>1, DeliveriesAssumption
      <4>3. QED
        BY <2>3, <4>2
    <3>2. CASE e.webhookId # d.webhookId
      BY <1>4, <2>2, <3>2 DEF DuplicatesKept, ClaimsHeld, TypeOK
    <3>3. QED
      BY <3>1, <3>2
  <2>5. NothingToRelease'
    BY <1>4, <2>1 DEF DuplicatesKept, NothingToRelease, TypeOK
  <2>6. DuplicateAnswerIsKept'
    BY <1>4, <2>2 DEF DuplicatesKept, DuplicateAnswerIsKept
  <2>7. QED
    BY <2>4, <2>5, <2>6 DEF DuplicatesKept
<1>5. CASE FaultHappens("stale")
  BY <1>5, StaleExcuses
<1>6. QED
  BY <1>3, <1>4, <1>5 DEF Claim, ClaimKey

(* A handler is through with its delivery, which is done from now on. *)
LEMMA DuplicatesFinish ==
    ASSUME TypeOK, DuplicatesKept, NEW h \in Handlers, Finish(h), UNCHANGED <<now, expiry, faults>>
    PROVE  DuplicatesKept'
<1> DEFINE d == handler[h].delivery
<1>1. handler' = [handler EXCEPT ![h] = IdleHandler]
  BY DEF Finish, Answer
<1>2. ASSUME NEW e, e # d, AtWork(e)
      PROVE  AtWork(e)'
  BY <1>1, <1>2, WorkKept
<1>3. ClaimsHeld'
  BY <1>2 DEF DuplicatesKept, ClaimsHeld, Finish
<1>4. NothingToRelease'
  BY <1>1, Idle DEF DuplicatesKept, NothingToRelease, TypeOK
<1>5. DuplicateAnswerIsKept'
  BY <1>2 DEF DuplicatesKept, DuplicateAnswerIsKept, Finish
<1>6. QED
  BY <1>3, <1>4, <1>5 DEF DuplicatesKept

(* An exception before or during the work. *)
LEMMA DuplicatesThrow ==
    ASSUME TypeOK, HandlersAgree, DuplicatesKept, NEW h \in Handlers,
           handler[h].pc \in {"claim", "find", "update"}, Throw(h), FaultHappens("errors"),
           UNCHANGED <<now, expiry, history>>
    PROVE  DuplicatesKept'
<1> DEFINE d == handler[h].delivery
<1>1. handler' = [handler EXCEPT ![h] = Threw(h)]
  BY ThrowIs
<1>2. faults'.errors # 0 /\ faults'.stale = faults.stale
  BY ErrorCounts
<1>3. CASE handler[h].pc = "claim" \/ d.provider = Bird
  <2>1. handler[h].pc \in Work => Threw(h).delivery = d /\ Threw(h).pc \in Work
    BY <1>3 DEF Threw, Work, TypeOK, Handler
  <2>2. QED
    BY <1>1, <1>2, <2>1, DuplicatesQuiet
<1>4. CASE d.provider # Bird
  <2>1. \A e : e # d /\ AtWork(e) => AtWork(e)'
    BY <1>1, WorkKept
  <2>2. ClaimsHeld'
    BY <1>2, <1>4, <2>1 DEF DuplicatesKept, ClaimsHeld, history
  <2>3. QED
    BY <1>2, <2>2 DEF DuplicatesKept, NothingToRelease, DuplicateAnswerIsKept, history
<1>5. QED
  BY <1>3, <1>4

LEMMA DuplicatesRelease ==
    ASSUME TypeOK, HandlersAgree, DuplicatesKept, NEW h \in Handlers, Release(h)
    PROVE  DuplicatesKept'
<1> DEFINE d == handler[h].delivery
<1>1. /\ handler[h].pc = "release" /\ d \in Deliveries
      /\ d.provider = Bird /\ d.webhookId \in WebhookIds
      /\ handler' = [handler EXCEPT ![h] = IdleHandler]
      /\ expiry' = [expiry EXCEPT ![d.webhookId] = 0] /\ UNCHANGED <<now, faults, history>>
  BY DEF Release, ClaimKey, Answer, TypeOK, HandlersAgree, Agrees
<1>2. \A e : e # d /\ AtWork(e) => AtWork(e)'
  BY <1>1, WorkKept
<1>3. ClaimsHeld'
  <2> SUFFICES ASSUME faults.stale = 0, NEW e \in Deliveries, e.provider = Bird,
                      e.webhookId \in WebhookIds, expiry'[e.webhookId] > now
               PROVE  e \in done \/ AtWork(e)'
    BY <1>1 DEF ClaimsHeld, history
  <2>1. expiry'[d.webhookId] = 0 /\ now \in Nat
    BY <1>1 DEF TypeOK
  <2>2. e.webhookId # d.webhookId
    BY <2>1
  <2>3. e # d /\ expiry[e.webhookId] > now
    BY <1>1, <2>2 DEF TypeOK
  <2>4. QED
    BY <1>2, <2>3 DEF DuplicatesKept, ClaimsHeld
<1>4. faults.stale # 0 \/ faults.errors # 0
  BY <1>1 DEF DuplicatesKept, NothingToRelease
<1>5. QED
  BY <1>1, <1>3, <1>4 DEF DuplicatesKept, NothingToRelease, DuplicateAnswerIsKept, history

LEMMA DuplicatesStep ==
    TypeOK /\ HandlersAgree /\ DuplicatesKept /\ [Next]_vars => DuplicatesKept'
<1> SUFFICES ASSUME TypeOK, HandlersAgree, DuplicatesKept, [Next]_vars PROVE DuplicatesKept'
  OBVIOUS
<1>1. CASE UNCHANGED vars
  BY <1>1 DEF vars, service, history, DuplicatesKept, ClaimsHeld, NothingToRelease,
     DuplicateAnswerIsKept, AtWork
<1>2. CASE Crash
  BY <1>2, StaleExcuses DEF Crash
<1>3. CASE Tick
  <2>1. \A w \in WebhookIds : expiry'[w] > now' => expiry[w] > now
    BY <1>3 DEF Tick, TypeOK
  <2>2. UNCHANGED <<handler, faults, history>>
    BY <1>3 DEF Tick
  <2>3. \A e : AtWork(e) <=> AtWork(e)'
    BY <2>2 DEF AtWork
  <2>4. QED
    BY <2>1, <2>2, <2>3 DEF DuplicatesKept, ClaimsHeld, NothingToRelease, DuplicateAnswerIsKept,
       history
<1>4. ASSUME NEW h \in Handlers, Find(h) \/ Update(h) \/ CallThrows(h)
      PROVE  DuplicatesKept'
  <2>1. CASE (Find(h) \/ (Update(h) /\ UNCHANGED faults)) /\ Finish(h)
    BY <2>1, DuplicatesFinish DEF Find, Update, service
  <2>2. CASE Find(h) /\ Goto(h, "update") /\ UNCHANGED history
    <3> DEFINE x == [handler[h] EXCEPT !.pc = "update"]
    <3>1. /\ handler' = [handler EXCEPT ![h] = x] /\ x.delivery = handler[h].delivery
          /\ x.pc = "update" /\ UNCHANGED <<now, expiry, history, faults>>
      BY <2>2 DEF Goto, Find, service, TypeOK, Handler
    <3> HIDE DEF x
    <3>2. QED
      BY <3>1, DuplicatesQuiet DEF Work
  <2>3. CASE Update(h) /\ Throw(h) /\ FaultHappens("errors") /\ UNCHANGED history
    BY <2>3, DuplicatesThrow DEF Update
  <2>4. CASE CallThrows(h)
    <3>1. CASE handler[h].pc = "release"
      BY <2>4, <3>1, StaleExcuses DEF CallThrows
    <3>2. CASE handler[h].pc # "release"
      <4>1. handler[h].pc \in {"claim", "find", "update"}
        BY <2>4, <3>2 DEF CallThrows, TypeOK, Handler, HandlerPcs
      <4>2. QED
        BY <2>4, <3>2, <4>1, DuplicatesThrow DEF CallThrows, service
    <3>3. QED
      BY <3>1, <3>2
  <2>5. QED
    BY <1>4, <2>1, <2>2, <2>3, <2>4 DEF Find, Update
<1>5. QED
  BY <1>1, <1>2, <1>3, <1>4, DuplicatesReceive, DuplicatesClaim, DuplicatesRelease
     DEF Next, HandlerStep

LEMMA DuplicatesInit == Init => DuplicatesKept
BY Idle DEF Init, DuplicatesKept, ClaimsHeld, NothingToRelease, DuplicateAnswerIsKept

(***************************************************************************)
(* No 204 loses a report that was not processed, unless a claim was left   *)
(* behind: whoever is turned away finds its delivery done or at work.      *)
(***************************************************************************)
THEOREM DuplicatesAreKept == Spec => []DuplicateAnswerIsKept
<1>1. Init => TypeOK /\ HandlersAgree /\ DuplicatesKept
  BY TypeInit, AgreeInit, DuplicatesInit
<1>2. TypeOK /\ HandlersAgree /\ DuplicatesKept /\ [Next]_vars
        => TypeOK' /\ HandlersAgree' /\ DuplicatesKept'
  BY TypeStep, AgreeStep, DuplicatesStep
<1>3. DuplicatesKept => DuplicateAnswerIsKept
  BY DEF DuplicatesKept
<1>4. QED
  BY <1>1, <1>2, <1>3, PTL DEF Spec

-----------------------------------------------------------------------------
(***************************************************************************)
(* Copies of the first signing. All of them are claimed by their Deadline, *)
(* and the claim of one that is worked on or done stands until then, as    *)
(* long as no two handlers contest a delivery: a handler that is at work   *)
(* on a delivery that is done already, and so might delete its claim, is   *)
(* at it after the deadline.                                               *)
(***************************************************************************)
Deadline(s) == s + Window + MaxDelay
StandsFor(d, s) == expiry[d.webhookId] > Deadline(s) \/ now > Deadline(s)

ClaimedInTime ==
    \A h \in Handlers :
        LET x == handler[h] IN
        x.pc = "claim" =>
            /\ x.at <= now /\ now <= x.at + MaxDelay
            /\ x.stamp \in Signed => x.stamp <= x.at + Window /\ x.at <= x.stamp + Window
OriginalsAtWork ==
    \A h \in Handlers :
        LET x == handler[h] IN
        x.pc \in Work /\ x.stamp \in Signed /\ x.delivery \notin contested
            => StandsFor(x.delivery, x.stamp) /\ <<x.delivery, x.stamp>> \notin originals
OneAtWork ==
    \A g, h \in Handlers :
        /\ g # h /\ handler[g].pc \in Work /\ handler[h].pc \in Work
        /\ handler[g].delivery = handler[h].delivery /\ handler[g].delivery.provider = Bird
        => handler[g].delivery \in contested
OriginalsDone ==
    \A d \in Deliveries, s \in Signed :
        <<d, s>> \in originals /\ d \notin contested =>
            /\ d.provider = Bird /\ d.webhookId \in WebhookIds /\ StandsFor(d, s)
            /\ \A h \in Handlers :
                handler[h].delivery = d /\ handler[h].pc \in Work => now > Deadline(s)

CopiesInTime == ClaimedInTime /\ OriginalsAtWork /\ OneAtWork /\ OriginalsDone

LEMMA WindowType == Window \in Nat /\ Window <= Tolerance /\ Window <= SdkWindow
BY IntakeAssumption DEF Window

LEMMA DeadlineType == \A s \in Signed : s \in Nat /\ Deadline(s) \in Nat
BY IntakeAssumption, WindowType DEF Deadline

(* Steps that begin no work: the handler goes on, or becomes idle. *)
LEMMA CopiesQuiet ==
    ASSUME TypeOK, CopiesInTime, NEW h \in Handlers, NEW x,
           handler' = [handler EXCEPT ![h] = x], x.pc # "claim",
           x.pc \in Work => /\ handler[h].pc \in Work
                           /\ x.delivery = handler[h].delivery /\ x.stamp = handler[h].stamp,
           UNCHANGED <<now, expiry, originals, contested>>
    PROVE  CopiesInTime'
<1>1. \A g \in Handlers : g # h => handler'[g] = handler[g]
  BY DEF TypeOK
<1>2. handler'[h] = x
  BY DEF TypeOK
<1>3. UNCHANGED <<now, expiry>> /\ \A d, s : StandsFor(d, s)' <=> StandsFor(d, s)
  BY DEF StandsFor
<1>4. ClaimedInTime'
  BY <1>1, <1>2 DEF CopiesInTime, ClaimedInTime
<1>5. OriginalsAtWork'
  BY <1>1, <1>2, <1>3 DEF CopiesInTime, OriginalsAtWork
<1>6. OneAtWork'
  BY <1>1, <1>2 DEF CopiesInTime, OneAtWork
<1>7. OriginalsDone'
  BY <1>1, <1>2, <1>3 DEF CopiesInTime, OriginalsDone
<1>8. QED
  BY <1>4, <1>5, <1>6, <1>7 DEF CopiesInTime

LEMMA CopiesTwilio ==
    ASSUME TypeOK, HandlersAgree, CopiesInTime, NEW h \in Handlers, NEW d \in Deliveries,
           ReceiveTwilio(h, d)
    PROVE  CopiesInTime'
<1> DEFINE x == [IdleHandler EXCEPT !.pc = "find", !.delivery = d]
<1>1. x.pc = "find" /\ x.delivery = d /\ x.stamp \notin Signed /\ d.provider # Bird
  BY IntakeAssumption DEF IdleHandler, ReceiveTwilio
<1>2. handler' = [handler EXCEPT ![h] = x] /\ UNCHANGED <<now, expiry, originals, contested>>
  BY DEF ReceiveTwilio, service, history
<1> HIDE DEF x
<1>3. handler'[h] = x /\ \A g \in Handlers : g # h => handler'[g] = handler[g]
  BY <1>2 DEF TypeOK
<1>4. \A e, s : StandsFor(e, s)' <=> StandsFor(e, s)
  BY <1>2 DEF StandsFor
<1>5. ClaimedInTime'
  BY <1>1, <1>2, <1>3 DEF CopiesInTime, ClaimedInTime
<1>6. OriginalsAtWork'
  BY <1>1, <1>2, <1>3, <1>4 DEF CopiesInTime, OriginalsAtWork
<1>7. OneAtWork'
  BY <1>1, <1>2, <1>3 DEF CopiesInTime, OneAtWork
<1>8. OriginalsDone'
  BY <1>1, <1>2, <1>3, <1>4 DEF CopiesInTime, OriginalsDone
<1>9. QED
  BY <1>5, <1>6, <1>7, <1>8 DEF CopiesInTime

LEMMA CopiesBird ==
    ASSUME TypeOK, HandlersAgree, CopiesInTime, NEW h \in Handlers, NEW d \in Deliveries,
           NEW stamp \in Signed \cup {now}, ReceiveBird(h, d, stamp)
    PROVE  CopiesInTime'
<1> DEFINE x == [pc |-> "claim", delivery |-> d, stamp |-> Copied(stamp), at |-> now]
<1>1. x.pc = "claim" /\ x.at = now /\ x.stamp = Copied(stamp)
  OBVIOUS
<1>2. handler' = [handler EXCEPT ![h] = x] /\ UNCHANGED <<now, expiry, originals, contested>>
  BY DEF ReceiveBird, service, history
<1> HIDE DEF x
<1>3. handler'[h] = x /\ \A g \in Handlers : g # h => handler'[g] = handler[g]
  BY <1>2 DEF TypeOK
<1>4. \A e, s : StandsFor(e, s)' <=> StandsFor(e, s)
  BY <1>2 DEF StandsFor
<1>5. ClaimedInTime'
  <2>1. Distance(now, stamp) <= Tolerance /\ Distance(now, stamp) <= SdkWindow
    BY DEF ReceiveBird, BirdVerifies, VerifyTimestamp
  <2>2. now \in Nat /\ stamp \in Nat
    BY IntakeAssumption DEF TypeOK
  <2>3. stamp <= now + Window /\ now <= stamp + Window
    BY <2>1, <2>2, WindowType, IntakeAssumption DEF Distance, Window
  <2>4. x.stamp \in Signed => x.stamp = stamp
    BY <1>1, IntakeAssumption DEF Copied
  <2>5. now <= now + MaxDelay
    BY <2>2, IntakeAssumption
  <2>6. QED
    BY <1>1, <1>2, <1>3, <2>2, <2>3, <2>4, <2>5 DEF CopiesInTime, ClaimedInTime
<1>6. OriginalsAtWork'
  BY <1>1, <1>2, <1>3, <1>4 DEF CopiesInTime, OriginalsAtWork, Work
<1>7. OneAtWork'
  BY <1>1, <1>2, <1>3 DEF CopiesInTime, OneAtWork, Work
<1>8. OriginalsDone'
  BY <1>1, <1>2, <1>3, <1>4 DEF CopiesInTime, OriginalsDone, Work
<1>9. QED
  BY <1>5, <1>6, <1>7, <1>8 DEF CopiesInTime

(* A claim that is granted when none stands. *)
LEMMA CopiesGrant ==
    ASSUME TypeOK, HandlersAgree, ClaimOutlivesCopies, CopiesInTime, NEW h \in Handlers, NEW x,
           handler[h].pc = "claim", handler' = [handler EXCEPT ![h] = x],
           \/ x = IdleHandler
           \/ x.pc = "find" /\ x.delivery = handler[h].delivery /\ x.stamp = handler[h].stamp,
           expiry[handler[h].delivery.webhookId] <= now,
           expiry' = [expiry EXCEPT ![handler[h].delivery.webhookId] = now + Ttl],
           contested' = contested \cup {e \in {handler[h].delivery} : AtWork(e)},
           UNCHANGED <<now, originals>>
    PROVE  CopiesInTime'
<1> DEFINE d == handler[h].delivery
           k == d.webhookId
           StandsNow(e, s) == expiry'[e.webhookId] > Deadline(s) \/ now > Deadline(s)
<1>1. d \in Deliveries /\ d.provider = Bird /\ k \in WebhookIds /\ k # Null /\ now \in Nat
  BY DEF TypeOK, HandlersAgree, Agrees, WebhookIds
<1>2. handler'[h] = x /\ \A g \in Handlers : g # h => handler'[g] = handler[g]
  BY DEF TypeOK
<1>3. x.pc \in Work => x.delivery = d /\ x.stamp = handler[h].stamp
  BY Idle DEF Work
<1>4. expiry'[k] = now + Ttl /\ \A w \in WebhookIds : w # k => expiry'[w] = expiry[w]
  BY <1>1 DEF TypeOK
<1>5. ASSUME NEW e, NEW s \in Signed, StandsFor(e, s), e.webhookId \in WebhookIds
      PROVE  StandsNow(e, s)
  <2>1. CASE e.webhookId # k
    BY <1>4, <1>5, <2>1 DEF StandsFor
  <2>2. CASE e.webhookId = k
    <3>1. expiry[k] \in Nat /\ Deadline(s) \in Nat
      BY <1>1, DeadlineType DEF TypeOK
    <3>2. now > Deadline(s)
      BY <1>1, <1>5, <2>2, <3>1 DEF StandsFor
    <3>3. QED
      BY <3>2
  <2>3. QED
    BY <2>1, <2>2
<1>6. contested \subseteq contested' /\ (AtWork(d) => d \in contested')
  OBVIOUS
<1>7. ClaimedInTime'
  BY <1>2, Idle DEF CopiesInTime, ClaimedInTime
<1>8. OriginalsAtWork'
  <2> SUFFICES ASSUME NEW g \in Handlers, handler'[g].pc \in Work, handler'[g].stamp \in Signed,
                      handler'[g].delivery \notin contested'
               PROVE  /\ StandsNow(handler'[g].delivery, handler'[g].stamp)
                      /\ <<handler'[g].delivery, handler'[g].stamp>> \notin originals
    BY DEF OriginalsAtWork, StandsFor, Deadline
  <2>1. CASE g = h
    <3> DEFINE s == handler[h].stamp
    <3>1. handler'[h].delivery = d /\ handler'[h].stamp = s /\ s \in Signed
      BY <1>2, <1>3, <2>1
    <3>2. /\ handler[h].at \in Nat /\ s \in Nat /\ handler[h].at <= now
          /\ now <= handler[h].at + MaxDelay
          /\ s <= handler[h].at + Window /\ handler[h].at <= s + Window
      BY <3>1, DeadlineType DEF CopiesInTime, ClaimedInTime, TypeOK, Handler
    <3>3. now <= Deadline(s) /\ now + Ttl > Deadline(s)
      BY <1>1, <3>2, WindowType, IntakeAssumption DEF Deadline, ClaimOutlivesCopies
    <3>4. StandsNow(d, s)
      BY <1>4, <3>3
    <3>5. <<d, s>> \notin originals
      <4> SUFFICES ASSUME <<d, s>> \in originals PROVE FALSE
        OBVIOUS
      <4>1. d \notin contested
        BY <1>6, <2>1, <3>1
      <4>2. StandsFor(d, s)
        BY <1>1, <3>1, <4>1 DEF CopiesInTime, OriginalsDone
      <4>3. expiry[k] \in Nat /\ Deadline(s) \in Nat
        BY <1>1, <3>1, DeadlineType DEF TypeOK
      <4>4. QED
        BY <1>1, <3>3, <4>2, <4>3 DEF StandsFor
    <3>6. QED
      BY <2>1, <3>1, <3>4, <3>5
  <2>2. CASE g # h
    <3> DEFINE e == handler[g].delivery
               s == handler[g].stamp
    <3>1. /\ handler'[g].delivery = e /\ handler'[g].stamp = s /\ handler[g].pc \in Work
          /\ s \in Signed /\ e \notin contested
      BY <1>2, <1>6, <2>2
    <3>2. StandsFor(e, s) /\ <<e, s>> \notin originals
      BY <3>1 DEF CopiesInTime, OriginalsAtWork
    <3>3. e.webhookId \in WebhookIds
      BY <3>1 DEF HandlersAgree, Agrees, Work
    <3>4. StandsNow(e, s)
      BY <1>5, <3>1, <3>2, <3>3
    <3>5. QED
      BY <3>1, <3>2, <3>4
  <2>3. QED
    BY <2>1, <2>2
<1>9. OneAtWork'
  <2> SUFFICES ASSUME NEW f \in Handlers, NEW g \in Handlers, f # g,
                      handler'[f].pc \in Work, handler'[g].pc \in Work,
                      handler'[f].delivery = handler'[g].delivery,
                      handler'[f].delivery.provider = Bird
               PROVE  handler'[f].delivery \in contested'
    BY DEF OneAtWork
  <2>1. CASE f = h \/ g = h
    <3>1. PICK i \in {f, g} : i # h
      BY <2>1
    <3>2. handler[i].delivery = d /\ handler[i].pc \in Work
      BY <1>2, <1>3, <2>1, <3>1
    <3>3. AtWork(d)
      BY <3>2 DEF AtWork, Work
    <3>4. handler'[f].delivery = d
      BY <1>2, <1>3, <2>1
    <3>5. QED
      BY <1>6, <3>3, <3>4
  <2>2. CASE f # h /\ g # h
    BY <1>2, <1>6, <2>2 DEF CopiesInTime, OneAtWork
  <2>3. QED
    BY <2>1, <2>2
<1>10. OriginalsDone'
  <2> SUFFICES ASSUME NEW e \in Deliveries, NEW s \in Signed, <<e, s>> \in originals,
                      e \notin contested
               PROVE  /\ e.provider = Bird /\ e.webhookId \in WebhookIds /\ StandsNow(e, s)
                      /\ \A g \in Handlers :
                            handler'[g].delivery = e /\ handler'[g].pc \in Work
                                => now > Deadline(s)
    BY <1>6 DEF OriginalsDone, StandsFor, Deadline
  <2>1. /\ e.provider = Bird /\ e.webhookId \in WebhookIds /\ StandsFor(e, s)
        /\ \A g \in Handlers :
            handler[g].delivery = e /\ handler[g].pc \in Work => now > Deadline(s)
    BY DEF CopiesInTime, OriginalsDone
  <2>2. e = d => now > Deadline(s)
    <3>1. expiry[k] \in Nat /\ Deadline(s) \in Nat
      BY <1>1, DeadlineType DEF TypeOK
    <3>2. QED
      BY <1>1, <2>1, <3>1 DEF StandsFor
  <2>3. StandsNow(e, s)
    BY <1>5, <2>1
  <2>4. QED
    BY <1>2, <1>3, <2>1, <2>2, <2>3
<1>11. QED
  BY <1>7, <1>8, <1>9, <1>10 DEF CopiesInTime

(* A handler is through with a copy. *)
LEMMA CopiesFinish ==
    ASSUME TypeOK, HandlersAgree, CopiesInTime, NEW h \in Handlers,
           handler[h].pc \in {"find", "update"}, Finish(h), UNCHANGED <<now, expiry>>
    PROVE  CopiesInTime'
<1> DEFINE d == handler[h].delivery
           s == handler[h].stamp
<1>1. /\ handler'[h] = IdleHandler /\ IdleHandler.pc = "idle"
      /\ \A g \in Handlers : g # h => handler'[g] = handler[g]
  BY Idle DEF Finish, Answer, TypeOK
<1>2. UNCHANGED contested /\ \A e, u : StandsFor(e, u)' <=> StandsFor(e, u)
  BY DEF Finish, StandsFor
<1>3. s \notin Signed => originals' = originals
  BY DEF Finish, Copy
<1>4. s \in Signed => originals' = originals \cup {<<d, s>>}
  BY DEF Finish, Copy
<1>5. ClaimedInTime'
  BY <1>1 DEF CopiesInTime, ClaimedInTime
<1>6. OneAtWork'
  BY <1>1, <1>2 DEF CopiesInTime, OneAtWork, Work
<1>7. ASSUME NEW g \in Handlers, g # h, handler[g].pc \in Work, handler[g].delivery = d,
             s \in Signed
      PROVE  d \in contested
  <2>1. d.provider = Bird
    BY <1>7 DEF HandlersAgree, Agrees
  <2>2. QED
    BY <1>7, <2>1 DEF CopiesInTime, OneAtWork, Work
<1>8. OriginalsAtWork'
  <2> SUFFICES ASSUME NEW g \in Handlers, g # h, handler[g].pc \in Work,
                      handler[g].stamp \in Signed, handler[g].delivery \notin contested
               PROVE  /\ StandsFor(handler[g].delivery, handler[g].stamp)
                      /\ <<handler[g].delivery, handler[g].stamp>> \notin originals'
    BY <1>1, <1>2 DEF OriginalsAtWork, Work
  <2>1. /\ StandsFor(handler[g].delivery, handler[g].stamp)
        /\ <<handler[g].delivery, handler[g].stamp>> \notin originals
    BY DEF CopiesInTime, OriginalsAtWork
  <2>2. s \in Signed => handler[g].delivery # d
    BY <1>7
  <2>3. QED
    BY <1>3, <1>4, <2>1, <2>2
<1>9. OriginalsDone'
  <2> SUFFICES ASSUME NEW e \in Deliveries, NEW u \in Signed, <<e, u>> \in originals',
                      e \notin contested
               PROVE  /\ e.provider = Bird /\ e.webhookId \in WebhookIds /\ StandsFor(e, u)
                      /\ \A g \in Handlers :
                            g # h /\ handler[g].delivery = e /\ handler[g].pc \in Work
                                => now > Deadline(u)
    BY <1>1, <1>2 DEF OriginalsDone, Work, Deadline
  <2>1. CASE <<e, u>> \in originals
    BY <2>1 DEF CopiesInTime, OriginalsDone
  <2>2. CASE <<e, u>> \notin originals
    <3>1. e = d /\ u = s /\ s \in Signed
      BY <1>3, <1>4, <2>2
    <3>2. e.provider = Bird /\ e.webhookId \in WebhookIds
      BY <3>1 DEF HandlersAgree, Agrees
    <3>3. StandsFor(e, u)
      BY <3>1 DEF CopiesInTime, OriginalsAtWork, Work
    <3>4. QED
      BY <1>7, <3>1, <3>2, <3>3
  <2>3. QED
    BY <2>1, <2>2
<1>10. QED
  BY <1>5, <1>6, <1>8, <1>9 DEF CopiesInTime

(* A claim is deleted by a handler that has nothing to do with originals. *)
LEMMA CopiesRelease ==
    ASSUME TypeOK, HandlersAgree, CopiesInTime, NEW h \in Handlers, Release(h)
    PROVE  CopiesInTime'
<1> DEFINE d == handler[h].delivery
           StandsNow(e, s) == expiry'[e.webhookId] > Deadline(s) \/ now > Deadline(s)
<1>1. /\ handler[h].pc = "release" /\ d \in Deliveries
      /\ d.provider = Bird /\ d.webhookId \in WebhookIds /\ d.webhookId # Null
      /\ expiry' = [expiry EXCEPT ![d.webhookId] = 0]
      /\ UNCHANGED <<now, originals, contested>>
  BY DEF Release, ClaimKey, TypeOK, HandlersAgree, Agrees, WebhookIds, history
<1>2. /\ handler'[h] = IdleHandler /\ IdleHandler.pc = "idle"
      /\ \A g \in Handlers : g # h => handler'[g] = handler[g]
  BY Idle DEF Release, Answer, TypeOK
<1>3. ASSUME NEW e \in Deliveries, NEW s, e # d, e.provider = Bird, e.webhookId \in WebhookIds,
             StandsFor(e, s)
      PROVE  StandsNow(e, s)
  <2>1. e.webhookId # d.webhookId
    BY <1>1, <1>3, DeliveriesAssumption
  <2>2. expiry'[e.webhookId] = expiry[e.webhookId]
    BY <1>1, <1>3, <2>1 DEF TypeOK
  <2>3. QED
    BY <1>3, <2>2 DEF StandsFor
<1>4. ClaimedInTime'
  BY <1>1, <1>2 DEF CopiesInTime, ClaimedInTime
<1>5. OneAtWork'
  BY <1>1, <1>2 DEF CopiesInTime, OneAtWork, Work
<1>6. OriginalsAtWork'
  <2> SUFFICES ASSUME NEW g \in Handlers, g # h, handler[g].pc \in Work,
                      handler[g].stamp \in Signed, handler[g].delivery \notin contested
               PROVE  /\ StandsNow(handler[g].delivery, handler[g].stamp)
                      /\ <<handler[g].delivery, handler[g].stamp>> \notin originals
    BY <1>1, <1>2 DEF OriginalsAtWork, Work, StandsFor, Deadline
  <2>1. /\ StandsFor(handler[g].delivery, handler[g].stamp)
        /\ <<handler[g].delivery, handler[g].stamp>> \notin originals
    BY DEF CopiesInTime, OriginalsAtWork
  <2>2. /\ handler[g].delivery \in Deliveries /\ handler[g].delivery.provider = Bird
        /\ handler[g].delivery.webhookId \in WebhookIds
    BY DEF TypeOK, HandlersAgree, Agrees, Work
  <2>3. handler[g].delivery # d
    BY <1>1, <2>2 DEF CopiesInTime, OneAtWork, Work
  <2>4. QED
    BY <1>3, <2>1, <2>2, <2>3
<1>7. OriginalsDone'
  <2> SUFFICES ASSUME NEW e \in Deliveries, NEW s \in Signed, <<e, s>> \in originals,
                      e \notin contested
               PROVE  /\ e.provider = Bird /\ e.webhookId \in WebhookIds /\ StandsNow(e, s)
                      /\ \A g \in Handlers :
                            handler[g].delivery = e /\ handler[g].pc \in Work
                                => now > Deadline(s)
    BY <1>1, <1>2 DEF OriginalsDone, Work, StandsFor, Deadline
  <2>1. /\ e.provider = Bird /\ e.webhookId \in WebhookIds /\ StandsFor(e, s)
        /\ \A g \in Handlers :
            handler[g].delivery = e /\ handler[g].pc \in Work => now > Deadline(s)
    BY DEF CopiesInTime, OriginalsDone
  <2>2. e = d => now > Deadline(s)
    BY <1>1, <2>1 DEF Work
  <2>3. QED
    BY <1>3, <2>1, <2>2
<1>8. QED
  BY <1>4, <1>5, <1>6, <1>7 DEF CopiesInTime

LEMMA CopiesWork ==
    ASSUME TypeOK, HandlersAgree, ClaimOutlivesCopies, CopiesInTime, NEW h \in Handlers,
           HandlerStep(h)
    PROVE  CopiesInTime'
<1>1. CASE Claim(h)
  <2>1. CASE TurnAway(h) /\ UNCHANGED expiry
    <3>1. handler' = [handler EXCEPT ![h] = IdleHandler] /\ UNCHANGED <<now, originals, contested>>
      BY <1>1, <2>1 DEF Claim, TurnAway, Answer
    <3>2. QED
      BY <2>1, <3>1, Idle, CopiesQuiet DEF Work
  <2>2. CASE /\ expiry[ClaimKey(handler[h].delivery)] <= now
             /\ expiry' = [expiry EXCEPT ![ClaimKey(handler[h].delivery)] = now + Ttl]
             /\ \/ handler' = [handler EXCEPT ![h].pc = "find", ![h].at = 0]
                \/ Throw(h)
             /\ contested' = contested \cup {e \in {handler[h].delivery} : AtWork(e)}
             /\ UNCHANGED originals
    <3>1. handler[h].pc = "claim" /\ UNCHANGED now
      BY <1>1 DEF Claim
    <3>2. CASE Throw(h)
      <4>1. handler' = [handler EXCEPT ![h] = IdleHandler]
        BY <3>1, <3>2, ThrowIs DEF Threw
      <4>2. QED
        BY <2>2, <3>1, <4>1, CopiesGrant DEF ClaimKey
    <3>3. CASE handler' = [handler EXCEPT ![h].pc = "find", ![h].at = 0]
      <4> DEFINE x == [handler[h] EXCEPT !.pc = "find", !.at = 0]
      <4>1. /\ handler' = [handler EXCEPT ![h] = x] /\ x.pc = "find"
            /\ x.delivery = handler[h].delivery /\ x.stamp = handler[h].stamp
        BY <3>3 DEF TypeOK, Handler
      <4> HIDE DEF x
      <4>2. QED
        BY <2>2, <3>1, <4>1, CopiesGrant DEF ClaimKey
    <3>4. QED
      BY <2>2, <3>2, <3>3
  <2>3. QED
    BY <1>1, <2>1, <2>2 DEF Claim
<1>2. CASE (Find(h) \/ Update(h)) /\ Finish(h)
  BY <1>2, CopiesFinish DEF Find, Update, service
<1>3. CASE Find(h) /\ Goto(h, "update") /\ UNCHANGED history
  <2> DEFINE x == [handler[h] EXCEPT !.pc = "update"]
  <2>1. /\ handler' = [handler EXCEPT ![h] = x] /\ x.delivery = handler[h].delivery
        /\ x.pc = "update" /\ x.stamp = handler[h].stamp /\ handler[h].pc = "find"
        /\ UNCHANGED <<now, expiry, originals, contested>>
    BY <1>3 DEF Goto, Find, service, history, TypeOK, Handler
  <2> HIDE DEF x
  <2>2. QED
    BY <2>1, CopiesQuiet DEF Work
<1>4. CASE (Update(h) \/ CallThrows(h)) /\ Throw(h) /\ UNCHANGED history
  <2>1. handler' = [handler EXCEPT ![h] = Threw(h)]
    BY <1>4, ThrowIs
  <2>2. Threw(h).pc # "claim"
    BY Idle DEF Threw, TypeOK, Handler
  <2>3. Threw(h).pc \in Work => /\ handler[h].pc \in Work
                               /\ Threw(h).delivery = handler[h].delivery
                               /\ Threw(h).stamp = handler[h].stamp
    BY Idle DEF Threw, TypeOK, Handler, Work
  <2>4. UNCHANGED <<now, expiry, originals, contested>>
    BY <1>4 DEF Update, CallThrows, service, history
  <2>5. QED
    BY <2>1, <2>2, <2>3, <2>4, CopiesQuiet
<1>5. CASE Release(h)
  BY <1>5, CopiesRelease
<1>6. QED
  BY <1>1, <1>2, <1>3, <1>4, <1>5 DEF HandlerStep, Find, Update, CallThrows

LEMMA CopiesTick ==
    ASSUME TypeOK, HandlersAgree, CopiesInTime, Tick
    PROVE  CopiesInTime'
<1>1. now \in Nat /\ now' = now + 1 /\ UNCHANGED <<handler, originals, contested>>
  BY DEF Tick, TypeOK, history
<1>2. ASSUME NEW e, NEW s \in Signed, e.webhookId \in WebhookIds, StandsFor(e, s)
      PROVE  expiry'[e.webhookId] > Deadline(s) \/ now' > Deadline(s)
  <2>1. /\ expiry[e.webhookId] \in Nat /\ Deadline(s) \in Nat
        /\ expiry'[e.webhookId] = IF expiry[e.webhookId] > now' THEN expiry[e.webhookId] ELSE 0
    BY <1>2, DeadlineType DEF Tick, TypeOK
  <2>2. QED
    BY <1>1, <1>2, <2>1 DEF StandsFor
<1>3. ClaimedInTime'
  <2> SUFFICES ASSUME NEW h \in Handlers, handler[h].pc = "claim"
               PROVE  handler[h].at <= now + 1 /\ now + 1 <= handler[h].at + MaxDelay
    BY <1>1 DEF CopiesInTime, ClaimedInTime
  <2>1. handler[h].at \in Nat /\ handler[h].at <= now /\ now < handler[h].at + MaxDelay
    BY DEF Tick, CopiesInTime, ClaimedInTime, TypeOK, Handler
  <2>2. QED
    BY <1>1, <2>1, IntakeAssumption
<1>4. OneAtWork'
  BY <1>1 DEF CopiesInTime, OneAtWork
<1>5. OriginalsAtWork'
  <2> SUFFICES ASSUME NEW h \in Handlers, handler[h].pc \in Work, handler[h].stamp \in Signed,
                      handler[h].delivery \notin contested
               PROVE  /\ \/ expiry'[handler[h].delivery.webhookId] > Deadline(handler[h].stamp)
                         \/ now' > Deadline(handler[h].stamp)
                      /\ <<handler[h].delivery, handler[h].stamp>> \notin originals
    BY <1>1 DEF OriginalsAtWork, StandsFor, Deadline
  <2>1. handler[h].delivery.webhookId \in WebhookIds
    BY DEF HandlersAgree, Agrees, Work
  <2>2. QED
    BY <1>2, <2>1 DEF CopiesInTime, OriginalsAtWork
<1>6. OriginalsDone'
  <2> SUFFICES ASSUME NEW e \in Deliveries, NEW s \in Signed, <<e, s>> \in originals,
                      e \notin contested
               PROVE  /\ e.provider = Bird /\ e.webhookId \in WebhookIds
                      /\ expiry'[e.webhookId] > Deadline(s) \/ now' > Deadline(s)
                      /\ \A g \in Handlers :
                            handler[g].delivery = e /\ handler[g].pc \in Work
                                => now + 1 > Deadline(s)
    BY <1>1 DEF OriginalsDone, StandsFor, Deadline
  <2>1. /\ e.provider = Bird /\ e.webhookId \in WebhookIds /\ StandsFor(e, s)
        /\ \A g \in Handlers :
            handler[g].delivery = e /\ handler[g].pc \in Work => now > Deadline(s)
    BY DEF CopiesInTime, OriginalsDone
  <2>2. Deadline(s) \in Nat
    BY DeadlineType
  <2>3. QED
    BY <1>1, <1>2, <2>1, <2>2
<1>7. QED
  BY <1>3, <1>4, <1>5, <1>6 DEF CopiesInTime

LEMMA CopiesStep ==
    TypeOK /\ HandlersAgree /\ ClaimOutlivesCopies /\ CopiesInTime /\ [Next]_vars => CopiesInTime'
<1> SUFFICES ASSUME TypeOK, HandlersAgree, ClaimOutlivesCopies, CopiesInTime, [Next]_vars
             PROVE  CopiesInTime'
  OBVIOUS
<1>1. CASE UNCHANGED vars
  <2>1. UNCHANGED <<now, expiry, handler, originals, contested>>
    BY <1>1 DEF vars, service, history
  <2>2. \A e, s : StandsFor(e, s)' <=> StandsFor(e, s)
    BY <2>1 DEF StandsFor
  <2>3. QED
    BY <2>1, <2>2 DEF CopiesInTime, ClaimedInTime, OriginalsAtWork, OneAtWork, OriginalsDone
<1>2. CASE Crash
  <2>1. /\ UNCHANGED <<now, expiry, originals, contested>>
        /\ \A h \in Handlers : handler'[h] = IdleHandler
    BY <1>2 DEF Crash, history
  <2>2. \A e, s : StandsFor(e, s)' <=> StandsFor(e, s)
    BY <2>1 DEF StandsFor
  <2>3. QED
    BY <2>1, <2>2, Idle
       DEF CopiesInTime, ClaimedInTime, OriginalsAtWork, OneAtWork, OriginalsDone, Work
<1>3. ASSUME NEW h \in Handlers, Receive(h)
      PROVE  CopiesInTime'
  BY <1>3, CopiesTwilio, CopiesBird DEF Receive
<1>4. QED
  BY <1>1, <1>2, <1>3, CopiesWork, CopiesTick DEF Next

LEMMA CopiesInit == Init => CopiesInTime
BY Idle DEF Init, CopiesInTime, ClaimedInTime, OriginalsAtWork, OneAtWork, OriginalsDone, Work

(***************************************************************************)
(* With a claim that outlives the time in which copies are accepted, no    *)
(* copy of a delivery is worked on again once it was processed, however    *)
(* often and late it arrives, unless a handler outlived its claim.         *)
(***************************************************************************)
THEOREM CopiesProcessedOnce == Spec => []CopyProcessedOnce
<1>1. CASE ClaimOutlivesCopies
  <2>1. Init => TypeOK /\ HandlersAgree /\ CopiesInTime
    BY TypeInit, AgreeInit, CopiesInit
  <2>2. TypeOK /\ HandlersAgree /\ CopiesInTime /\ [Next]_vars
          => TypeOK' /\ HandlersAgree' /\ CopiesInTime'
    BY <1>1, TypeStep, AgreeStep, CopiesStep
  <2>3. CopiesInTime => CopyProcessedOnce
    BY DEF CopiesInTime, OriginalsAtWork, CopyProcessedOnce, Copy, Work
  <2>4. QED
    BY <2>1, <2>2, <2>3, PTL DEF Spec
<1>2. CASE ~ClaimOutlivesCopies
  <2>1. CopyProcessedOnce
    BY <1>2 DEF CopyProcessedOnce
  <2>2. QED
    BY <2>1, PTL
<1>3. QED
  BY <1>1, <1>2
=============================================================================
