------------------------ MODULE DeliveryWebhook_proofs ------------------------
(***************************************************************************)
(* Theorems about DeliveryWebhook, for any messages, providers, reports,   *)
(* handlers, dispatches and any number of faults.                          *)
(***************************************************************************)
EXTENDS DeliveryWebhook, SequenceTheorems, TLAPS

-----------------------------------------------------------------------------
(* Type correctness. *)

(* The statuses a report may have. *)
Reportable == {"SENT"} \cup DELIVERY_TERMINAL_STATUSES

LEMMA ReportableStatus ==
    ASSUME NEW e, StatusOf(e) # Null
    PROVE  StatusOf(e) \in Reportable
BY DEF StatusOf, BirdStatus, TwilioStatus, Reportable, DELIVERY_TERMINAL_STATUSES,
       DELIVERY_FAILURE_STATUSES

(* The UPDATE statements keep the type of a row. *)
LEMMA RowUpdates ==
    ASSUME NEW r \in SmsMessage, NEW p \in Providers \cup {Null}, NEW pid \in Nat \cup {Null}
    PROVE  /\ MarkProcessing(r) \in SmsMessage
           /\ MarkSent(r, p, pid) \in SmsMessage
           /\ MarkFatalFailure(r, p) \in SmsMessage
           /\ TransitionFatalFailureToQueued(r) \in SmsMessage
BY DEF SmsMessage, SmsStatuses, Timestamp, MarkProcessing, MarkSent, MarkFatalFailure,
       TransitionFatalFailureToQueued

LEMMA ApplyUpdates ==
    ASSUME NEW r \in SmsMessage, NEW s \in Reportable
    PROVE  ApplyDeliveryStatus(r, s) \in SmsMessage
BY DEF SmsMessage, SmsStatuses, Timestamp, ApplyDeliveryStatus, Reportable,
       DELIVERY_TERMINAL_STATUSES, DELIVERY_FAILURE_STATUSES

(***************************************************************************)
(* The parts of TypeOK about rows, dispatches, callbacks and the rest. A   *)
(* callback past its first step has a status to apply.                     *)
(***************************************************************************)
RowsTyped == row \in [Messages -> SmsMessage]
DispatchTyped ==
    /\ dispatch \in [1 .. MaxRuns -> Dispatch]
    /\ \A n \in 1 .. MaxRuns :
        dispatch[n].pc \in {"sending", "accepted"} => dispatch[n].message \in Messages
HandlersTyped ==
    /\ handler \in [Handlers -> Handler]
    /\ \A h \in Handlers :
        /\ handler[h].pc # "idle" => handler[h].event \in Events
        /\ handler[h].pc \in {"update", "reread"} => handler[h].message \in Messages
        /\ handler[h].pc \in {"find", "update", "reread"} => StatusOf(handler[h].event) # Null
OthersTyped ==
    /\ issued \in [Providers -> Seq(Messages)]
    /\ claims \cup retries \subseteq Events
    /\ faults \in [errors: Nat, lost: Nat, crashes: Nat]

TypeInductive == RowsTyped /\ DispatchTyped /\ HandlersTyped /\ OthersTyped

LEMMA IsTypeOK == TypeInductive => TypeOK
BY DEF TypeInductive, RowsTyped, DispatchTyped, HandlersTyped, OthersTyped, TypeOK

LEMMA TypeInit == Init => TypeInductive
<1> SUFFICES ASSUME Init PROVE TypeInductive
  OBVIOUS
<1>1. RowsTyped
  BY DEF Init, RowsTyped, QueuedMessage, SmsMessage, SmsStatuses, Timestamp
<1>2. DispatchTyped
  BY DEF Init, DispatchTyped, WaitingDispatch, Dispatch, DispatchPcs
<1>3. HandlersTyped
  BY DEF Init, HandlersTyped, IdleHandler, Handler, HandlerPcs
<1>4. OthersTyped
  BY DEF Init, OthersTyped, NoFaults
<1>5. QED
  BY <1>1, <1>2, <1>3, <1>4 DEF TypeInductive

LEMMA GotoDispatchType ==
    ASSUME DispatchTyped, NEW n \in 1 .. MaxRuns, NEW pc \in DispatchPcs,
           pc \in {"sending", "accepted"} => dispatch[n].message \in Messages,
           GotoDispatch(n, pc)
    PROVE  DispatchTyped'
BY DEF DispatchTyped, Dispatch, GotoDispatch

(* An acceptance appends a message to those of its provider. *)
LEMMA IssuedGrows ==
    ASSUME OthersTyped, NEW p \in Providers, NEW m \in Messages,
           issued' = [issued EXCEPT ![p] = Append(@, m)]
    PROVE  /\ issued' \in [Providers -> Seq(Messages)]
           /\ Len(issued[p]) \in Nat /\ Len(issued'[p]) = Len(issued[p]) + 1
           /\ issued'[p][Len(issued[p]) + 1] = m
           /\ \A q \in Providers : \A i \in 1 .. Len(issued[q]) :
                i \in 1 .. Len(issued'[q]) /\ issued'[q][i] = issued[q][i]
<1>1. issued[p] \in Seq(Messages)
  BY DEF OthersTyped
<1>2. /\ Append(issued[p], m) \in Seq(Messages)
      /\ Len(Append(issued[p], m)) = Len(issued[p]) + 1
      /\ \A i \in 1 .. Len(issued[p]) : Append(issued[p], m)[i] = issued[p][i]
      /\ Append(issued[p], m)[Len(issued[p]) + 1] = m
  BY <1>1, AppendProperties
<1>3. Len(issued[p]) \in Nat
  BY <1>1, LenProperties
<1>4. issued'[p] = Append(issued[p], m) /\ \A q \in Providers : q # p => issued'[q] = issued[q]
  BY DEF OthersTyped
<1>5. issued' \in [Providers -> Seq(Messages)]
  BY <1>2 DEF OthersTyped
<1>6. ASSUME NEW q \in Providers, NEW i \in 1 .. Len(issued[q])
      PROVE  i \in 1 .. Len(issued'[q]) /\ issued'[q][i] = issued[q][i]
  <2>1. CASE q = p
    BY <1>2, <1>3, <1>4, <2>1
  <2>2. CASE q # p
    BY <1>4, <2>2
  <2>3. QED
    BY <2>1, <2>2
<1>7. QED
  BY <1>2, <1>3, <1>4, <1>5, <1>6

LEMMA TypeDispatch ==
    ASSUME TypeInductive, NEW n \in 1 .. MaxRuns, DispatchStep(n) \/ DispatchDies(n)
    PROVE  TypeInductive'
<1>t. RowsTyped /\ DispatchTyped /\ HandlersTyped /\ OthersTyped
  BY DEF TypeInductive
<1>p. {"sending", "accepted", "over"} \subseteq DispatchPcs
  BY DEF DispatchPcs
<1>1. HandlersTyped'
  BY <1>t DEF DispatchStep, DispatchClaims, ProviderAccepts, RecordSent, RecordFatalFailure,
     DispatchDies, dispatchOnly, HandlersTyped
<1>2. CASE DispatchClaims(n)
  <2>1. PICK m \in Messages :
          \/ /\ SetRow(m, MarkProcessing(row[m]))
             /\ dispatch' = [dispatch EXCEPT ![n].pc = "sending", ![n].message = m]
          \/ GotoDispatch(n, "over") /\ UNCHANGED row
    BY <1>2 DEF DispatchClaims
  <2>2. RowsTyped'
    BY <1>t, <2>1, RowUpdates DEF RowsTyped, SetRow
  <2>3. DispatchTyped'
    <3>1. CASE GotoDispatch(n, "over")
      BY <1>t, <1>p, <3>1, GotoDispatchType
    <3>2. CASE dispatch' = [dispatch EXCEPT ![n].pc = "sending", ![n].message = m]
      BY <1>t, <1>p, <3>2 DEF DispatchTyped, Dispatch
    <3>3. QED
      BY <2>1, <3>1, <3>2
  <2>4. QED
    BY <1>1, <1>2, <1>t, <2>2, <2>3 DEF DispatchClaims, dispatchOnly, TypeInductive, OthersTyped
<1>3. CASE ProviderAccepts(n)
  <2>1. PICK p \in Providers :
          /\ issued' = [issued EXCEPT ![p] = Append(@, dispatch[n].message)]
          /\ \/ /\ dispatch' = [dispatch EXCEPT ![n].pc = "accepted", ![n].provider = p,
                                                ![n].pid = Len(issued[p]) + 1]
                /\ UNCHANGED faults
             \/ LoseAnswer /\ UNCHANGED dispatch
    BY <1>3 DEF ProviderAccepts
  <2>2. dispatch[n].message \in Messages
    BY <1>3, <1>t DEF ProviderAccepts, DispatchTyped
  <2>i. issued' = [issued EXCEPT ![p] = Append(@, dispatch[n].message)]
    BY <2>1
  <2>l. Len(issued[p]) \in Nat /\ issued' \in [Providers -> Seq(Messages)]
    BY <1>t, <2>i, <2>2, IssuedGrows
  <2>3. issued' \in [Providers -> Seq(Messages)] /\ Len(issued[p]) + 1 \in Nat
    BY <2>l
  <2>4. DispatchTyped'
    <3>1. CASE dispatch' = dispatch
      BY <1>t, <3>1 DEF DispatchTyped
    <3>2. CASE dispatch' = [dispatch EXCEPT ![n].pc = "accepted", ![n].provider = p,
                                            ![n].pid = Len(issued[p]) + 1]
      <4> DEFINE k == Len(issued[p]) + 1
      <4> HIDE DEF k
      <4>1. k \in Nat /\ dispatch' = [dispatch EXCEPT ![n].pc = "accepted",
                                                      ![n].provider = p, ![n].pid = k]
        BY <2>3, <3>2 DEF k
      <4> DEFINE d == [dispatch[n] EXCEPT !.pc = "accepted", !.provider = p, !.pid = k]
      <4>2. d \in Dispatch /\ d.message = dispatch[n].message
        BY <1>t, <1>p, <4>1 DEF DispatchTyped, Dispatch
      <4>3. dispatch' = [dispatch EXCEPT ![n] = d]
        BY <1>t, <4>1 DEF DispatchTyped
      <4> HIDE DEF d
      <4>4. QED
        BY <1>t, <2>2, <4>2, <4>3 DEF DispatchTyped
    <3>3. QED
      BY <2>1, <3>1, <3>2
  <2>f. faults' = faults \/ LoseAnswer
    BY <2>1
  <2>5. faults' \in [errors: Nat, lost: Nat, crashes: Nat]
    BY <1>t, <2>f DEF LoseAnswer, OthersTyped
  <2>6. QED
    BY <1>1, <1>3, <1>t, <2>3, <2>4, <2>5
       DEF ProviderAccepts, dispatchOnly, TypeInductive, RowsTyped, OthersTyped
<1>4. CASE RecordSent(n)
  <2>1. dispatch[n] \in Dispatch /\ dispatch[n].message \in Messages
    BY <1>4, <1>t DEF RecordSent, DispatchTyped
  <2>2. dispatch[n].provider \in Providers \cup {Null} /\ dispatch[n].pid \in Nat \cup {Null}
    BY <2>1 DEF Dispatch
  <2>3. RowsTyped'
    BY <1>4, <1>t, <2>1, <2>2, RowUpdates DEF RecordSent, SetRow, RowsTyped
  <2>4. DispatchTyped'
    BY <1>4, <1>t, <1>p, GotoDispatchType DEF RecordSent
  <2>5. QED
    BY <1>1, <1>4, <1>t, <2>3, <2>4 DEF RecordSent, dispatchOnly, TypeInductive, OthersTyped
<1>5. CASE RecordFatalFailure(n)
  <2>1. dispatch[n].message \in Messages
    BY <1>5, <1>t DEF RecordFatalFailure, DispatchTyped
  <2>2. RowsTyped'
    BY <1>5, <1>t, <2>1, RowUpdates DEF RecordFatalFailure, SetRow, RowsTyped
  <2>3. DispatchTyped'
    BY <1>5, <1>t, <1>p, GotoDispatchType DEF RecordFatalFailure
  <2>4. QED
    BY <1>1, <1>5, <1>t, <2>2, <2>3 DEF RecordFatalFailure, dispatchOnly, TypeInductive, OthersTyped
<1>6. CASE DispatchDies(n)
  <2>1. DispatchTyped'
    BY <1>6, <1>t, <1>p, GotoDispatchType DEF DispatchDies
  <2>2. QED
    BY <1>1, <1>6, <1>t, <2>1
       DEF DispatchDies, dispatchOnly, TypeInductive, RowsTyped, OthersTyped
<1>7. QED
  BY <1>2, <1>3, <1>4, <1>5, <1>6 DEF DispatchStep

(* The steps after which a callback goes on, returns or throws. *)
LEMMA GotoType ==
    ASSUME HandlersTyped, NEW h \in Handlers, NEW pc \in HandlerPcs, handler[h].pc # "idle",
           pc = "update" => handler[h].message \in Messages /\ StatusOf(handler[h].event) # Null,
           pc = "reread" => handler[h].pc = "update",
           pc = "find" => StatusOf(handler[h].event) # Null,
           Goto(h, pc)
    PROVE  HandlersTyped'
BY DEF HandlersTyped, Handler, Goto

LEMMA IdleType ==
    ASSUME HandlersTyped, NEW h \in Handlers,
           handler' = [handler EXCEPT ![h] = IdleHandler]
    PROVE  HandlersTyped'
BY DEF HandlersTyped, Handler, HandlerPcs, IdleHandler

LEMMA ThrowType ==
    ASSUME HandlersTyped, NEW h \in Handlers, handler[h].pc # "idle", Throw(h)
    PROVE  HandlersTyped'
<1>1. CASE handler' = [handler EXCEPT ![h] = IdleHandler]
  BY <1>1, IdleType
<1>2. CASE Goto(h, "releaseClaim")
  BY <1>2, GotoType DEF HandlerPcs
<1>3. handler[h] \in Handler
  BY DEF HandlersTyped
<1>4. \/ handler' = [handler EXCEPT ![h] = IdleHandler]
      \/ Goto(h, "releaseClaim")
  BY <1>3 DEF Throw, Goto, HandlersTyped
<1>5. QED
  BY <1>1, <1>2, <1>4

LEMMA TypeHandler ==
    ASSUME TypeInductive, NEW h \in Handlers, Receive(h) \/ HandlerStep(h) \/ HandlerDies(h)
    PROVE  TypeInductive'
<1>t. RowsTyped /\ DispatchTyped /\ HandlersTyped /\ OthersTyped
  BY DEF TypeInductive
<1>e. handler[h].pc # "idle" => handler[h].event \in Events
  BY <1>t DEF HandlersTyped
<1>0. DispatchTyped' /\ UNCHANGED issued
  BY <1>t DEF Receive, Deliver, HandlerStep, Claim, FindByProviderMessageId, ApplyStatus, Reread,
     ReleaseClaim, CallThrows, HandlerDies, handlerOnly, DispatchTyped
<1>r. ASSUME Return(h)
      PROVE  HandlersTyped' /\ retries' \subseteq Events
  BY <1>r, <1>t, IdleType DEF Return, OthersTyped
<1>f. ASSUME LoseAnswer
      PROVE  faults' \in [errors: Nat, lost: Nat, crashes: Nat]
  BY <1>f, <1>t DEF LoseAnswer, OthersTyped
<1>1. CASE Receive(h)
  <2>p. PICK p \in Providers : \E pid \in DOMAIN issued[p], report \in Reports[p] :
          Deliver(h, [provider |-> p, pid |-> pid, report |-> report])
    BY <1>1 DEF Receive
  <2>1. PICK pid \in DOMAIN issued[p], report \in Reports[p] :
          Deliver(h, [provider |-> p, pid |-> pid, report |-> report])
    BY <2>p
  <2> DEFINE e == [provider |-> p, pid |-> pid, report |-> report]
  <2>2. e \in Events
    <3>1. issued[p] \in Seq(Messages)
      BY <1>t DEF OthersTyped
    <3>2. pid \in Nat
      BY <3>1, LenProperties
    <3>3. QED
      BY <3>2 DEF Events
  <2> HIDE DEF e
  <2>3. HandlersTyped'
    <3>1. CASE handler' = handler
      BY <1>t, <3>1 DEF HandlersTyped
    <3>2. CASE handler' = [handler EXCEPT ![h] = [pc |-> "claim", event |-> e, message |-> Null]]
      BY <1>t, <2>2, <3>2 DEF HandlersTyped, Handler, HandlerPcs
    <3>3. CASE /\ StatusOf(e) # Null
               /\ handler' = [handler EXCEPT ![h] = [pc |-> "find", event |-> e, message |-> Null]]
      BY <1>t, <2>2, <3>3 DEF HandlersTyped, Handler, HandlerPcs
    <3>4. QED
      BY <2>1, <3>1, <3>2, <3>3 DEF Deliver, e
  <2>4. retries' \subseteq Events
    BY <1>t, <2>1, <2>2 DEF Deliver, OthersTyped, e
  <2>5. QED
    BY <1>0, <1>t, <2>1, <2>3, <2>4 DEF Deliver, TypeInductive, RowsTyped, OthersTyped
<1>2. CASE Claim(h)
  <2>1. handler[h].pc = "claim" /\ {"find"} \subseteq HandlerPcs
    BY <1>2 DEF Claim, HandlerPcs
  <2>2. HandlersTyped'
    BY <1>2, <1>r, <1>t, <2>1, GotoType, ThrowType DEF Claim
  <2>3. claims' \cup retries' \subseteq Events
    BY <1>2, <1>e, <1>r, <1>t, <2>1 DEF Claim, OthersTyped
  <2>4. faults' \in [errors: Nat, lost: Nat, crashes: Nat]
    BY <1>2, <1>f, <1>t DEF Claim, OthersTyped
  <2>5. QED
    BY <1>0, <1>2, <1>t, <2>2, <2>3, <2>4 DEF Claim, TypeInductive, RowsTyped, OthersTyped
<1>3. CASE FindByProviderMessageId(h)
  <2>1. CASE Return(h)
    BY <1>0, <1>3, <1>r, <1>t, <2>1
       DEF FindByProviderMessageId, TypeInductive, RowsTyped, OthersTyped
  <2>2. ASSUME NEW m \in Messages, handler' = [handler EXCEPT ![h].pc = "update", ![h].message = m]
        PROVE  HandlersTyped'
    BY <1>3, <1>t, <2>2 DEF FindByProviderMessageId, HandlersTyped, Handler, HandlerPcs
  <2>3. QED
    BY <1>0, <1>3, <1>t, <2>1, <2>2
       DEF FindByProviderMessageId, TypeInductive, RowsTyped, OthersTyped
<1>4. CASE ApplyStatus(h)
  <2>1. /\ handler[h].pc = "update" /\ "reread" \in HandlerPcs
        /\ handler[h].message \in Messages /\ StatusOf(handler[h].event) \in Reportable
    BY <1>4, <1>t, ReportableStatus DEF ApplyStatus, HandlersTyped, HandlerPcs
  <2>2. RowsTyped'
    BY <1>4, <1>t, <2>1, ApplyUpdates DEF ApplyStatus, SetRow, RowsTyped
  <2>3. HandlersTyped'
    BY <1>4, <1>r, <1>t, <2>1, GotoType, ThrowType DEF ApplyStatus
  <2>4. retries' \subseteq Events
    BY <1>4, <1>r, <1>t DEF ApplyStatus, OthersTyped
  <2>5. faults' \in [errors: Nat, lost: Nat, crashes: Nat]
    BY <1>4, <1>f, <1>t DEF ApplyStatus, OthersTyped
  <2>6. QED
    BY <1>0, <1>4, <1>t, <2>2, <2>3, <2>4, <2>5 DEF ApplyStatus, TypeInductive, OthersTyped
<1>5. CASE Reread(h)
  BY <1>0, <1>5, <1>r, <1>t DEF Reread, TypeInductive, RowsTyped, OthersTyped
<1>6. CASE ReleaseClaim(h)
  BY <1>0, <1>6, <1>t, IdleType DEF ReleaseClaim, TypeInductive, RowsTyped, OthersTyped
<1>7. CASE CallThrows(h)
  <2>1. HandlersTyped'
    BY <1>7, <1>t, ThrowType DEF CallThrows
  <2>2. QED
    BY <1>0, <1>7, <1>t, <2>1 DEF CallThrows, TypeInductive, RowsTyped, OthersTyped
<1>8. CASE HandlerDies(h)
  <2>1. HandlersTyped'
    BY <1>8, <1>t, IdleType DEF HandlerDies
  <2>2. QED
    BY <1>0, <1>8, <1>t, <2>1 DEF HandlerDies, TypeInductive, RowsTyped, OthersTyped
<1>9. QED
  BY <1>1, <1>2, <1>3, <1>4, <1>5, <1>6, <1>7, <1>8 DEF HandlerStep

LEMMA TypeStep == TypeInductive /\ [Next]_vars => TypeInductive'
<1> SUFFICES ASSUME TypeInductive, [Next]_vars
             PROVE  TypeInductive'
  OBVIOUS
<1>1. ASSUME NEW m \in Messages, Requeue(m)
      PROVE  TypeInductive'
  <2>1. RowsTyped'
    BY <1>1, RowUpdates DEF Requeue, SetRow, TypeInductive, RowsTyped
  <2>2. QED
    BY <1>1, <2>1
       DEF Requeue, dispatchOnly, TypeInductive, DispatchTyped, HandlersTyped, OthersTyped
<1>2. ASSUME NEW e \in claims, ClaimExpires(e)
      PROVE  TypeInductive'
  BY <1>2 DEF ClaimExpires, handlerOnly, TypeInductive, RowsTyped, DispatchTyped, HandlersTyped,
              OthersTyped
<1>3. CASE Rest \/ UNCHANGED vars
  BY <1>3 DEF Rest, vars, TypeInductive, RowsTyped, DispatchTyped, HandlersTyped, OthersTyped
<1>4. QED
  BY <1>1, <1>2, <1>3, TypeDispatch, TypeHandler DEF Next

LEMMA TypesKept == Spec => []TypeInductive
BY TypeInit, TypeStep, PTL DEF Spec

(***************************************************************************)
(* Every variable keeps its type: a callback that is about to write has a  *)
(* row, and a dispatch that is about to send or record has a message.      *)
(***************************************************************************)
THEOREM TypeCorrect == Spec => []TypeOK
BY TypesKept, IsTypeOK, PTL

-----------------------------------------------------------------------------
(* Rows, dispatches and callbacks agree. *)

RowAgrees(r) ==
    /\ r.deliveredAt = "set" <=> r.status = "DELIVERED"
    /\ r.failedAt = "set" <=> r.status \in DELIVERY_FAILURE_STATUSES \cup {"FATAL_FAILURE"}
    /\ r.sentAt = "set" <=> r.status \in Accepted
    /\ r.providerMessageId # Null <=> r.status \in Accepted

(* Provider p issued the id pid for message m. *)
IssuedFor(p, pid, m) == p \in Providers /\ pid \in 1 .. Len(issued[p]) /\ issued[p][pid] = m

Busy(n) == dispatch[n].pc \in {"sending", "accepted"}

(***************************************************************************)
(* A message that is being dispatched is PROCESSING and has one dispatch,  *)
(* so no other statement touches its row: requeues want FATAL_FAILURE, and *)
(* callbacks an accepted row. An accepted row never loses its id, which    *)
(* keeps what a callback found true until it writes.                       *)
(***************************************************************************)
RowsAgree ==
    \A m \in Messages :
        /\ RowAgrees(row[m])
        /\ row[m].status \in Accepted
            => IssuedFor(row[m].selectedProvider, row[m].providerMessageId, m)
DispatchesAgree ==
    /\ \A n \in 1 .. MaxRuns :
        /\ Busy(n) => row[dispatch[n].message].status = "PROCESSING"
        /\ dispatch[n].pc = "accepted"
            => IssuedFor(dispatch[n].provider, dispatch[n].pid, dispatch[n].message)
    /\ \A i, j \in 1 .. MaxRuns :
        Busy(i) /\ Busy(j) /\ dispatch[i].message = dispatch[j].message => i = j
CallbacksAgree ==
    \A h \in Handlers :
        handler[h].pc \in {"update", "reread"} =>
            /\ row[handler[h].message].status \in Accepted
            /\ RecordedAs(handler[h].message, handler[h].event)

DeliveryInductive == RowsAgree /\ DispatchesAgree /\ CallbacksAgree

LEMMA AgreeUpdates ==
    ASSUME NEW r \in SmsMessage, RowAgrees(r), NEW p \in Providers, NEW pid \in Nat
    PROVE  /\ r.status \in ClaimableStatuses => RowAgrees(MarkProcessing(r))
           /\ r.status = "PROCESSING" => RowAgrees(MarkSent(r, p, pid))
           /\ r.status = "PROCESSING" => RowAgrees(MarkFatalFailure(r, p))
           /\ r.status = "FATAL_FAILURE" => RowAgrees(TransitionFatalFailureToQueued(r))
<1>1. r.status \in ClaimableStatuses => RowAgrees(MarkProcessing(r))
  BY DEF RowAgrees, SmsMessage, MarkProcessing, ClaimableStatuses, Accepted,
     DELIVERY_TERMINAL_STATUSES, DELIVERY_FAILURE_STATUSES
<1>2. r.status = "PROCESSING" => RowAgrees(MarkSent(r, p, pid))
  BY NullAssumption DEF RowAgrees, SmsMessage, MarkSent, Accepted,
     DELIVERY_TERMINAL_STATUSES, DELIVERY_FAILURE_STATUSES
<1>3. r.status = "PROCESSING" => RowAgrees(MarkFatalFailure(r, p))
  BY DEF RowAgrees, SmsMessage, MarkFatalFailure, Accepted,
     DELIVERY_TERMINAL_STATUSES, DELIVERY_FAILURE_STATUSES
<1>4. r.status = "FATAL_FAILURE" => RowAgrees(TransitionFatalFailureToQueued(r))
  BY DEF RowAgrees, SmsMessage, TransitionFatalFailureToQueued, Accepted,
     DELIVERY_TERMINAL_STATUSES, DELIVERY_FAILURE_STATUSES
<1>5. QED
  BY <1>1, <1>2, <1>3, <1>4

LEMMA AgreeApply ==
    ASSUME NEW r \in SmsMessage, RowAgrees(r), r.status \in Accepted,
           NEW s \in Reportable, MayApplyDeliveryStatus(r, s)
    PROVE  /\ RowAgrees(ApplyDeliveryStatus(r, s))
           /\ ApplyDeliveryStatus(r, s).status = s
           /\ s \in DELIVERY_TERMINAL_STATUSES
           /\ r.status = "SENT" \/ (r.status \in DELIVERY_FAILURE_STATUSES /\ s = "DELIVERED")
           /\ ApplyDeliveryStatus(r, s).selectedProvider = r.selectedProvider
           /\ ApplyDeliveryStatus(r, s).providerMessageId = r.providerMessageId
<1>1. s # "SENT"
  BY DEF Accepted, MayApplyDeliveryStatus, AllowedPreviousStatusesFor,
         DELIVERY_TERMINAL_STATUSES, DELIVERY_FAILURE_STATUSES
<1>2. CASE s = "DELIVERED"
  BY <1>2 DEF RowAgrees, SmsMessage, ApplyDeliveryStatus, MayApplyDeliveryStatus,
     AllowedPreviousStatusesFor, Accepted, DELIVERY_TERMINAL_STATUSES, DELIVERY_FAILURE_STATUSES
<1>3. CASE s \in DELIVERY_FAILURE_STATUSES
  BY <1>3 DEF RowAgrees, SmsMessage, ApplyDeliveryStatus, MayApplyDeliveryStatus,
     AllowedPreviousStatusesFor, Accepted, DELIVERY_TERMINAL_STATUSES, DELIVERY_FAILURE_STATUSES
<1>4. QED
  BY <1>1, <1>2, <1>3 DEF Reportable, DELIVERY_TERMINAL_STATUSES

LEMMA NotAccepted ==
    /\ {"QUEUED", "PROCESSING", "FATAL_FAILURE"} \cap Accepted = {}
    /\ "SENT" \in Accepted /\ DELIVERY_TERMINAL_STATUSES \subseteq Accepted
    /\ ClaimableStatuses = {"QUEUED", "PROCESSING"}
BY DEF Accepted, DELIVERY_TERMINAL_STATUSES, DELIVERY_FAILURE_STATUSES, ClaimableStatuses

(* One row is rewritten by a statement that takes no id from an accepted row. *)
LEMMA OneRow ==
    ASSUME TypeInductive, DeliveryInductive, NEW m \in Messages, NEW r,
           SetRow(m, r), UNCHANGED issued, RowAgrees(r),
           r.status \in Accepted => IssuedFor(r.selectedProvider, r.providerMessageId, m),
           row[m].status \in Accepted =>
                /\ r.status \in Accepted
                /\ r.selectedProvider = row[m].selectedProvider
                /\ r.providerMessageId = row[m].providerMessageId
    PROVE  /\ RowsAgree'
           /\ UNCHANGED handler => CallbacksAgree'
<1>1. row'[m] = r /\ \A x \in Messages : x # m => row'[x] = row[x]
  BY DEF SetRow, TypeInductive, RowsTyped
<1>2. RowsAgree'
  BY <1>1 DEF DeliveryInductive, RowsAgree, IssuedFor
<1>3. ASSUME UNCHANGED handler
      PROVE  CallbacksAgree'
  BY <1>1, <1>3 DEF DeliveryInductive, CallbacksAgree, RecordedAs, TypeInductive, HandlersTyped
<1>4. QED
  BY <1>2, <1>3

(* A dispatch that is over no longer counts. *)
LEMMA DispatchEnds ==
    ASSUME TypeInductive, DeliveryInductive, NEW n \in 1 .. MaxRuns, GotoDispatch(n, "over"),
           UNCHANGED issued,
           \A i \in 1 .. MaxRuns : i # n /\ Busy(i)
                => row'[dispatch[i].message] = row[dispatch[i].message]
    PROVE  DispatchesAgree'
<1>1. /\ dispatch'[n].pc = "over"
      /\ \A i \in 1 .. MaxRuns : i # n => dispatch'[i] = dispatch[i]
  BY DEF GotoDispatch, TypeInductive, DispatchTyped, Dispatch
<1>2. QED
  BY <1>1 DEF DeliveryInductive, DispatchesAgree, Busy, IssuedFor

LEMMA AgreeDispatch ==
    ASSUME TypeInductive, DeliveryInductive, NEW n \in 1 .. MaxRuns,
           DispatchStep(n) \/ DispatchDies(n)
    PROVE  DeliveryInductive'
<1>t. /\ row \in [Messages -> SmsMessage] /\ dispatch \in [1 .. MaxRuns -> Dispatch]
      /\ \A i \in 1 .. MaxRuns : Busy(i) => dispatch[i].message \in Messages
  BY DEF TypeInductive, RowsTyped, DispatchTyped, Busy
<1>a. /\ \A m \in Messages : RowAgrees(row[m])
      /\ RowsAgree /\ DispatchesAgree /\ CallbacksAgree
  BY DEF DeliveryInductive, RowsAgree
<1>0. UNCHANGED handler
  BY DEF DispatchStep, DispatchClaims, ProviderAccepts, RecordSent, RecordFatalFailure,
     DispatchDies, dispatchOnly
<1>1. CASE DispatchClaims(n)
  <2>1. PICK m \in Messages :
          /\ ~Dispatching(m)
          /\ \/ /\ MayMarkProcessing(row[m])
                /\ SetRow(m, MarkProcessing(row[m]))
                /\ dispatch' = [dispatch EXCEPT ![n].pc = "sending", ![n].message = m]
             \/ GotoDispatch(n, "over") /\ UNCHANGED row
    BY <1>1 DEF DispatchClaims
  <2>2. UNCHANGED issued /\ dispatch[n].pc = "waiting"
    BY <1>1 DEF DispatchClaims
  <2>3. CASE GotoDispatch(n, "over") /\ UNCHANGED row
    <3>1. DispatchesAgree'
      BY <2>2, <2>3, DispatchEnds
    <3>2. QED
      BY <1>0, <1>a, <2>2, <2>3, <3>1
         DEF DeliveryInductive, RowsAgree, CallbacksAgree, RecordedAs, IssuedFor
  <2>4. CASE /\ MayMarkProcessing(row[m])
             /\ SetRow(m, MarkProcessing(row[m]))
             /\ dispatch' = [dispatch EXCEPT ![n].pc = "sending", ![n].message = m]
    <3>1. row[m].status \in ClaimableStatuses /\ row[m] \in SmsMessage
      BY <1>t, <2>4 DEF MayMarkProcessing
    <3>2. RowAgrees(MarkProcessing(row[m])) /\ MarkProcessing(row[m]).status = "PROCESSING"
      <4>1. RowAgrees(MarkProcessing(row[m]))
        BY <1>a, <3>1 DEF RowAgrees, SmsMessage, MarkProcessing, ClaimableStatuses, Accepted,
           DELIVERY_TERMINAL_STATUSES, DELIVERY_FAILURE_STATUSES
      <4>2. QED
        BY <3>1, <4>1 DEF MarkProcessing, SmsMessage
    <3>3. RowsAgree' /\ CallbacksAgree'
      BY <1>0, <2>2, <2>4, <3>1, <3>2, NotAccepted, OneRow
    <3>4. /\ dispatch'[n].pc = "sending" /\ dispatch'[n].message = m
          /\ \A i \in 1 .. MaxRuns : i # n => dispatch'[i] = dispatch[i]
      BY <1>t, <2>4 DEF Dispatch
    <3>5. row'[m].status = "PROCESSING" /\ \A x \in Messages : x # m => row'[x] = row[x]
      BY <1>t, <2>4, <3>2 DEF SetRow
    <3>6. \A i \in 1 .. MaxRuns : Busy(i) => dispatch[i].message # m
      BY <2>1 DEF Dispatching, Busy
    <3>7. DispatchesAgree'
      BY <1>a, <1>t, <2>2, <3>4, <3>5, <3>6 DEF DispatchesAgree, Busy, IssuedFor
    <3>8. QED
      BY <3>3, <3>7 DEF DeliveryInductive
  <2>5. QED
    BY <2>1, <2>3, <2>4
<1>2. CASE ProviderAccepts(n)
  <2> DEFINE m == dispatch[n].message
  <2>1. PICK p \in Providers :
          /\ issued' = [issued EXCEPT ![p] = Append(@, m)]
          /\ \/ dispatch' = [dispatch EXCEPT ![n].pc = "accepted", ![n].provider = p,
                                             ![n].pid = Len(issued[p]) + 1]
             \/ UNCHANGED dispatch
    BY <1>2 DEF ProviderAccepts
  <2>2. m \in Messages /\ Busy(n) /\ UNCHANGED row /\ OthersTyped
    BY <1>2, <1>t DEF ProviderAccepts, Busy, TypeInductive
  <2>i. issued' = [issued EXCEPT ![p] = Append(@, m)]
    BY <2>1
  <2> DEFINE k == Len(issued[p]) + 1
  <2>3. /\ k \in 1 .. Len(issued'[p]) /\ issued'[p][k] = m
        /\ \A q \in Providers : \A i \in 1 .. Len(issued[q]) :
              i \in 1 .. Len(issued'[q]) /\ issued'[q][i] = issued[q][i]
    <3>1. Len(issued[p]) \in Nat /\ Len(issued'[p]) = Len(issued[p]) + 1
      BY <2>2, <2>i, IssuedGrows
    <3>2. issued'[p][k] = m
      BY <2>2, <2>i, IssuedGrows
    <3>3. \A q \in Providers : \A i \in 1 .. Len(issued[q]) :
              i \in 1 .. Len(issued'[q]) /\ issued'[q][i] = issued[q][i]
      BY <2>2, <2>i, IssuedGrows
    <3>4. QED
      BY <3>1, <3>2, <3>3
  <2> HIDE DEF k
  <2>4. \A q, i, x : IssuedFor(q, i, x) => IssuedFor(q, i, x)'
    BY <2>3 DEF IssuedFor
  <2>5. RowsAgree' /\ CallbacksAgree'
    BY <1>0, <1>a, <2>2, <2>4 DEF RowsAgree, CallbacksAgree, RecordedAs
  <2>6. CASE UNCHANGED dispatch
    BY <1>a, <2>2, <2>4, <2>5, <2>6 DEF DispatchesAgree, Busy, DeliveryInductive
  <2>7. CASE dispatch' = [dispatch EXCEPT ![n].pc = "accepted", ![n].provider = p, ![n].pid = k]
    <3>1. dispatch[n] \in Dispatch
      BY <1>t
    <3>2. /\ dispatch'[n] = [dispatch[n] EXCEPT !.pc = "accepted", !.provider = p, !.pid = k]
          /\ \A i \in 1 .. MaxRuns : i # n => dispatch'[i] = dispatch[i]
      BY <1>t, <2>7
    <3>3. /\ dispatch'[n].pc = "accepted" /\ dispatch'[n].provider = p /\ dispatch'[n].pid = k
          /\ dispatch'[n].message = m
      BY <3>1, <3>2 DEF Dispatch
    <3>4. IssuedFor(dispatch[n].provider, dispatch[n].pid, dispatch[n].message)'
      BY <2>3, <3>3 DEF IssuedFor
    <3>o. \A i \in 1 .. MaxRuns :
            (Busy(i)' => Busy(i)) /\ dispatch'[i].message = dispatch[i].message
      BY <2>2, <3>2, <3>3 DEF Busy
    <3>a. \A i \in 1 .. MaxRuns : Busy(i)' => row'[dispatch'[i].message].status = "PROCESSING"
      BY <1>a, <2>2, <3>o DEF DispatchesAgree
    <3>b. ASSUME NEW i \in 1 .. MaxRuns, dispatch'[i].pc = "accepted"
          PROVE  IssuedFor(dispatch[i].provider, dispatch[i].pid, dispatch[i].message)'
      <4>1. CASE i = n
        BY <3>4, <4>1
      <4>2. CASE i # n
        <5>1. IssuedFor(dispatch[i].provider, dispatch[i].pid, dispatch[i].message)
          BY <1>a, <3>2, <3>b, <4>2 DEF DispatchesAgree
        <5>2. dispatch'[i] = dispatch[i]
          BY <3>2, <4>2
        <5>3. QED
          BY <2>4, <5>1, <5>2 DEF IssuedFor
      <4>3. QED
        BY <4>1, <4>2
    <3>c. \A i, j \in 1 .. MaxRuns :
            Busy(i)' /\ Busy(j)' /\ dispatch'[i].message = dispatch'[j].message => i = j
      BY <1>a, <3>o DEF DispatchesAgree
    <3>5. DispatchesAgree'
      BY <3>a, <3>b, <3>c DEF DispatchesAgree
    <3>6. QED
      BY <2>5, <3>5 DEF DeliveryInductive
  <2>8. QED
    BY <2>1, <2>6, <2>7 DEF k
<1>3. CASE RecordSent(n)
  <2> DEFINE d == dispatch[n]
             m == d.message
             r == MarkSent(row[m], d.provider, d.pid)
  <2>1. /\ Busy(n) /\ m \in Messages /\ row[m].status = "PROCESSING" /\ row[m] \in SmsMessage
        /\ IssuedFor(d.provider, d.pid, m)
    BY <1>3, <1>a, <1>t DEF RecordSent, Busy, DispatchesAgree
  <2>2. SetRow(m, r) /\ GotoDispatch(n, "over") /\ UNCHANGED issued
    BY <1>3 DEF RecordSent
  <2>3. d.provider \in Providers /\ d.pid \in Nat
    BY <2>1 DEF IssuedFor
  <2>4. RowAgrees(r)
    BY <1>a, <2>1, <2>3, AgreeUpdates
  <2>5. r.status = "SENT" /\ r.selectedProvider = d.provider /\ r.providerMessageId = d.pid
    BY <2>1 DEF MarkSent, SmsMessage
  <2> HIDE DEF r
  <2>6. RowsAgree' /\ CallbacksAgree'
    BY <1>0, <2>1, <2>2, <2>4, <2>5, NotAccepted, OneRow
  <2>7. \A i \in 1 .. MaxRuns : i # n /\ Busy(i)
                => row'[dispatch[i].message] = row[dispatch[i].message]
    BY <1>a, <1>t, <2>1, <2>2 DEF DispatchesAgree, SetRow
  <2>8. QED
    BY <2>2, <2>6, <2>7, DispatchEnds DEF DeliveryInductive
<1>4. CASE RecordFatalFailure(n)
  <2> DEFINE m == dispatch[n].message
  <2>1. Busy(n) /\ m \in Messages /\ row[m].status = "PROCESSING" /\ row[m] \in SmsMessage
    BY <1>4, <1>a, <1>t DEF RecordFatalFailure, Busy, DispatchesAgree
  <2>2. PICK p \in Providers : SetRow(m, MarkFatalFailure(row[m], p))
    BY <1>4 DEF RecordFatalFailure
  <2>3. GotoDispatch(n, "over") /\ UNCHANGED issued
    BY <1>4 DEF RecordFatalFailure
  <2>4. /\ RowAgrees(MarkFatalFailure(row[m], p))
        /\ MarkFatalFailure(row[m], p).status = "FATAL_FAILURE"
    <3>1. 0 \in Nat
      OBVIOUS
    <3>2. RowAgrees(MarkFatalFailure(row[m], p))
      BY <1>a, <2>1, <3>1, AgreeUpdates
    <3>3. QED
      BY <2>1, <3>2 DEF MarkFatalFailure, SmsMessage
  <2>5. RowsAgree' /\ CallbacksAgree'
    BY <1>0, <2>1, <2>2, <2>3, <2>4, NotAccepted, OneRow
  <2>6. \A i \in 1 .. MaxRuns : i # n /\ Busy(i)
                => row'[dispatch[i].message] = row[dispatch[i].message]
    BY <1>a, <1>t, <2>1, <2>2 DEF DispatchesAgree, SetRow
  <2>7. QED
    BY <2>3, <2>5, <2>6, DispatchEnds DEF DeliveryInductive
<1>5. CASE DispatchDies(n)
  <2>1. GotoDispatch(n, "over") /\ UNCHANGED <<row, issued>>
    BY <1>5 DEF DispatchDies
  <2>2. DispatchesAgree'
    BY <2>1, DispatchEnds
  <2>3. QED
    BY <1>0, <1>a, <2>1, <2>2
       DEF DeliveryInductive, RowsAgree, CallbacksAgree, RecordedAs, IssuedFor
<1>6. QED
  BY <1>1, <1>2, <1>3, <1>4, <1>5 DEF DispatchStep

(* What a callback handler does to the row it found. *)
LEMMA ApplyRow ==
    ASSUME TypeInductive, DeliveryInductive, NEW h \in Handlers, ApplyStatus(h),
           row' # row
    PROVE  LET m == handler[h].message
               s == StatusOf(handler[h].event)
               r == ApplyDeliveryStatus(row[m], s) IN
           /\ m \in Messages /\ row[m] \in SmsMessage
           /\ row[m].status \in Accepted /\ SetRow(m, r) /\ RowAgrees(r)
           /\ r.status = s /\ s \in DELIVERY_TERMINAL_STATUSES
           /\ row[m].status = "SENT"
                \/ (row[m].status \in DELIVERY_FAILURE_STATUSES /\ s = "DELIVERED")
           /\ r.selectedProvider = row[m].selectedProvider
           /\ r.providerMessageId = row[m].providerMessageId
<1> DEFINE m == handler[h].message
           s == StatusOf(handler[h].event)
<1>1. handler[h].pc = "update" /\ MayApplyDeliveryStatus(row[m], s)
      /\ SetRow(m, ApplyDeliveryStatus(row[m], s))
  BY DEF ApplyStatus
<1>2. m \in Messages /\ s \in Reportable
  BY <1>1, ReportableStatus DEF TypeInductive, HandlersTyped
<1>3. row[m] \in SmsMessage /\ row[m].status \in Accepted /\ RowAgrees(row[m])
  BY <1>1, <1>2 DEF TypeInductive, RowsTyped, DeliveryInductive, CallbacksAgree, RowsAgree
<1>4. QED
  BY <1>1, <1>2, <1>3, AgreeApply

(* A handler that stops, throws or goes on to an earlier call finds nothing new. *)
LEMMA CallbackLeaves ==
    ASSUME TypeInductive, NEW h \in Handlers,
           \/ Return(h) \/ Throw(h)
           \/ \E pc \in {"find"} : Goto(h, pc)
           \/ handler' = [handler EXCEPT ![h] = IdleHandler]
           \/ UNCHANGED handler
           \/ \E pc \in {"claim", "find"}, e \in Events :
                handler' = [handler EXCEPT ![h] = [pc |-> pc, event |-> e, message |-> Null]]
    PROVE  \A g \in Handlers :
              handler'[g].pc \in {"update", "reread"} => handler'[g] = handler[g]
<1>1. handler \in [Handlers -> Handler]
  BY DEF TypeInductive, HandlersTyped
<1>2. \A g \in Handlers : g # h => handler'[g] = handler[g]
  BY <1>1 DEF Return, Throw, Goto
<1>3. handler'[h].pc \in {"update", "reread"} => handler'[h] = handler[h]
  <2>1. CASE Return(h) \/ handler' = [handler EXCEPT ![h] = IdleHandler]
    BY <1>1, <2>1 DEF Return, IdleHandler
  <2>2. CASE Throw(h)
    BY <1>1, <2>2 DEF Throw, IdleHandler, Handler
  <2>3. CASE Goto(h, "find")
    BY <1>1, <2>3 DEF Goto, Handler
  <2>4. CASE \E pc \in {"claim", "find"}, e \in Events :
                handler' = [handler EXCEPT ![h] = [pc |-> pc, event |-> e, message |-> Null]]
    BY <1>1, <2>4
  <2>5. QED
    BY <2>1, <2>2, <2>3, <2>4
<1>4. QED
  BY <1>2, <1>3

LEMMA AgreeHandler ==
    ASSUME TypeInductive, DeliveryInductive, NEW h \in Handlers,
           Receive(h) \/ HandlerStep(h) \/ HandlerDies(h)
    PROVE  DeliveryInductive'
<1>a. RowsAgree /\ DispatchesAgree /\ CallbacksAgree
  BY DEF DeliveryInductive
<1>t. handler \in [Handlers -> Handler]
  BY DEF TypeInductive, HandlersTyped
<1>u. UNCHANGED <<dispatch, issued>>
  BY DEF Receive, Deliver, HandlerStep, Claim, FindByProviderMessageId, ApplyStatus, Reread,
     ReleaseClaim, CallThrows, HandlerDies, handlerOnly
<1>r. ASSUME UNCHANGED row, \A g \in Handlers :
                handler'[g].pc \in {"update", "reread"} => handler'[g] = handler[g]
      PROVE  DeliveryInductive'
  BY <1>a, <1>u, <1>r DEF DeliveryInductive, RowsAgree, DispatchesAgree, CallbacksAgree,
     RecordedAs, IssuedFor, Busy
<1>1. CASE Receive(h)
  <2>p. PICK p \in Providers : \E pid \in DOMAIN issued[p], report \in Reports[p] :
          Deliver(h, [provider |-> p, pid |-> pid, report |-> report])
    BY <1>1 DEF Receive
  <2>1. PICK pid \in DOMAIN issued[p], report \in Reports[p] :
          Deliver(h, [provider |-> p, pid |-> pid, report |-> report])
    BY <2>p
  <2> DEFINE e == [provider |-> p, pid |-> pid, report |-> report]
  <2> HIDE DEF e
  <2>2. UNCHANGED row
    BY <2>1 DEF Deliver
  <2>3. \/ UNCHANGED handler
        \/ \E pc \in {"claim", "find"} :
              handler' = [handler EXCEPT ![h] = [pc |-> pc, event |-> e, message |-> Null]]
    BY <2>1 DEF Deliver, e
  <2>4. \A g \in Handlers :
           handler'[g].pc \in {"update", "reread"} => handler'[g] = handler[g]
    BY <1>t, <2>3
  <2>5. QED
    BY <1>r, <2>2, <2>4
<1>2. CASE Claim(h) \/ Reread(h) \/ ReleaseClaim(h) \/ CallThrows(h) \/ HandlerDies(h)
  <2>1. UNCHANGED row
    BY <1>2 DEF Claim, Reread, ReleaseClaim, CallThrows, HandlerDies
  <2>2. \/ Return(h) \/ Throw(h) \/ Goto(h, "find")
        \/ handler' = [handler EXCEPT ![h] = IdleHandler]
    BY <1>2 DEF Claim, Reread, ReleaseClaim, CallThrows, HandlerDies
  <2>3. \A g \in Handlers :
           handler'[g].pc \in {"update", "reread"} => handler'[g] = handler[g]
    BY <2>2, CallbackLeaves
  <2>4. QED
    BY <1>r, <2>1, <2>3
<1>3. CASE FindByProviderMessageId(h)
  <2>1. UNCHANGED row
    BY <1>3 DEF FindByProviderMessageId
  <2>2. CASE Return(h)
    BY <1>r, <2>1, <2>2, CallbackLeaves
  <2>3. CASE \E m \in Messages :
                /\ RecordedAs(m, handler[h].event)
                /\ handler' = [handler EXCEPT ![h].pc = "update", ![h].message = m]
    <3>1. PICK m \in Messages :
                /\ RecordedAs(m, handler[h].event)
                /\ handler' = [handler EXCEPT ![h].pc = "update", ![h].message = m]
      BY <2>3
    <3>2. /\ handler'[h].message = m /\ handler'[h].event = handler[h].event
          /\ \A g \in Handlers : g # h => handler'[g] = handler[g]
      BY <1>t, <3>1 DEF Handler
    <3>3. row[m].status \in Accepted
      <4>1. handler[h].event \in Events
        BY <1>3 DEF FindByProviderMessageId, TypeInductive, HandlersTyped
      <4>2. row[m].providerMessageId # Null
        BY <3>1, <4>1, NullAssumption DEF RecordedAs, Events
      <4>3. QED
        BY <1>a, <4>2 DEF RowsAgree, RowAgrees
    <3>4. CallbacksAgree'
      BY <1>a, <2>1, <3>1, <3>2, <3>3 DEF CallbacksAgree, RecordedAs
    <3>5. QED
      BY <1>a, <1>u, <2>1, <3>4 DEF DeliveryInductive, RowsAgree, DispatchesAgree, IssuedFor, Busy
  <2>4. QED
    BY <1>3, <2>2, <2>3 DEF FindByProviderMessageId, RecordedAs
<1>4. CASE ApplyStatus(h)
  <2> DEFINE m == handler[h].message
             r == ApplyDeliveryStatus(row[m], StatusOf(handler[h].event))
  <2>0. handler[h].pc = "update" /\ m \in Messages /\ row[m].status \in Accepted
    BY <1>4, <1>a DEF ApplyStatus, TypeInductive, HandlersTyped, CallbacksAgree
  <2>1. \A g \in Handlers : handler'[g].pc \in {"update", "reread"}
           => /\ handler[g].pc \in {"update", "reread"}
              /\ handler'[g].message = handler[g].message /\ handler'[g].event = handler[g].event
    <3>1. CASE Return(h) \/ Throw(h)
      BY <3>1, CallbackLeaves
    <3>2. CASE Goto(h, "reread")
      BY <1>t, <2>0, <3>2 DEF Goto, Handler
    <3>3. QED
      BY <1>4, <3>1, <3>2 DEF ApplyStatus
  <2>2. CASE UNCHANGED row
    BY <1>a, <1>u, <2>1, <2>2
       DEF DeliveryInductive, RowsAgree, DispatchesAgree, CallbacksAgree, RecordedAs, IssuedFor,
           Busy
  <2>3. CASE row' # row
    <3>1. /\ row[m].status \in Accepted /\ SetRow(m, r) /\ RowAgrees(r) /\ r.status \in Accepted
          /\ r.selectedProvider = row[m].selectedProvider
          /\ r.providerMessageId = row[m].providerMessageId
      BY <1>4, <2>3, ApplyRow, NotAccepted
    <3> HIDE DEF r
    <3>2. IssuedFor(r.selectedProvider, r.providerMessageId, m)
      BY <1>a, <2>0, <3>1 DEF RowsAgree
    <3>3. RowsAgree'
      BY <1>u, <2>0, <3>1, <3>2, OneRow
    <3>4. row'[m] = r /\ \A x \in Messages : x # m => row'[x] = row[x]
      BY <2>0, <3>1 DEF SetRow, TypeInductive, RowsTyped
    <3>5. CallbacksAgree'
      BY <1>a, <2>1, <3>1, <3>4 DEF CallbacksAgree, RecordedAs, TypeInductive, HandlersTyped
    <3>6. \A i \in 1 .. MaxRuns :
            Busy(i) => dispatch[i].message # m /\ dispatch[i].message \in Messages
      BY <1>a, <3>1, NotAccepted DEF DispatchesAgree, Busy, TypeInductive, DispatchTyped
    <3>7. DispatchesAgree'
      BY <1>a, <1>u, <3>4, <3>6 DEF DispatchesAgree, Busy, IssuedFor
    <3>8. QED
      BY <3>3, <3>5, <3>7 DEF DeliveryInductive
  <2>4. QED
    BY <2>2, <2>3
<1>5. QED
  BY <1>1, <1>2, <1>3, <1>4 DEF HandlerStep

LEMMA AgreeRequeue ==
    ASSUME TypeInductive, DeliveryInductive, NEW m \in Messages, Requeue(m)
    PROVE  DeliveryInductive'
<1> DEFINE r == TransitionFatalFailureToQueued(row[m])
<1>a. RowsAgree /\ DispatchesAgree /\ RowAgrees(row[m])
  BY DEF DeliveryInductive, RowsAgree
<1>1. /\ row[m].status = "FATAL_FAILURE" /\ SetRow(m, r) /\ row[m] \in SmsMessage
      /\ UNCHANGED <<dispatch, issued, handler>>
  BY DEF Requeue, MayTransitionToQueued, dispatchOnly, TypeInductive, RowsTyped
<1>2. RowAgrees(r) /\ r.status = "QUEUED"
  BY <1>1, <1>a DEF RowAgrees, SmsMessage, TransitionFatalFailureToQueued, Accepted,
     DELIVERY_TERMINAL_STATUSES, DELIVERY_FAILURE_STATUSES
<1> HIDE DEF r
<1>3. RowsAgree' /\ CallbacksAgree'
  BY <1>1, <1>2, NotAccepted, OneRow
<1>4. \A i \in 1 .. MaxRuns : Busy(i) => row'[dispatch[i].message] = row[dispatch[i].message]
  BY <1>a, <1>1 DEF DispatchesAgree, SetRow, TypeInductive, RowsTyped, DispatchTyped, Busy
<1>5. DispatchesAgree'
  BY <1>a, <1>1, <1>4 DEF DispatchesAgree, Busy, IssuedFor
<1>6. QED
  BY <1>3, <1>5 DEF DeliveryInductive

LEMMA DeliveryInit == Init => DeliveryInductive
<1> SUFFICES ASSUME Init PROVE DeliveryInductive
  OBVIOUS
<1>1. RowsAgree
  BY DEF Init, RowsAgree, RowAgrees, QueuedMessage, Accepted, DELIVERY_TERMINAL_STATUSES,
     DELIVERY_FAILURE_STATUSES
<1>2. DispatchesAgree /\ CallbacksAgree
  BY DEF Init, DispatchesAgree, CallbacksAgree, Busy, WaitingDispatch, IdleHandler
<1>3. QED
  BY <1>1, <1>2 DEF DeliveryInductive

LEMMA DeliveryStep == TypeInductive /\ DeliveryInductive /\ [Next]_vars => DeliveryInductive'
<1> SUFFICES ASSUME TypeInductive, DeliveryInductive, [Next]_vars
             PROVE  DeliveryInductive'
  OBVIOUS
<1>1. CASE Rest \/ UNCHANGED vars \/ \E e \in claims : ClaimExpires(e)
  BY <1>1 DEF Rest, vars, ClaimExpires, handlerOnly, DeliveryInductive, RowsAgree,
     DispatchesAgree, CallbacksAgree, RecordedAs, IssuedFor, Busy
<1>2. QED
  BY <1>1, AgreeDispatch, AgreeHandler, AgreeRequeue DEF Next

LEMMA DeliveryAgrees == Spec => [](TypeInductive /\ DeliveryInductive)
BY TypesKept, DeliveryInit, DeliveryStep, PTL DEF Spec

(***************************************************************************)
(* Timestamps and external id agree with the status, whatever callbacks    *)
(* arrive between the statements of the send flow.                         *)
(***************************************************************************)
THEOREM OutcomesAgree == Spec => []OutcomeAgrees
<1>1. DeliveryInductive => OutcomeAgrees
  BY DEF DeliveryInductive, RowsAgree, RowAgrees, OutcomeAgrees
<1>2. QED
  BY <1>1, DeliveryAgrees, PTL

(***************************************************************************)
(* A callback that is about to write holds the row of the message its      *)
(* report is about, however long ago it found it.                          *)
(***************************************************************************)
THEOREM CallbacksFindTheirMessage == Spec => []CallbackHitsItsMessage
<1>1. TypeInductive /\ DeliveryInductive => CallbackHitsItsMessage
  BY DEF TypeInductive, HandlersTyped, DeliveryInductive, RowsAgree, CallbacksAgree, RecordedAs,
     IssuedFor, CallbackHitsItsMessage, Subject
<1>2. QED
  BY <1>1, DeliveryAgrees, PTL

(* And that row still carries the id of the report when it is written. *)
THEOREM CallbacksFindTheirSend == Spec => CallbackHitsItsSend
<1> DEFINE A == \A h \in Handlers :
        LET m == handler[h].message IN
        handler[h].pc = "update" /\ handler'[h] # handler[h] /\ row'[m] # row[m]
            => RecordedAs(m, handler[h].event)
<1>1. DeliveryInductive => A
  BY DEF DeliveryInductive, CallbacksAgree
<1>2. QED
  BY <1>1, DeliveryAgrees, PTL DEF CallbackHitsItsSend

-----------------------------------------------------------------------------
(* The refinement. *)

Statuses == [m \in Messages |-> row[m].status]

(* A row that is rewritten moves its message, and no other. *)
LEMMA RowMoves ==
    ASSUME RowsTyped, NEW m \in Messages, NEW r, SetRow(m, r)
    PROVE  /\ Statuses' = [Statuses EXCEPT ![m] = r.status]
           /\ Statuses[m] = row[m].status
           /\ r.status = row[m].status => Statuses' = Statuses
BY DEF RowsTyped, SetRow, Statuses

LEMMA StatusStep ==
    ASSUME TypeInductive, DeliveryInductive, [Next]_vars
    PROVE  [Delivery!DeliveryNext]_Statuses
<1>t. RowsTyped /\ DispatchesAgree
  BY DEF TypeInductive, DeliveryInductive
<1>m. ASSUME NEW m \in Messages, NEW r, SetRow(m, r),
             \/ r.status = row[m].status
             \/ row[m].status = "QUEUED" /\ r.status = "PROCESSING"
             \/ row[m].status = "PROCESSING" /\ r.status \in {"SENT", "FATAL_FAILURE"}
             \/ row[m].status = "FATAL_FAILURE" /\ r.status = "QUEUED"
             \/ row[m].status = "SENT" /\ r.status \in DELIVERY_TERMINAL_STATUSES
             \/ row[m].status \in DELIVERY_FAILURE_STATUSES /\ r.status = "DELIVERED"
      PROVE  [Delivery!DeliveryNext]_Statuses
  <2>1. /\ Statuses' = [Statuses EXCEPT ![m] = r.status] /\ Statuses[m] = row[m].status
        /\ r.status = row[m].status => Statuses' = Statuses
    BY <1>m, <1>t, RowMoves
  <2>2. CASE row[m].status = "QUEUED" /\ r.status = "PROCESSING"
    BY <2>1, <2>2 DEF Statuses, Delivery!DeliveryNext, Delivery!Next, Delivery!Claim, Delivery!Move
  <2>3. CASE row[m].status = "PROCESSING" /\ r.status \in {"SENT", "FATAL_FAILURE"}
    BY <2>1, <2>3 DEF Statuses, Delivery!DeliveryNext, Delivery!Next, Delivery!Send,
       Delivery!Exhaust, Delivery!Move
  <2>4. CASE row[m].status = "FATAL_FAILURE" /\ r.status = "QUEUED"
    BY <2>1, <2>4 DEF Statuses, Delivery!DeliveryNext, Delivery!Next, Delivery!Requeue,
       Delivery!Move
  <2>5. CASE row[m].status = "SENT" /\ r.status \in DELIVERY_TERMINAL_STATUSES
    BY <2>1, <2>5 DEF Statuses, Delivery!DeliveryNext, Delivery!Settle, Delivery!Move,
       Delivery!Failures, DELIVERY_TERMINAL_STATUSES, DELIVERY_FAILURE_STATUSES
  <2>6. CASE row[m].status \in DELIVERY_FAILURE_STATUSES /\ r.status = "DELIVERED"
    BY <2>1, <2>6 DEF Statuses, Delivery!DeliveryNext, Delivery!Upgrade, Delivery!Move,
       Delivery!Failures, DELIVERY_FAILURE_STATUSES
  <2>7. QED
    BY <1>m, <2>1, <2>2, <2>3, <2>4, <2>5, <2>6
<1>u. UNCHANGED row => UNCHANGED Statuses
  BY DEF Statuses
<1>1. ASSUME NEW n \in 1 .. MaxRuns, DispatchStep(n) \/ DispatchDies(n)
      PROVE  [Delivery!DeliveryNext]_Statuses
  <2>1. CASE DispatchClaims(n)
    <3>1. CASE UNCHANGED row
      BY <1>u, <3>1
    <3>2. ASSUME NEW m \in Messages, MayMarkProcessing(row[m]), SetRow(m, MarkProcessing(row[m]))
          PROVE  [Delivery!DeliveryNext]_Statuses
      <4>1. row[m] \in SmsMessage /\ row[m].status \in {"QUEUED", "PROCESSING"}
        BY <1>t, <3>2 DEF RowsTyped, MayMarkProcessing, ClaimableStatuses
      <4>2. MarkProcessing(row[m]).status = "PROCESSING"
        BY <4>1 DEF MarkProcessing, SmsMessage
      <4>3. QED
        BY <1>m, <3>2, <4>1, <4>2
    <3>3. QED
      BY <2>1, <3>1, <3>2 DEF DispatchClaims
  <2>2. CASE RecordSent(n) \/ RecordFatalFailure(n)
    <3> DEFINE m == dispatch[n].message
    <3>1. m \in Messages /\ row[m].status = "PROCESSING" /\ row[m] \in SmsMessage
      BY <1>t, <2>2 DEF RecordSent, RecordFatalFailure, DispatchesAgree, Busy, TypeInductive,
         DispatchTyped, RowsTyped
    <3>2. \A p, pid : MarkSent(row[m], p, pid).status = "SENT"
                        /\ MarkFatalFailure(row[m], p).status = "FATAL_FAILURE"
      BY <3>1 DEF MarkSent, MarkFatalFailure, SmsMessage
    <3>3. CASE RecordSent(n)
      BY <1>m, <3>1, <3>2, <3>3 DEF RecordSent
    <3>4. CASE RecordFatalFailure(n)
      BY <1>m, <3>1, <3>2, <3>4 DEF RecordFatalFailure
    <3>5. QED
      BY <2>2, <3>3, <3>4
  <2>3. CASE ProviderAccepts(n) \/ DispatchDies(n)
    BY <1>u, <2>3 DEF ProviderAccepts, DispatchDies
  <2>4. QED
    BY <1>1, <2>1, <2>2, <2>3 DEF DispatchStep
<1>2. ASSUME NEW m \in Messages, Requeue(m)
      PROVE  [Delivery!DeliveryNext]_Statuses
  <2>1. /\ row[m].status = "FATAL_FAILURE" /\ row[m] \in SmsMessage
        /\ SetRow(m, TransitionFatalFailureToQueued(row[m]))
    BY <1>2, <1>t DEF Requeue, MayTransitionToQueued, RowsTyped
  <2>2. TransitionFatalFailureToQueued(row[m]).status = "QUEUED"
    BY <2>1 DEF TransitionFatalFailureToQueued, SmsMessage
  <2>3. QED
    BY <1>m, <2>1, <2>2
<1>3. ASSUME NEW h \in Handlers, ApplyStatus(h)
      PROVE  [Delivery!DeliveryNext]_Statuses
  <2>1. CASE UNCHANGED row
    BY <1>u, <2>1
  <2>2. CASE row' # row
    BY <1>3, <1>m, <2>2, ApplyRow
  <2>3. QED
    BY <2>1, <2>2
<1>4. ASSUME NEW h \in Handlers, Receive(h) \/ HandlerStep(h) \/ HandlerDies(h), ~ApplyStatus(h)
      PROVE  [Delivery!DeliveryNext]_Statuses
  BY <1>4, <1>u DEF Receive, Deliver, HandlerStep, Claim, FindByProviderMessageId, Reread,
     ReleaseClaim, CallThrows, HandlerDies
<1>5. CASE Rest \/ UNCHANGED vars \/ \E e \in claims : ClaimExpires(e)
  BY <1>5, <1>u DEF Rest, vars, ClaimExpires
<1>6. QED
  BY <1>1, <1>2, <1>3, <1>4, <1>5 DEF Next

(***************************************************************************)
(* Whatever is reported, repeated, reordered, lost and requeued, the       *)
(* status of a message moves as in DeliveryLifecycle.                      *)
(***************************************************************************)
THEOREM LifecycleRefined == Spec => DeliveryImplemented
<1>1. Init => Delivery!Init
  BY DEF Init, Delivery!Init, QueuedMessage
<1>2. TypeInductive /\ DeliveryInductive /\ [Next]_vars
        => [Delivery!DeliveryNext]_[m \in Messages |-> row[m].status]
  BY StatusStep DEF Statuses
<1>3. QED
  BY <1>1, <1>2, DeliveryAgrees, PTL DEF Spec, DeliveryImplemented, Delivery!DeliverySpec
=============================================================================
