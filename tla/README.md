# TLA+ models of the SMS notification service

These modules specify the service under `src/`: what happens to an SMS between
`POST /sms/send` and the last delivery report of its provider. TLC checks them on
small instances; TLAPS proves every safety property of the passing runs for all
instances, five of them under a condition that section 4 names. `README.md:<line>`
below, and in the comments of the modules, is the README of the repository
(`src/README.md`); paths without a prefix are under `src/src/modules/`.

## 1. The system

| Component | Source | State | Operations | Model |
|---|---|---|---|---|
| Message table | `sms/entities`, the UPDATEs of `sms/services/sms.service.ts` | one row per message in PostgreSQL | insert, markProcessing, incrementAttempts, markSent, markFatalFailure, requeue transition and restore, applyDeliveryStatus | `SmsMessages`, `SmsStatus` |
| Dispatcher and processor | `sms/services/sms-dispatcher.service.ts`, `queue/processors` | loop variables of a running job | process, dispatch, retry, failover | `SmsDispatch`, `ProviderRetry` |
| Queue and DLQ | `queue/queue.service.ts`, BullMQ | jobs in Redis with attempts and stalls | enqueueSms, requeueSms, enqueueDeadLetter, job retry | `SmsDispatch`, `SmsSend` |
| Requeue endpoint | `SmsService.requeue` | none of its own | read, conditional UPDATE, publish, compensate | `SmsDispatch` |
| Send endpoint | `sms/controllers`, `sms/dto`, `SmsService.sendSmsRequest` | none of its own | check header, body and length; cache, lock, insert, publish, poll, compensate | `SmsSend` |
| Idempotency store | `idempotency/idempotency.service.ts` | cache and lock keys in Redis, both with expiry | get, store, delete, acquireLock, releaseLock | `SmsSend` |
| Delivery callbacks | `webhooks/services`, `webhooks/status` | claims of Bird events in Redis | claim, find, apply, release | `DeliveryWebhook`, `WebhookIntake` |
| Signatures, payloads | `webhooks/signature`, `webhooks/types`, `webhooks/utils` | none | accept or refuse a callback, read its fields | `WebhookIntake`, `DeliveryReports` |
| Creation, dispatch and delivery together | the three above, over one row | | every writer of the row | `SmsSystem` |
| Rate limiter | `providers/rate-limiting` | one counter per provider and window in Redis | throttle | `RateLimiter` |
| Registry, classifier, strategies | `providers` | none | startup checks, error classification, waiting time | `ProviderRetry` |
| Errors and their filter | `common/errors` | none | error code to HTTP status | `ErrorCatalog` |
| Configuration | `config` | none after startup | read and validated once | partly: `ProviderRetry` (provider list), `WebhookIntake` (secrets) |
| Database set-up, bootstrap, health | `database`, `main.ts`, `health` | none after startup | | not modelled |

How they interact: the send endpoint inserts a row and publishes a job; a worker
takes the job, claims the row, calls providers behind the rate limiter and writes
the result to the row; an exhausted message gets a dead letter and may be requeued
by an administrator; the providers report back through the callbacks, which write
the same row. There is no transaction around any two of these steps. All
coordination is by conditional UPDATEs (claim, requeue, delivery status), by
`SET NX` keys (lock, claim of an event), by the unique idempotency key and by
BullMQ's ownership of a job.

What is hard: every `await` is a place where another worker, request or callback may
run; a call may take effect although its answer is lost; processes die between
steps; BullMQ delivers a job more than once, to a second worker even while the first
is still alive; locks, claims and counters expire under their holders; providers
repeat and reorder reports. `PROJECT.json` lists these hazards at their lines with
the properties aimed at each. A hazard that the code does run into has no property and a
note instead, and section 5 reports it.

What makes each part correct:

- **Dispatch:** a message has one dispatcher at a time as long as BullMQ does not
  run its job twice; its status only moves forward, except by a requeue; no provider
  call is made for a message that is not PROCESSING; every call is counted; every
  extra acceptance has a fault to explain it; every exhausted dispatch has its dead
  letter; every message is settled in the end.
- **Send:** one key, one message, one answer, whatever expires; a 202 is kept; only a
  crash, a lost answer or a failed compensation leaves a row that nobody sends.
- **Callbacks:** a report reaches the message it is about and no other send of it;
  DELIVERED is final and the first failure stands; a report that failed to be
  processed is processed again, and one that was processed is not; `last_error` tells
  the failure the row records.
- **Together:** the id a provider issued is known to the row or to the worker about to record
  it; a message that waits has somebody who will move it; FAILED says which of its two
  meanings it has.
- **Rate limiter:** the limit holds per bucket and, doubled, per sliding window; no
  send is rejected for nothing or stuck in a window.
- **Retry policy:** exactly the retries and failovers the classification calls for,
  after at least the wait that was asked for; a provider list that cannot work is
  refused at startup.

## 2. Modules

| Module | What it is | Code |
|---|---|---|
| `SmsStatus` | statuses, claimable and non-dispatchable ones, the delivery policy | `sms-status.enum.ts`, `delivery-status-policy.ts` |
| `SmsMessages` | the row, one operator per UPDATE and one per WHERE | `sms.service.ts`, entity |
| `SmsDispatch` | workers, jobs, dead letters, requeue requests | dispatcher, processor, queue, `requeue` |
| `MessageLifecycle` | abstract: QUEUED, PROCESSING, SENT or FATAL_FAILURE, requeue | implemented by `SmsDispatch` |
| `SmsDispatch_proofs` | theorems about `SmsDispatch`: types, attempts, rows | |
| `SmsDispatchOverlap_proofs` | theorems about `SmsDispatch`: overlapping dispatches, calls, dead letters | |
| `SmsSystem` | `SmsDispatch` with the creator of each row and the delivery callbacks | `sendSmsRequest` from the publication on, `DeliveryStatusService` |
| `SmsSystem_proofs` | theorems about `SmsSystem` | |
| `ErrorCatalog` | every error code and its HTTP status | `error-catalog.ts`, `app-error.filter.ts` |
| `SmsSend` | concurrent send requests, cache, lock, table, publication | controller, DTO, `sendSmsRequest`, `IdempotencyService` |
| `IdempotentCreate` | abstract: a key has one message and all 202s name it | implemented by `SmsSend` |
| `SmsSend_proofs` | theorems about `SmsSend` | |
| `DeliveryReports` | provider statuses and what they mean | the two status mappers |
| `DeliveryWebhook` | callbacks against dispatches and requeues | webhook services, `applyDeliveryStatus` |
| `DeliveryLifecycle` | abstract: `MessageLifecycle` plus delivery reports | implemented by `DeliveryWebhook` |
| `DeliveryWebhook_proofs` | theorems about `DeliveryWebhook` | |
| `WebhookIntake` | a callback from its signature to the row, with a clock | signature verifiers, payload types, webhook services |
| `WebhookIntake_proofs` | theorems about `WebhookIntake` | |
| `RateLimiter` | fixed windows with a clock and late increments | rate limiter and its Lua script |
| `RateLimiter_proofs` | theorems about `RateLimiter` | |
| `ProviderRetry` | one dispatch in detail, with errors and time | dispatcher loop, classifier, registry, strategies |
| `ProviderRetry_proofs` | theorems about `ProviderRetry` | |
| `MC...` | values of the constants for TLC | |

`SmsMessages` extends `SmsStatus`; `SmsDispatch` (and `SmsSystem`, which extends it) and
`DeliveryWebhook` and `WebhookIntake` (both through `DeliveryReports`) share `SmsMessages`,
so all of them act on the row through the same UPDATEs. `DeliveryLifecycle` extends
`MessageLifecycle`. `SmsSend` and `ProviderRetry` take their errors from `ErrorCatalog`.

Conventions. A process (worker, request, handler, caller) is a record whose `pc` names
the call it is about to make; an action is that call with everything the code does up
to the next one. A call may fail without effect (`CallThrows`, `RequeueThrows`) or take
effect and lose its answer (`LoseAnswer`, `Answered`); the code sees an exception in
both cases. Operators whose names state a mistake (`RecordSentWithoutReturning`,
`MayPassOneMore`, `PollForever`, ...) stand just before the one they vary; no action
uses them. They are the plausible bugs the properties are tested with: put in place of
the original, each makes the property named in `PROJECT.json` fail.

### SmsDispatch

`row` is the table, `job` the BullMQ jobs, `worker` and `admin` the running code,
`faults` counts what went wrong, `accepted` and `keyed` are the providers' side. `calls`,
`jobCalls`, `deadLetters` and `dlqFailed` are history: no action's guard reads them.
Job 0 of a message is the one `sendSmsRequest` publishes, later ones come from
requeues. BullMQ is external. What is assumed of it: a job is handed to one worker at a
time; a failed run is repeated until `JobAttempts` runs failed; an active job whose
worker is gone, or did not renew its lock (`FalseStall`), waits again, and fails after
`MaxStalledCount` stalls; the result of a worker that lost its job is ignored. Bird is
given the same idempotency key for every send of a message and accepts it once;
Twilio accepts every send. A provider that accepts always returns an id, as both
strategies do. When its answer is lost, the error is retryable or not, as the classifier
finds its name, code and status (`ProviderRetry` has the classes): the send is repeated
with the same provider or with the next one. The backoff between attempts takes no state and is left to
`ProviderRetry`; the rate limiter is one action that lets the call through.

### SmsSystem

`SmsDispatch` starts with a published job and has no callbacks; `DeliveryWebhook` keeps the
dispatches of a message apart. Here `creator` is what `sendSmsRequest` is doing with the
row from the publication on, and `handler` what each callback has read before its
UPDATE; every action of `SmsDispatch` is a step too (`DispatchActivity`). So a job may run while
its creator takes the publication for failed (`Publish` with a lost answer, then
`RefusePublication`), and reports arrive while dispatches overlap. `interrupted` is
history: the requeues that ended before they published or compensated. Reports are
not authenticated or deduplicated here: `FindReported` may happen at any time for a
send that was accepted.

### SmsSend

A request starts with the checks of its header, body and length (`receive`), which end in
a code of `ErrorCatalog`. A message is named by the request that inserted it, so `Requests` are message ids and
lock tokens too. `seen` is the status a request read with the row, which its 202
carries. The workers are reduced to a claim and a send; `SmsDispatch` has the rest.
`LockExpiresEarly` is the 30 s lock that ends before its holder does. With `DeleteRow` a cached id
outlives its row; `EveryRequestAnswered` says that the request then neither answers with that
id nor fails.

### DeliveryWebhook

A callback starts once its signature and payload are accepted. `issued[p]` lists the
messages provider `p` accepted and the position is the provider's message id. The
dispatch is a claim, an acceptance and a record; dispatches of one message follow each
other here, while `SmsDispatch` lets them overlap. It over-approximates Bird: a second
send of a message gets a new id, although Bird's idempotency key would return the old
one. An event stands for its `webhook-id`. `retries` is what Bird will repeat, because
it has no 204 for it yet.

### WebhookIntake

The callbacks on one message that was sent once, so that time can be modelled: `now`, the
time a copy of a delivery was signed at, and the time each claim ends (`expiry`). A
delivery is a provider, a `webhook-id`, a payload and whether its signature fits; a copy is a
delivery with a time. `ReceiveBird` is the verifier: secret, headers, age on both sides, and the
SDK's own look at signature and age. The body that matters is that of the deliveries in
`MCWebhookIntake`: absent ids, numbers where strings are expected, codes without a printable
character, signatures that do not fit. The provider that sent the message reports on it; the deliveries in
`Stray` also arrive when the other one sent it, under the same id, and `Find` has to tell them
apart. `lastError` is what `buildLastError` leaves on the row.
`faults.errors` counts calls that failed, `faults.stale` those that leave a claim nobody
releases (a crash, the lost answer of a claim, a failed release). History: `done`
(processed deliveries), `originals` (their copies of the first signing), `overtaken` and
`dropped` (answered 204 as duplicates before they were done, with and without a handler at
work on them), and `contested` (claimed while an earlier handler was still at work). To
keep the clock small, copies keep their time only if it is in `Signed`; a repetition signed
later is one signed now.

### RateLimiter

`now` is one clock for workers and Redis. An increment names the bucket computed
before it was sent and may arrive up to `MaxDelay` ticks later. `PTTL` is relative, so the
sleep is computed from the key's expiry, which starts with the first increment and not
with the bucket.

### ProviderRetry

One dispatch in sequence. The startup checks come first: the setting is split at its
commas, blank parts are dropped, and an empty list, an unknown or unregistered name, a
provider registered twice or a missing limit is refused with its error code. A name may be listed
twice; it is then called as if it were two providers. Each call ends in an error of `Errors`, as the SDKs
throw it, classified as in `provider-error-classifier.ts`; waits are computed, compared with
the backoff and passed to a timer that turns a delay above 2^31-1 ms into 1 ms. That is why
`WaitsLongEnough` speaks only of a backoff and waits in the timer's range; the run has a wait
outside of it too. A second
has `Second` units so that a wait of weeks fits TLC's integers. An infinite or fractional
`Retry-After` is not among the errors.

## 3. Runs

The bounds are CONSTANTS of the modules, listed under "Bounds of the model, not of the
code". They limit how often the environment misbehaves; the code's own parameters
(`MaxRetries`, `JobAttempts`, `PollAttempts`, `RateLimitMax`, ...) are set small.

| Run (`PROJECT.json`) | Instance | Shows |
|---|---|---|
| `dispatch_apart` | 1 message, 2 workers, 2 admins, Twilio then keyed Bird, 3 job attempts; 2 errors and 2 crashes, or 2 requeues | `SoleDispatcher`, `CallOnlyWhileProcessing`, `LifecycleImplemented` (refinement), `DeadLettersExact`, `CallsBoundedByRuns`, `DuplicatesArePaidFor` |
| `dispatch_overlap` | 1 message, 2 workers, 1 admin; one each of error, crash, false stall, requeue | `TypeOK`, `AttemptsCoverCalls`, `RowsAgree` |
| `dispatch_live` | 2 messages, 2 workers, 1 error, 1 crash, 2 job attempts, 1 stall | `EveryMessageSettles` |
| `dispatch_dlq` | 1 message, 1 worker, 1 error | a counterexample, section 5 |
| `system` | 1 message, Twilio, 2 workers, 1 admin, 1 handler; 2 errors, and one each of crash, false stall and requeue, but no more than 2 of errors and false stalls | `SystemTypeOK`, `IssuedIdIsKnown`, `StrandedIsPaidFor`, `OutcomeIsTold`, `StatusMovesAsPromised` |
| `send_faults` | 3 requests with one key; 2 errors, 1 lost answer, 1 crash, 1 early expiry | `TypeOK`, `SoleHolder`, `OrphansArePaidFor`, `RefusedIsUnsent`, `CreationImplemented` (refinement) |
| `send_live` | 2 requests; 1 error, 1 lost answer, 1 crash, 2 early expiries, 1 deleted row | `EveryRequestAnswered`, `AcceptedIsSent` |
| `webhook_faults` | 2 messages, 2 providers, 2 dispatches, 2 handlers; 1 error, 1 lost answer, 1 crash | `TypeOK`, `CallbackHitsItsMessage`, `CallbackHitsItsSend`, `OutcomeAgrees`, `DeliveryImplemented` (refinement) |
| `webhook_intake` | 1 message, 10 deliveries, 2 of them stray, 2 handlers, tolerance 1, SDK window 3, claims of 4 ticks, 4 ticks, 1 fault, with and without the secrets | `TypeOK`, `CopyProcessedOnce`, `DuplicateAnswerIsKept`, `LastErrorExplains`, `ReportGetsThrough` |
| `webhook_dropped` | 1 message, Bird, 2 handlers, 1 dispatch, 1 error | a counterexample, section 5 |
| `rate_limiter` | 5 sends, limit 2, window 3 ticks, 2 windows, delay 1, 1 error | `TypeOK`, `BurstBounded`, `BucketSpentTwice`, `RejectionsArePaidFor`, `RetryInLaterBucket` |
| `provider_retry` | 6 settings, 2 lists of registered providers, 9 errors, 3 attempts, with and without Twilio's credentials | `TypeOK`, `FailoverExact`, `WaitsLongEnough` |

Why the bounds are enough. Messages do not share state except the queue and the workers,
so one message with two workers shows every overlap of two dispatches; two messages are
used where workers may be busy with another one (`dispatch_live`) or where an id may be
taken for another's (`webhook_faults`). Two faults of a kind let a fault hit the recovery from
an earlier one. Three requests are a holder, its successor after expiry, and one that
waits. Five sends are two full windows and a rejection. In `webhook_intake` a copy signed
at 2 is accepted from 1 to 3 and claimed at 4 at the latest, a claim lasts 4 ticks, and one taken at
the start expires within the run: a delivery can meet a claim that stands, one that was released,
one that was left behind and one that expired. One stray delivery of each provider is enough for
both outcomes of the provider check, as a stray one never gets past `Find`; the theorems hold for any
`Stray`. Every property fails when
the code is mutated in a plausible way, so every hazard it is about does occur within the
bounds.

`dispatch_apart` keeps requeues and faults apart by the state constraint
`RequeuesOrFaults`. That is a limit of the code, not of the checker: a process that dies after
`markFatalFailure` and before its job is settled leaves a job that BullMQ runs again; if an
administrator requeues the message in between, it has two live jobs, and two workers
may dispatch it together. `dispatch_overlap` has no such constraint and checks what holds even
then. `system` lets requeues and faults meet too, and its properties name the cases in which
two writers of the row meet (`WritersMayMeet`); its constraint `FewFaults` only keeps the number
of states down.

The clocks of `RateLimiter` and `WebhookIntake` stop at `Horizon`, so their runs do not check
for deadlock; all other passing runs do, and there the only state without a step is one where all work is
over (`Rest`, `Done`).

### Fairness

- `SmsDispatch`: weak fairness of each worker's next call, of BullMQ's stalled-job check and
  of a requeue once it started. Workers poll the queue, and Node.js resumes an `await`.
  Nothing is obliged to fail, crash or requeue.
- `SmsSend`: weak fairness of each request's next call and of the workers.
- `DeliveryWebhook`: weak fairness of a handler once it started, and strong fairness of
  Bird's repetition of a delivery it has no 204 for, because the handlers are busy
  now and then. Nobody is obliged to send a first report, and Twilio does not repeat.
- `WebhookIntake`: weak fairness of each handler, and strong fairness of Bird's repetition,
  signed anew, of each report it can sign and deliver, until it gets a 204. The clock need not
  move and nothing is assumed of Twilio.
- `SmsSystem` states no fairness: its properties are about what may not happen.

`EveryMessageSettles` needs fewer failures than `JobAttempts` and no more stalls than
`MaxStalledCount`: beyond them BullMQ gives the job up and the message stays PROCESSING.
`AcceptedIsSent` excuses a 202 once any call failed, a process died or a row was
deleted. `ReportGetsThrough` excuses a delivery whose repetition overtook the first copy, and
any behaviour in which a claim was left behind.

## 4. Proofs

Every invariant, action property and refinement of the passing runs is stated by a theorem of
one of eight modules. What each theorem needs beyond the assumptions the modules declare is said
below; TLC evaluates those assumptions on every run.

### SmsDispatch

`SmsDispatch_proofs` proves three theorems of `SmsDispatch` for any messages, workers,
requests, providers, retry limits and any number of faults, requeues and false
stalls. The assumptions are those named in the modules: `Null` is no provider and no
number, the priority list is a non-empty sequence of providers, `MaxRetries` and
`JobAttempts` are positive, the bounds are numbers, and the workers are finitely many (`WorkersAssumption`, used for
cardinalities) and `Null` is none of them.

- `TypeCorrect`: `Spec => []TypeOK`. `TypeOK` is inductive as it stands. Two of its
  conjuncts are there for that: a worker that is not idle has a job, and one about to
  record a send has an id. One lemma per group of actions (`TypeDispatch`, `TypeQueue`,
  `TypeStall`, `TypeRequeue`), joined in `TypeStep`.
- `AttemptsCovered`: `Spec => []AttemptsCoverCalls`. Inductive together with `TypeOK`: the
  counter is raised by the step that makes a worker about to send (`CountAttemptCovers`), a
  call turns one such worker into one call (`SendSmsCovers`), and every other step keeps
  the counter and adds no worker to `AboutToSend`. The lemmas are about cardinalities
  of the set of workers.
- `RowsAlwaysAgree`: `Spec => []RowsAgree`. `RowsAgree` is not inductive: `markSent` writes
  whatever id the worker carries, the compensation of a requeue whatever provider the request
  remembers, and a keyed provider repeats an id it keeps. `RowsInductive` adds that these
  three are what they should be; the proof shows it inductive relative to `TypeOK`.

`SmsDispatchOverlap_proofs` proves the rest, from the same assumptions. Its arguments count: a
message has so many leads to another send, a job so many calls left, and a step moves a lead or
uses up a call, or a fault pays for it.

- `DuplicatesPaidFor` (`DuplicatesArePaidFor`). `PaidFor` adds to the sends a message had the load it
  still carries: a job that waits, a worker on its way to a verdict, a requeue that has not
  published, a FATAL_FAILURE row. Load and sends together never exceed one plus the faults,
  so a requeue turns one lead into another and never makes two.
- `SoleDispatcherApart` (`SoleDispatcher`), `CallsWhileProcessing` (`CallOnlyWhileProcessing`) and
  `LifecycleRefined` (`LifecycleImplemented`) hold under `Apart`: no live worker was taken for dead, and
  there were requeues or other faults, not both. That is the constraint of the run
  `dispatch_apart`, here as a hypothesis about the behaviour; section 3 says why the code needs it.
  Without requeues a message has one job, and that job one owner (`Footing`); without faults
  its load is one (`PaidFor`). So two workers never hold one message, and then those between the
  claim and the end of a dispatch stay on PROCESSING rows (`Claimed`), from which each step is a move
  of `MessageLifecycle` or leaves every status alone.
- `CallsPaidByRuns` (`CallsBoundedByRuns`). `RunPaysFor` adds to the calls made for a job those its workers
  may still make, the owner and any that lost the job; each run that starts pays for a whole
  dispatch.
- `DeadLettersCounted` (`DeadLettersExact`). While nothing fails, each job of a message waits, is worked on, is
  worth a dead letter or sent the message (`Letters`).

### SmsSystem

For any messages, workers, requests, handlers and faults, from the assumptions of `SmsDispatch` and
`ReportsAssumption` (a report says SENT, DELIVERED or FAILED); `SmsSystem_proofs` extends `SmsDispatchOverlap_proofs` and reuses its lemmas for
the steps of the dispatch.

- `SystemTypeCorrect` (`SystemTypeOK`), inductive as it stands.
- `StrandedPaidFor` (`StrandedIsPaidFor`). The property is not inductive: an active job whose run is about to
  return counts as care, and `JobCompletes` would take it away with the row still waiting. `Kept` counts
  only jobs that will still move the row.
- `OutcomeTold` (`OutcomeIsTold`) and `StatusMoves` (`StatusMovesAsPromised`, a refinement of `DeliveryLifecycle` but
  for the named exceptions). Without faults at most one thing is left that will move a message, a
  job or a requeue, and a settled message has none (`OneToken`). Unless writers may meet, a worker
  in a dispatch stays on a PROCESSING row, a row has an id exactly if it was sent, and a callback
  that found a row still finds an id on it (`Truths`); the two hold together only.
- `IssuedIdKnown` (`IssuedIdIsKnown`). Without faults, an acceptance is recorded by the worker that made
  it, on a row nobody else writes (`Account`): a message that waits was not accepted, a worker
  at `markSent` has the id of the one acceptance, and a keyed provider that accepted nothing keeps
  no id.

### SmsSend

For any requests, keys, polls and faults, from the assumptions that each request has a key and
that `Null` is no request, and that the bounds are numbers.

- `TypeCorrect`. `TypeOK` is inductive; its last conjunct, that a request which stores, publishes
  or marks a message knows one, is what the helper steps need.
- `HolderIsAlone`: `Spec => []SoleHolder`, from `HoldersHaveLock`: a request behind the lock that did not
  outlive it is the one the lock names. It is inductive because `AcquireLock` is the only way
  in (`OnlyWayIn`) and takes a free lock, and a release deletes no other token.
- `CreationRefined`: `CreationImplemented`, if no row is deleted (`MaxDeletions = 0`; a row deleted behind
  the service's back lets a key be used again). `CreationInductive` says that a key has one row,
  that a cache entry names it and that a request that has a message has the one of its key.
  `RowsChange` reduces the next-state relation to "the same rows" or "one new row for a key
  without one", and each request step is mapped to a choice, an answer or a stutter.
- `OrphansPaidFor` (`OrphansArePaidFor`): a row without a job whose creator is past the publication
  counts once, one whose creator is past the compensation too counts twice, and the sum is at
  most the errors plus twice the crashes and lost answers (`OrphansInductive`).
- `RefusalsAreMeant`: `Spec => []RefusedIsUnsent`, from `RefusalInvariant`, which says of each request what
  its pending error means for its row, its job and the locks, and that nobody else
  changes that (`OthersKeepOut`).

### DeliveryWebhook

For any messages, providers, reports, handlers, dispatches and faults, from `WebhookAssumption` and
`NullAssumption`.

- `TypeCorrect`, from `TypeInductive`, which adds what a dispatch and a handler know at each step.
- `OutcomesAgree` (`OutcomeAgrees`), `CallbacksFindTheirMessage` (`CallbackHitsItsMessage`) and
  `CallbacksFindTheirSend` (`CallbackHitsItsSend`) follow from `DeliveryInductive`. Its parts: the external
  id on a row was issued by the provider on it for this very message, and times and
  status agree (`RowsAgree`); a dispatch at work holds a PROCESSING row and an id of its own
  (`DispatchesAgree`); what a callback has read was issued for the message it is about to
  write (`CallbacksAgree`). None of them is inductive without the others.
- `LifecycleRefined`: `DeliveryImplemented`. Each action is a move of `DeliveryLifecycle` or leaves
  every status as it is; `DeliveryInductive` is what rules out a dispatch that records SENT over
  something else than PROCESSING.

### WebhookIntake

For any deliveries (stray ones included), handlers, windows, lifetimes and faults, from `IntakeAssumption` and
`DeliveriesAssumption` (a `webhook-id` names one of Bird's deliveries, and an absent field is not a
diagnostic).

- `TypeCorrect`, which includes that `last_error` is always a printable token.
- `ErrorsExplained` (`LastErrorExplains`): the row stays SENT or terminal (`Settled`), and a handler that
  is about to write works on a delivery that was verified and means something
  (`HandlersAgree`).
- `DuplicatesAreKept` (`DuplicateAnswerIsKept`): without a stale claim, a claim that stands has a handler at
  work or a processed delivery behind it (`ClaimsHeld`).
- `CopiesProcessedOnce` (`CopyProcessedOnce`): `CopiesInTime` says that a handler claims a copy no
  later than `Deadline(stamp)`, the end of the window plus `MaxDelay` (`ClaimedInTime`), that from the
  first claim on the claim outlives that deadline while it is worked on
  (`OriginalsAtWork`) and after it was processed (`OriginalsDone`), and that two handlers work on one
  delivery only if it is `contested` (`OneAtWork`).

### RateLimiter

For any number of sends, any limit, window, delay and number of errors, from `LimitAssumption` and
`CallersAssumption` (finitely many sends, for cardinalities). It starts with lemmas about
`Bucket`: an instant lies in its bucket, buckets follow each other in order, and a window that
starts in a bucket ends in it or in the next one.

- `TypeCorrect`, from `LimiterInductive`: no key counts more sends than are past it (`CountsCovered`), which
  holds because a send that was rejected never names the same bucket again.
- `RejectedMovesOn` (`RetryInLaterBucket`): a key expires no earlier than its bucket ends
  (`KeysLastTheirBucket`), so whoever sleeps as long as the key lives wakes in a later bucket.
- `BurstIsBounded` (`BurstBounded`): while a bucket lasts its key is never counted from one again
  (`PresentKeyCounts`), so it counts all who passed in it on time (`BucketsBounded`), and
  any interval as long as the window meets two buckets at most.

- `BucketSpent` (`BucketSpentTwice`), if `MaxDelay <= RateLimitDuration`: the key of a bucket that was
  made anew lives until a window after the bucket's end, and no increment for the bucket arrives
  later (`ArrivesInTime`), so a bucket has two keys at most (`SpentOnKeys`). With longer delays the
  key may be revived again and again.
- `RejectionsPaid` (`RejectionsArePaidFor`): a send's rejections, a window of places each,
  and the places taken in the buckets it is not past are together no more than the sends that
  passed or were lost (`RejectionsCovered`); a rejection turns a bucket of the second kind into one
  of the first.

### ProviderRetry

For any setting, modules, credentials, errors, retry limit, delays and timer, from
`RetryErrorsAssumption` and `RetryLimitsAssumption` (the undefined of the code, `None`, is neither a
number nor an error code).

- The names of a setting. `GetConfiguredProviderNames` is a recursive function, and the proof
  needs what it computes for every setting: a sequence that has each name as often as the
  setting has it (`NamesKept`). The library's induction theorems take an operator and cannot be
  used, so the induction is by the least counterexample: a set of naturals has a least
  element (`LeastOf`, from the well-foundedness of `<`), and the set is that of the lengths
  for which the fact fails.
- `IInv` is the inductive invariant. Two calls that follow each other do so as the loop says
  (`Chained`); the calls of a turn are the last ones, as many as the attempt counter says
  (`Counted`); every provider up to the current one was called (`Covered`); and the next call is
  the one that is due (`Poised`). All four kinds of call are reduced to one operator
  (`Made`), so each part is shown once.
- `TypeCorrect` (`TypeOK`) is a conjunct of it: `provider` stays within the order because a setting
  without names does not pass the startup.
- `FailsOverExactly` (`FailoverExact`). Exact retries come from `Chained`, the number of calls before one
  from `Counted` (`CallsCounted`); a call is determined by its place in the order and its attempt,
  so a name has at most `MaxRetries` calls for each of its places (`CallsBounded`), and it has
  as many places as the setting lists it (`NamesKept`).
- `RetriesWait` (`WaitsLongEnough`): the wait taken from an error is one it names, or 0 if it names no
  other (`WaitIsNamed`), and the timer keeps the greater of two waits in its range (`TimerKeeps`).
  The power in the backoff is never expanded.

### Only model-checked

Liveness under fairness, which is out of the prover's reach: `EveryMessageSettles`, `EveryRequestAnswered`,
`AcceptedIsSent` and `ReportGetsThrough`. And the two counterexamples of section 5.

## 5. Where the code and its documentation differ

With a run:

- `dispatch_dlq`: README.md:457 says that when the dead letter cannot be published "the worker
  job fails visibly". The run of the job fails; BullMQ repeats it, the repetition finds
  FATAL_FAILURE, skips the message and the job ends *completed*, with no dead letter.
- `webhook_dropped`: README.md:614 says a Bird retry is not silently dropped. A retry that
  arrives while the first delivery still holds the claim gets 204; when the first then
  fails, the event is lost.

Seen while modelling, without a run of its own:

- README.md:184 and the comment at `queue/queue.service.ts:31`: the two retry layers never multiply.
  A job that throws after a provider call starts over with the first attempt of the first
  provider. `CallsBoundedByRuns` is the bound that holds.
- README.md:202: at most `SMS_MAX_RETRIES` calls per provider. A name that `SMS_PROVIDER_PRIORITY` lists
  twice gets them twice.
- README.md:404: two workers racing for a message "cannot both win". The claim accepts PROCESSING, so
  both win when BullMQ runs the job twice (`FalseStall`). `SoleDispatcher` is checked without it.
- README.md:915: a failed enqueue gives no 202. A concurrent request with the same key may
  have received its 202 before the compensation, and a repetition of the request receives a 202 with
  status FAILED for a message that was never sent.
- README.md:591: the send flow records SENT "the moment" the provider accepts. A report that comes
  before `markSent` finds no row, is answered 204 and lost.
- README.md:232: the greater of the two waits. A wait beyond 2^31-1 ms becomes 1 ms.
- README.md:215 and 365: `5xx` is retryable. Only 500, 502, 503 and 504 are.
- README.md:240 lists a throw among the reasons for failover. It is retried with the same provider
  first, as a retryable failure.

Consequences of unconditional statements, which the properties of `SmsSystem` and
`WebhookIntake` have to except:

- `requeue`: when the answer of its UPDATE is lost, or its process dies between the UPDATE and
  the publication, the row is QUEUED without a job, and the endpoint accepts only
  FATAL_FAILURE (`StrandedIsPaidFor` names it by `interrupted`).
- `markQueuePublishFailed`, `markSent` and `markFatalFailure` have no condition on the status: after a
  publication whose answer was lost, a false stall, or a requeue next to a fault, they may
  overwrite even DELIVERED, and `markSent` keeps the `deliveredAt` it finds
  (`WritersMayMeet`).
- `releaseClaim` deletes the claim whoever holds it: a handler that outlived its claim and then
  fails takes away that of its successor, and a further copy is processed again
  (`contested` in `CopyProcessedOnce`). The row takes no harm: `DeliveryWebhook` lets claims
  expire at any time, and `DeliveryImplemented` and `OutcomeAgrees` hold there.

## 6. Not modelled

- `GET /sms/:id` (it only reads), the API documentation, the health check, bootstrap and
  migrations (nothing after startup; the unique key they create is in `SmsSend`).
- The startup summary and logging; the validation of numbers in the environment, whose result
  is the assumptions on the constants.
- Phone numbers and their masks, message bodies, metadata, `lastCallbackAt`, event times.
  `last_error` is in `WebhookIntake` only: the send flow clears it or writes a text of its own.
- The cryptography of signatures: whether one fits is an attribute of the delivery.
- The delay of BullMQ's backoff, and the removal of finished jobs.
- Rate limiter and dispatcher in one module: a worker that sleeps in `throttle` keeps its job,
  because BullMQ renews the job's lock by a timer, and `SmsDispatch` lets it be lost anyway
  (`FalseStall`); a throttle that throws is `CallThrows`. The composition would add no behaviour.
- Clock skew between workers, or between workers and Redis, in the rate limiter.
- Keys are independent in `SmsSend`: no request with another key changes a key's row, cache or
  lock, so runs use one key.

## 7. Plan

Done, in this order: `SmsStatus`, `SmsMessages`, `SmsDispatch` with `MessageLifecycle`;
its first theorems; `SmsSend` with `IdempotentCreate`; `DeliveryWebhook` with
`DeliveryLifecycle`; `RateLimiter`; `ProviderRetry`; `SmsSystem`; `ErrorCatalog` and the checks at the
edges of `SmsSend` and `ProviderRetry`; `WebhookIntake`; the proofs of `SmsSend`, `DeliveryWebhook`,
`WebhookIntake` and `RateLimiter`; the remaining proofs of `SmsDispatch`; those of `SmsSystem` and
`ProviderRetry`.

Next, to prove:

1. That `AttemptsCoverCalls` carries over to `SmsSystem`, whose other writers leave `attempts` alone.
2. Weaker conditions than `Apart`: a requeue and a fault of different messages do not meet.
3. The safety part of what the liveness runs rest on: a message that is not settled always has a
   step enabled that brings it closer (`EveryMessageSettles`).
