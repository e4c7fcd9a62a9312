--------------------------- MODULE ProviderRetry ---------------------------
(***************************************************************************)
(* One dispatch in detail: which providers are called, after which         *)
(* failures, and when. SmsDispatch lets a failed send be retryable or not  *)
(* and ignores the backoff; here the failure is the error of the provider  *)
(* SDK, classified as provider-error-classifier.ts does, and the clock     *)
(* moves. The startup checks of the priority list come first.              *)
(*                                                                         *)
(* Times are in units of which a second has Second: 1000 in the code, and  *)
(* fewer in a run with waits of weeks. The model is sequential: the loop   *)
(* of dispatchAcrossProviders, with its database calls left out.           *)
(***************************************************************************)
EXTENDS ErrorCatalog, Sequences, FiniteSets

CONSTANTS Priorities,  \* what SMS_PROVIDER_PRIORITY may say, split at its commas
          Modules,     \* the providers the module may register, by name
          Limited,     \* the names with a valid rate limit
          Credentials, \* the sets of providers whose credentials may be complete
          Errors,      \* what the SDKs may throw
          None,        \* the undefined of the code
          MaxRetries,  \* SMS_MAX_RETRIES
          Second,      \* time units in a second
          BaseDelay,   \* SMS_RETRY_BASE_DELAY_MS
          MaxTimer     \* the longest delay of a Node.js timer (2^31 - 1)

RetryableNames == {"BirdTimeoutError", "BirdConnectionError", "BirdRateLimitError"}
NonRetryableNames == {"BirdAuthError", "BirdPermissionError", "BirdValidationError",
                      "BirdMissingApiKeyError"}
RetryableStatusCodes == {429, 500, 502, 503, 504}
RetryableErrorCodes == {"ECONNRESET", "ETIMEDOUT", "ECONNABORTED", "ENOTFOUND"}

(***************************************************************************)
(* An error of an SDK: its class, HTTP status, error code and the three    *)
(* places a waiting time may be in. A header that is no number is None.    *)
(***************************************************************************)
ProviderError == [name: STRING, status: Nat \cup {None}, code: STRING,
                  retryAfterMs: Nat \cup {None}, retryAfter: Nat \cup {None},
                  retryAfterHeader: Nat \cup {None}]

ASSUME RetryErrorsAssumption ==
    Errors \subseteq ProviderError /\ None \notin Nat \cup ErrorCode
ASSUME RetryLimitsAssumption ==
    /\ {MaxRetries, Second, BaseDelay, MaxTimer} \subseteq Nat \ {0}
    /\ Priorities \cup Modules \subseteq Seq(STRING)

VARIABLES setting,  \* SMS_PROVIDER_PRIORITY, with "" for a blank part
          order,    \* the providers of the service, in order of priority
          configured, \* the providers whose credentials are complete
          pc,       \* what the dispatch does, or the error that ended the startup
          provider, \* position in order
          attempt,  \* providerAttempt
          wakeAt,   \* when the backoff ends
          now,
          trace     \* history: the calls made, with their outcome

vars == <<setting, order, configured, pc, provider, attempt, wakeAt, now, trace>>

-----------------------------------------------------------------------------
(* provider-error-classifier.ts *)

Positive(n) == n # None /\ n > 0

WaitInSeconds(e) ==
    IF Positive(e.retryAfterMs) THEN e.retryAfterMs
    ELSE IF Positive(e.retryAfter) THEN e.retryAfter ELSE 0
(* extractRetryAfterMs, with 0 for undefined: a zero retryAfter hides the header. *)
ExtractRetryAfterMs(e) ==
    LET retryAfter == IF e.retryAfter # None THEN e.retryAfter ELSE e.retryAfterHeader IN
    CASE Positive(e.retryAfterMs) -> e.retryAfterMs
      [] ~Positive(e.retryAfterMs) /\ Positive(retryAfter) -> retryAfter * Second
      [] OTHER -> 0

IsRetryableTransportError(e) ==
    e.code \in RetryableErrorCodes \/ e.status \in RetryableStatusCodes

(* The name of a Bird error decides before its status does. *)
BirdRetryable(e) ==
    \/ e.name \in RetryableNames
    \/ e.name \notin NonRetryableNames /\ IsRetryableTransportError(e)

IsRetryable(name, e) ==
    IF name = "bird" THEN BirdRetryable(e) ELSE IsRetryableTransportError(e)

(* What sendSms and sendWithProvider make of a call. *)
Unconfigured == [success |-> FALSE, isRetryable |-> FALSE, retryAfterMs |-> 0]
Threw == [success |-> FALSE, isRetryable |-> TRUE, retryAfterMs |-> 0]
Normalized(name, e) ==
    [success |-> FALSE, isRetryable |-> IsRetryable(name, e),
     retryAfterMs |-> ExtractRetryAfterMs(e)]

(* retry.util.ts *)
CalculateExponentialBackoff(n) == BaseDelay * 2 ^ (n - 1)

Longer(a, b) == IF a > b THEN a ELSE b
Delay(result, n) == Longer(result.retryAfterMs, CalculateExponentialBackoff(n))

(* setTimeout fires at once (1 ms) when the delay is out of its range. *)
Timer(delay) == IF delay \in 1 .. MaxTimer THEN delay ELSE 1

-----------------------------------------------------------------------------
Init ==
    /\ setting \in Priorities /\ order = <<>> /\ configured \in Credentials
    /\ pc = "startup" /\ provider = 1 /\ attempt = 1
    /\ wakeAt = 0 /\ now = 0 /\ trace = <<>>

ElementsOf(list) == {list[i] : i \in DOMAIN list}

(* The parts of the setting that are not blank; a name may come twice. *)
NamesUpTo[n \in 0 .. Len(setting)] ==
    IF n = 0 THEN <<>>
    ELSE IF setting[n] = "" THEN NamesUpTo[n - 1]
    ELSE Append(NamesUpTo[n - 1], setting[n])
GetConfiguredProviderNames == NamesUpTo[Len(setting)]

(***************************************************************************)
(* The registry is built, then its onModuleInit and that of the rate       *)
(* limiter run: the service does not start with two providers of one name, *)
(* an empty list, an unknown name or a missing rate limit.                 *)
(***************************************************************************)
StartupError(providers) ==
    LET names == GetConfiguredProviderNames IN
    IF Cardinality(ElementsOf(providers)) < Len(providers) THEN "PROVIDER_DUPLICATE"
    ELSE IF names = <<>> THEN "PROVIDER_PRIORITY_EMPTY"
    ELSE IF ~(ElementsOf(names) \subseteq ElementsOf(providers)) THEN "PROVIDER_UNKNOWN"
    ELSE IF ElementsOf(names) \subseteq Limited THEN None ELSE "RATE_LIMIT_NOT_CONFIGURED"

Start ==
    /\ pc = "startup"
    /\ \E providers \in Modules :
        \/ /\ StartupError(providers) = None
           /\ pc' = "send" /\ order' = GetConfiguredProviderNames
        \/ /\ StartupError(providers) # None
           /\ pc' = StartupError(providers) /\ UNCHANGED order
    /\ UNCHANGED <<setting, configured, provider, attempt, wakeAt, now, trace>>

Call(kind, error) ==
    [position |-> provider, attempt |-> attempt, at |-> now, kind |-> kind, error |-> error]

MayRetryOnceMore(result) == result.isRetryable /\ attempt <= MaxRetries
MayRetryAnything(result) == attempt < MaxRetries
MayRetry(result) == result.isRetryable /\ attempt < MaxRetries

(* What follows a failed call: the backoff, the next provider or the end. *)
AfterFailure(result) ==
    \/ /\ MayRetry(result)
       /\ pc' = "sleep"
       /\ wakeAt' = now + Timer(Delay(result, attempt))
       /\ UNCHANGED <<provider, attempt>>
    \/ /\ ~MayRetry(result)
       /\ provider < Len(order)
       /\ pc' = "send" /\ provider' = provider + 1 /\ attempt' = 1
       /\ UNCHANGED wakeAt
    \/ /\ ~MayRetry(result)
       /\ provider = Len(order)
       /\ pc' = "exhausted"
       /\ UNCHANGED <<provider, attempt, wakeAt>>

Succeed ==
    /\ pc = "send" /\ order[provider] \in configured
    /\ trace' = Append(trace, Call("accepted", None))
    /\ pc' = "sent"
    /\ UNCHANGED <<setting, order, configured, provider, attempt, wakeAt, now>>

(* The SDK throws and the provider turns it into a result. *)
Fail ==
    /\ pc = "send" /\ order[provider] \in configured
    /\ \E e \in Errors :
        /\ trace' = Append(trace, Call("failed", e))
        /\ AfterFailure(Normalized(order[provider], e))
    /\ UNCHANGED <<setting, order, configured, now>>

(* The credentials are incomplete: no call is made. *)
Misconfigured ==
    /\ pc = "send" /\ order[provider] \notin configured
    /\ trace' = Append(trace, Call("unconfigured", None))
    /\ AfterFailure(Unconfigured)
    /\ UNCHANGED <<setting, order, configured, now>>

(* sendSms itself throws: sendWithProvider makes it a retryable failure. *)
Throw ==
    /\ pc = "send"
    /\ trace' = Append(trace, Call("threw", None))
    /\ AfterFailure(Threw)
    /\ UNCHANGED <<setting, order, configured, now>>

Wake ==
    /\ pc = "sleep"
    /\ now' = wakeAt
    /\ attempt' = attempt + 1
    /\ pc' = "send"
    /\ UNCHANGED <<setting, order, configured, provider, wakeAt, trace>>

Over == {"sent", "exhausted"} \cup ErrorCode
Done == pc \in Over /\ UNCHANGED vars

Next == Start \/ Succeed \/ Fail \/ Misconfigured \/ Throw \/ Wake \/ Done

Spec == Init /\ [][Next]_vars

-----------------------------------------------------------------------------
(* Properties. *)

(* Every variable keeps its type. *)
TypeOK ==
    /\ setting \in Priorities /\ order \in Seq(STRING)
    /\ configured \in Credentials
    /\ pc \in {"startup", "send", "sleep"} \cup Over
    /\ pc \notin {"startup"} \cup ErrorCode => provider \in DOMAIN order
    /\ attempt \in 1 .. MaxRetries
    /\ {wakeAt, now} \subseteq Nat

(* A failure that another call to the same provider may cure. *)
Transient(call) ==
    \/ call.kind = "threw"
    \/ call.kind = "failed" /\ IsRetryable(order[call.position], call.error)

(* The i-th call was followed by another one to the same provider. *)
Retried(i) == i + 1 \in DOMAIN trace /\ trace[i + 1].position = trace[i].position

CallsBefore(i) == {j \in 1 .. i : trace[j].position = trace[i].position}

(***************************************************************************)
(* A provider is tried again exactly when its failure is transient and it  *)
(* has been called fewer than MaxRetries times since its turn began, and   *)
(* the dispatch ends only when that has been done with every provider:     *)
(* none is skipped, given up early or called once too often. So a name is  *)
(* called SMS_MAX_RETRIES times at most for each time the setting lists    *)
(* it, and before the dispatch gives up it has called every listed name.   *)
(***************************************************************************)
FailoverExact ==
    /\ \A i \in DOMAIN trace :
        i < Len(trace) \/ pc = "exhausted" =>
            (Retried(i) <=> /\ Transient(trace[i])
                            /\ Cardinality(CallsBefore(i)) < MaxRetries)
    /\ pc = "exhausted" => {trace[i].position : i \in DOMAIN trace} = DOMAIN order
    /\ \A name \in ElementsOf(setting) \ {""} :
        LET calls == Cardinality({i \in DOMAIN trace : order[trace[i].position] = name}) IN
        /\ calls <= MaxRetries * Cardinality({i \in DOMAIN setting : setting[i] = name})
        /\ pc = "exhausted" => calls > 0

(* The waiting times the error of a call names. *)
Named(e) ==
    {w \in {e.retryAfterMs} : w # None}
        \cup {w * Second : w \in {e.retryAfter, e.retryAfterHeader} \ {None}}

(***************************************************************************)
(* README.md: "the dispatcher waits the greater value between provider     *)
(* retryAfterMs and the local exponential backoff". So no retry comes      *)
(* before the backoff of its attempt, nor before the waiting time of the   *)
(* error when it names just one, as long as both are in the range of a     *)
(* timer: a longer wait is cut to nothing (sleep).                         *)
(***************************************************************************)
WaitsLongEnough ==
    \A i \in DOMAIN trace : Retried(i) =>
        LET waited == trace[i + 1].at - trace[i].at
            backoff == BaseDelay * 2 ^ (Cardinality(CallsBefore(i)) - 1)
            named == IF trace[i].kind = "failed" THEN Named(trace[i].error) ELSE {} IN
        backoff \in 1 .. MaxTimer /\ (\A w \in named : w <= MaxTimer) =>
            /\ waited >= backoff
            /\ \A w \in named : named = {w} => waited >= w
=============================================================================
