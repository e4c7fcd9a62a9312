---------------------------- MODULE RateLimiter ----------------------------
(***************************************************************************)
(* ProviderRateLimiterService.throttle and its Redis counter: a fixed      *)
(* window per provider, shared by the sends of all workers. Every caller   *)
(* is one send that wants to pass the throttle of the same provider.       *)
(*                                                                         *)
(* Time is counted in ticks. The clock is read before the increment is     *)
(* sent, so the increment may reach Redis in a later bucket than the one   *)
(* it names; workers and Redis are assumed to share one clock.             *)
(***************************************************************************)
EXTENDS Naturals, FiniteSets

CONSTANTS Callers,   \* the sends that pass the throttle
          RateLimitMax,      \* rateLimitMax
          RateLimitDuration, \* rateLimitDurationMs
          \* Bounds of the model, not of the code:
          Horizon,   \* the clock stops here
          MaxDelay,  \* ticks an increment may need to reach Redis
          MaxErrors  \* increments that fail or whose answer is lost

ASSUME LimitAssumption ==
    /\ RateLimitMax \in Nat \ {0} /\ RateLimitDuration \in Nat \ {0}
    /\ {Horizon, MaxDelay, MaxErrors} \subseteq Nat
ASSUME CallersAssumption == IsFiniteSet(Callers)

VARIABLES now,     \* Date.now()
          counter, \* the Redis keys sms:rate-limit:{provider}:{bucket}
          caller,  \* what each send is doing
          errors,
          granted, \* history: the sends that passed, with bucket and time
          lost     \* history: increments that counted although the send failed

vars == <<now, counter, caller, errors, granted, lost>>

Times == 0 .. (Horizon + RateLimitDuration)
Bucket(t) == t \div RateLimitDuration
Buckets == 0 .. Bucket(Horizon)

Key == [count: 0 .. Cardinality(Callers), expires: Times]
Caller == [pc: {"readClock", "increment", "sleep", "passed", "threw"},
           bucket: Buckets, readAt: Times, wakeAt: Times, rejections: Nat]

Init ==
    /\ now = 0
    /\ counter = [b \in Buckets |-> [count |-> 0, expires |-> 0]]
    /\ caller = [c \in Callers |-> [pc |-> "readClock", bucket |-> 0, readAt |-> 0,
                                    wakeAt |-> 0, rejections |-> 0]]
    /\ errors = 0
    /\ granted = {}
    /\ lost = 0

-----------------------------------------------------------------------------
(* The script of the counter store: INCR, PEXPIRE for a new key, PTTL. *)
Incremented(key) ==
    IF now < key.expires
        THEN [key EXCEPT !.count = @ + 1]
        ELSE [count |-> 1, expires |-> now + RateLimitDuration]

TtlFixed(key) == 1
TtlAbsolute(key) == key.expires
Ttl(key) == IF key.expires - now > 1 THEN key.expires - now ELSE 1

MayPassOneMore(key) == key.count <= RateLimitMax + 1
MayPassOneLess(key) == key.count < RateLimitMax
MayPass(key) == key.count <= RateLimitMax

(* throttle: the bucket is computed from the clock of the worker. *)
ReadClock(c) ==
    /\ caller[c].pc = "readClock"
    /\ caller' = [caller EXCEPT ![c].pc = "increment", ![c].bucket = Bucket(now),
                                ![c].readAt = now]
    /\ UNCHANGED <<now, counter, errors, granted, lost>>

(***************************************************************************)
(* The increment is counted and answered: the send passes, or sleeps for   *)
(* the time the key has left to live.                                      *)
(***************************************************************************)
Increment(c) ==
    LET b == caller[c].bucket
        key == Incremented(counter[b]) IN
    /\ caller[c].pc = "increment"
    /\ counter' = [counter EXCEPT ![b] = key]
    /\ \/ /\ MayPass(key)
          /\ caller' = [caller EXCEPT ![c].pc = "passed"]
          /\ granted' = granted \cup {[caller |-> c, bucket |-> b, at |-> now]}
       \/ /\ ~MayPass(key)
          /\ caller' = [caller EXCEPT ![c].pc = "sleep", ![c].wakeAt = now + Ttl(key),
                                      ![c].rejections = @ + 1]
          /\ UNCHANGED granted
    /\ UNCHANGED <<now, errors, lost>>

(* Redis cannot be reached, or its answer is lost: throttle throws. *)
IncrementFails(c) ==
    LET b == caller[c].bucket IN
    /\ caller[c].pc = "increment"
    /\ errors < MaxErrors
    /\ errors' = errors + 1
    /\ caller' = [caller EXCEPT ![c].pc = "threw"]
    /\ \/ UNCHANGED <<counter, lost>>
       \/ /\ counter' = [counter EXCEPT ![b] = Incremented(@)]
          /\ lost' = lost + 1
    /\ UNCHANGED <<now, granted>>

(* The timer fires, on time or late, and the loop starts over. *)
Wake(c) ==
    /\ caller[c].pc = "sleep"
    /\ now >= caller[c].wakeAt
    /\ caller' = [caller EXCEPT ![c].pc = "readClock"]
    /\ UNCHANGED <<now, counter, errors, granted, lost>>

Tick ==
    /\ now < Horizon
    /\ \A c \in Callers : caller[c].pc = "increment" => now < caller[c].readAt + MaxDelay
    /\ now' = now + 1
    /\ UNCHANGED <<counter, caller, errors, granted, lost>>

Next ==
    \/ \E c \in Callers : ReadClock(c) \/ Increment(c) \/ IncrementFails(c) \/ Wake(c)
    \/ Tick

Spec == Init /\ [][Next]_vars

-----------------------------------------------------------------------------
(* Properties. *)

(* Every variable keeps its type; nobody is told to sleep past one window. *)
TypeOK ==
    /\ now \in 0 .. Horizon
    /\ counter \in [Buckets -> Key]
    /\ caller \in [Callers -> Caller]
    /\ errors \in 0 .. MaxErrors
    /\ granted \subseteq [caller: Callers, bucket: Buckets, at: 0 .. Horizon]
    /\ lost \in 0 .. MaxErrors

(***************************************************************************)
(* Whatever the number of workers, no interval as long as the window sees  *)
(* more than twice the configured number of sends pass in the bucket they  *)
(* counted for: the windows are fixed, not sliding (throttle).             *)
(***************************************************************************)
GrantsIn(t) ==
    {g \in granted : /\ g.bucket = Bucket(g.at)
                      /\ t <= g.at /\ g.at < t + RateLimitDuration}
BurstBounded == \A t \in 0 .. Horizon : Cardinality(GrantsIn(t)) <= 2 * RateLimitMax

(***************************************************************************)
(* The bound for increments that arrive in a later bucket: one that names  *)
(* a bucket whose key has expired creates the key anew and passes, so a    *)
(* bucket may be spent twice, but never three times while increments       *)
(* arrive within one window.                                               *)
(***************************************************************************)
BucketSpentTwice ==
    \A b \in Buckets :
        Cardinality({g \in granted : g.bucket = b}) <= 2 * RateLimitMax

(***************************************************************************)
(* A rejected send never tries the same bucket again: the time it sleeps,  *)
(* taken from the key, always reaches past the end of that bucket although *)
(* key and bucket begin at different times.                                *)
(***************************************************************************)
RetryInLaterBucket ==
    [][\A c \in Callers :
        caller[c].rejections > 0 /\ caller'[c].pc = "increment" /\ caller[c].pc # "increment"
            => caller'[c].bucket > caller[c].bucket]_vars

(***************************************************************************)
(* Nobody is turned away for nothing: every rejection of a send stands for *)
(* a full window of sends that passed or were counted and failed. So a     *)
(* send waits no longer than the ones before it take.                      *)
(***************************************************************************)
RejectionsArePaidFor ==
    \A c \in Callers :
        caller[c].rejections * RateLimitMax <= Cardinality(granted) + lost
=============================================================================
