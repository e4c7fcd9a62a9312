------------------------- MODULE RateLimiter_proofs -------------------------
(***************************************************************************)
(* Theorems about RateLimiter, for any number of sends, any limit, window  *)
(* and delay, and any number of failed increments.                         *)
(***************************************************************************)
EXTENDS RateLimiter, FiniteSetTheorems, TLAPS

-----------------------------------------------------------------------------
(* Buckets. *)

(* The first instant after a bucket. *)
End(b) == RateLimitDuration * b + RateLimitDuration

LEMMA BucketType ==
    ASSUME NEW t \in Nat
    PROVE  /\ Bucket(t) \in Nat /\ RateLimitDuration * Bucket(t) \in Nat
           /\ RateLimitDuration * Bucket(t) <= t /\ t < End(Bucket(t))
<1>1. Bucket(t) \in Int
  BY LimitAssumption DEF Bucket
<1>2. RateLimitDuration * Bucket(t) <= t /\ t < RateLimitDuration * Bucket(t) + RateLimitDuration
  BY LimitAssumption DEF Bucket
<1> HIDE DEF Bucket
<1>3. RateLimitDuration * Bucket(t) \in Int
  BY <1>1, LimitAssumption
<1>4. Bucket(t) >= 0
  <2> SUFFICES ASSUME Bucket(t) <= -1 PROVE FALSE
    BY <1>1
  <2>1. RateLimitDuration * Bucket(t) <= RateLimitDuration * (-1)
    BY <1>1, LimitAssumption
  <2>2. QED
    BY <1>2, <1>3, <2>1, LimitAssumption
<1>5. RateLimitDuration * Bucket(t) >= 0
  BY <1>1, <1>4, LimitAssumption
<1>6. QED
  BY <1>1, <1>2, <1>3, <1>4, <1>5 DEF End

LEMMA EndOrder ==
    ASSUME NEW a \in Nat, NEW b \in Nat
    PROVE  /\ End(a) \in Nat
           /\ a < b => End(a) <= RateLimitDuration * b
           /\ End(b) = RateLimitDuration * b + RateLimitDuration
<1>1. RateLimitDuration * a \in Nat /\ RateLimitDuration * b \in Nat
  BY LimitAssumption
<1>2. ASSUME a < b
      PROVE  End(a) <= RateLimitDuration * b
  <2>1. RateLimitDuration * (a + 1) <= RateLimitDuration * b
    BY <1>2, LimitAssumption
  <2>2. RateLimitDuration * (a + 1) = RateLimitDuration * a + RateLimitDuration
    BY LimitAssumption
  <2>3. QED
    BY <2>1, <2>2 DEF End
<1>3. QED
  BY <1>1, <1>2, LimitAssumption DEF End

(* An instant is past a bucket exactly when it lies in a later one. *)
LEMMA PastBucket ==
    ASSUME NEW t \in Nat, NEW b \in Nat
    PROVE  t >= End(b) <=> Bucket(t) > b
<1>1. CASE Bucket(t) > b
  BY <1>1, BucketType, EndOrder
<1>2. CASE Bucket(t) <= b
  <2>1. End(Bucket(t)) <= End(b)
    <3>1. CASE Bucket(t) = b
      BY <3>1, BucketType, EndOrder
    <3>2. CASE Bucket(t) < b
      BY <3>2, BucketType, EndOrder, LimitAssumption
    <3>3. QED
      BY <1>2, <3>1, <3>2, BucketType
  <2>2. QED
    BY <1>2, <2>1, BucketType, EndOrder
<1>3. QED
  BY <1>1, <1>2, BucketType

LEMMA BucketOrder ==
    ASSUME NEW t \in Nat, NEW u \in Nat, t <= u
    PROVE  Bucket(t) <= Bucket(u)
<1> SUFFICES ASSUME Bucket(u) < Bucket(t) PROVE FALSE
  BY BucketType
<1>1. t >= End(Bucket(u))
  BY BucketType, PastBucket
<1>2. QED
  BY <1>1, BucketType, EndOrder

(* A window that starts in a bucket ends in it or in the next one. *)
LEMMA NextBucket ==
    ASSUME NEW t \in Nat, NEW u \in Nat, t <= u, u < t + RateLimitDuration
    PROVE  Bucket(u) \in {Bucket(t), Bucket(t) + 1}
<1>1. Bucket(t) \in Nat /\ Bucket(u) \in Nat /\ Bucket(t) <= Bucket(u)
  BY BucketType, BucketOrder
<1>2. End(Bucket(t) + 1) = End(Bucket(t)) + RateLimitDuration
  BY <1>1, LimitAssumption DEF End
<1>3. u < End(Bucket(t) + 1)
  BY <1>1, <1>2, BucketType, EndOrder, LimitAssumption
<1>4. ~(Bucket(u) > Bucket(t) + 1)
  BY <1>1, <1>3, PastBucket, EndOrder
<1>5. QED
  BY <1>1, <1>4

LEMMA BucketsType == Bucket(Horizon) \in Nat /\ Buckets \subseteq Nat /\ 0 \in Buckets
BY BucketType, LimitAssumption DEF Buckets

-----------------------------------------------------------------------------
(***************************************************************************)
(* The invariant. A send names the bucket its clock was in, and after a    *)
(* rejection never the same one again, because a key never expires before  *)
(* its bucket ends. So no key counts more than the sends that are past it. *)
(***************************************************************************)
StateTyped ==
    /\ now \in 0 .. Horizon
    /\ counter \in [Buckets -> [count: Nat, expires: Times]]
    /\ caller \in [Callers -> Caller]
    /\ errors \in 0 .. MaxErrors
    /\ granted \subseteq [caller: Callers, bucket: Buckets, at: 0 .. Horizon]
    /\ lost \in Nat /\ lost <= errors

BucketsNamed ==
    \A c \in Callers :
        LET x == caller[c] IN
        /\ x.bucket <= Bucket(now)
        /\ x.pc = "increment" => x.readAt <= now /\ x.bucket = Bucket(x.readAt)
        /\ x.pc = "sleep" => x.wakeAt >= End(x.bucket) /\ x.rejections > 0
        /\ x.pc = "readClock" /\ x.rejections > 0 => x.bucket < Bucket(now)
KeysLastTheirBucket ==
    \A b \in Buckets : counter[b].expires > 0 => counter[b].expires >= End(b)

(* The sends that will not be counted in a bucket any more. *)
PastIt(x, b) ==
    \/ x.bucket > b
    \/ x.bucket = b /\ x.pc \in {"sleep", "passed", "threw"}
    \/ x.bucket = b /\ x.pc = "readClock" /\ x.rejections > 0
Past(b) == {c \in Callers : PastIt(caller[c], b)}
CountsCovered == \A b \in Buckets : counter[b].count <= Cardinality(Past(b))

LimiterInductive == StateTyped /\ BucketsNamed /\ KeysLastTheirBucket /\ CountsCovered

LEMMA Instants == Times \subseteq Nat /\ 0 .. Horizon \subseteq Times
BY LimitAssumption DEF Times

LEMMA Known ==
    ASSUME LimiterInductive
    PROVE  /\ now \in Nat /\ now \in Times /\ Bucket(now) \in Nat /\ Bucket(now) \in Buckets
           /\ \A c \in Callers :
                /\ caller[c] \in Caller /\ caller[c].bucket \in Nat
                /\ caller[c].readAt \in Nat /\ caller[c].wakeAt \in Nat
<1>1. now \in 0 .. Horizon /\ now \in Nat /\ now \in Times
  BY Instants, LimitAssumption DEF LimiterInductive, StateTyped
<1>2. Bucket(now) \in Nat
  BY <1>1, BucketType
<1>3. Bucket(now) <= Bucket(Horizon)
  BY <1>1, BucketOrder, LimitAssumption
<1>4. ASSUME NEW c \in Callers
      PROVE  /\ caller[c] \in Caller /\ caller[c].bucket \in Nat
             /\ caller[c].readAt \in Nat /\ caller[c].wakeAt \in Nat
  <2>1. caller[c] \in Caller
    BY DEF LimiterInductive, StateTyped
  <2>2. caller[c].bucket \in Buckets /\ caller[c].readAt \in Times /\ caller[c].wakeAt \in Times
    BY <2>1 DEF Caller
  <2>3. QED
    BY <2>1, <2>2, BucketsType, Instants
<1>5. QED
  BY <1>1, <1>2, <1>3, <1>4, BucketsType DEF Buckets

LEMMA PastFinite ==
    ASSUME NEW b
    PROVE  /\ IsFiniteSet(Past(b)) /\ Cardinality(Past(b)) \in Nat
           /\ Cardinality(Past(b)) <= Cardinality(Callers)
BY CallersAssumption, FS_Subset, FS_CardinalityType DEF Past

LEMMA CallersNat == Cardinality(Callers) \in Nat
BY CallersAssumption, FS_CardinalityType

LEMMA InductiveIsTyped == LimiterInductive => TypeOK
<1> SUFFICES ASSUME LimiterInductive PROVE TypeOK
  OBVIOUS
<1>1. ASSUME NEW b \in Buckets
      PROVE  counter[b] \in Key
  <2>1. counter[b] \in [count: Nat, expires: Times] /\ counter[b].count <= Cardinality(Past(b))
    BY DEF LimiterInductive, StateTyped, CountsCovered
  <2>2. counter[b].count \in 0 .. Cardinality(Callers)
    BY <2>1, PastFinite, CallersNat
  <2>3. QED
    BY <2>1, <2>2 DEF Key
<1>2. lost \in 0 .. MaxErrors
  BY LimitAssumption DEF LimiterInductive, StateTyped
<1>3. QED
  BY <1>1, <1>2 DEF LimiterInductive, StateTyped, TypeOK

LEMMA LimiterInit == Init => LimiterInductive
<1> SUFFICES ASSUME Init PROVE LimiterInductive
  OBVIOUS
<1>1. 0 \in Times /\ 0 \in Buckets /\ Bucket(0) \in Nat
  BY BucketsType, BucketType, LimitAssumption DEF Times
<1>2. StateTyped
  BY <1>1, LimitAssumption DEF Init, StateTyped, Caller
<1>3. BucketsNamed
  BY <1>1 DEF Init, BucketsNamed
<1>4. KeysLastTheirBucket /\ CountsCovered
  BY PastFinite DEF Init, KeysLastTheirBucket, CountsCovered
<1>5. QED
  BY <1>2, <1>3, <1>4 DEF LimiterInductive

(* What one send does, when the keys stay as they are. *)
LEMMA OneCaller ==
    ASSUME LimiterInductive, NEW c \in Callers, NEW x \in Caller,
           caller' = [caller EXCEPT ![c] = x], UNCHANGED <<now, counter>>,
           x.bucket <= Bucket(now),
           x.pc = "increment" => x.readAt <= now /\ x.bucket = Bucket(x.readAt),
           x.pc = "sleep" => x.wakeAt >= End(x.bucket) /\ x.rejections > 0,
           x.pc = "readClock" /\ x.rejections > 0 => x.bucket < Bucket(now),
           \A b \in Buckets : PastIt(caller[c], b) => PastIt(x, b)
    PROVE  BucketsNamed' /\ KeysLastTheirBucket' /\ CountsCovered'
<1>1. caller'[c] = x /\ \A d \in Callers : d # c => caller'[d] = caller[d]
  BY DEF LimiterInductive, StateTyped
<1>2. BucketsNamed'
  BY <1>1 DEF LimiterInductive, BucketsNamed, Bucket, End
<1>3. KeysLastTheirBucket'
  BY DEF LimiterInductive, KeysLastTheirBucket, End
<1>4. CountsCovered'
  <2> SUFFICES ASSUME NEW b \in Buckets
               PROVE  counter[b].count <= Cardinality(Past(b)')
    BY DEF CountsCovered
  <2>1. Past(b) \subseteq Past(b)' /\ Past(b)' \subseteq Callers
    BY <1>1 DEF Past, PastIt
  <2>2. IsFiniteSet(Past(b)') /\ Cardinality(Past(b)') \in Nat
    BY <2>1, CallersAssumption, FS_Subset, FS_CardinalityType
  <2>3. Cardinality(Past(b)) <= Cardinality(Past(b)')
    BY <2>1, <2>2, FS_Subset
  <2>4. counter[b].count \in Nat /\ counter[b].count <= Cardinality(Past(b))
    BY DEF LimiterInductive, StateTyped, CountsCovered
  <2>5. QED
    BY <2>2, <2>3, <2>4, PastFinite
<1>5. QED
  BY <1>2, <1>3, <1>4

(* A key lives to the end of its bucket: the clock was read before. *)
LEMMA KeyLasts ==
    ASSUME LimiterInductive, NEW c \in Callers, caller[c].pc = "increment",
           NEW b \in Buckets, caller[c].bucket = b
    PROVE  Incremented(counter[b]).expires >= End(b)
<1>1. now \in Nat /\ b \in Nat /\ counter[b].expires \in Nat
  BY BucketsType, LimitAssumption DEF LimiterInductive, StateTyped, Times
<1>2. CASE now < counter[b].expires
  BY <1>1, <1>2 DEF Incremented, LimiterInductive, KeysLastTheirBucket, StateTyped
<1>3. CASE ~(now < counter[b].expires)
  <2>1. b <= Bucket(now) /\ Bucket(now) \in Nat
    BY <1>1, BucketType DEF LimiterInductive, BucketsNamed
  <2>2. RateLimitDuration * b \in Nat /\ RateLimitDuration * b <= now
    <3>1. /\ RateLimitDuration * b \in Nat /\ RateLimitDuration * Bucket(now) \in Nat
          /\ RateLimitDuration * Bucket(now) <= now
      BY <1>1, <2>1, BucketType, LimitAssumption
    <3>2. CASE b = Bucket(now)
      BY <3>1, <3>2
    <3>3. CASE b < Bucket(now)
      <4>1. /\ End(b) <= RateLimitDuration * Bucket(now)
            /\ End(b) = RateLimitDuration * b + RateLimitDuration
        BY <1>1, <2>1, <3>3, EndOrder
      <4>2. QED
        BY <1>1, <3>1, <4>1, LimitAssumption
    <3>4. QED
      BY <1>1, <2>1, <3>2, <3>3
  <2>3. Incremented(counter[b]).expires = now + RateLimitDuration
    BY <1>3 DEF Incremented
  <2>4. QED
    BY <1>1, <2>2, <2>3, LimitAssumption DEF End
<1>4. QED
  BY <1>2, <1>3

(***************************************************************************)
(* A key is counted up in the name of its bucket, by a send that is not    *)
(* past it before and is past it afterwards.                               *)
(***************************************************************************)
LEMMA OneIncrement ==
    ASSUME LimiterInductive, NEW c \in Callers, NEW x \in Caller, NEW b \in Buckets,
           caller[c].pc = "increment", caller[c].bucket = b,
           caller' = [caller EXCEPT ![c] = x], UNCHANGED now,
           counter' = [counter EXCEPT ![b] = Incremented(counter[b])],
           x.bucket = b, x.pc \in {"sleep", "passed", "threw"},
           x.pc = "sleep" => x.wakeAt >= End(b) /\ x.rejections > 0
    PROVE  BucketsNamed' /\ KeysLastTheirBucket' /\ CountsCovered'
<1>1. caller'[c] = x /\ \A d \in Callers : d # c => caller'[d] = caller[d]
  BY DEF LimiterInductive, StateTyped
<1>2. /\ counter'[b] = Incremented(counter[b])
      /\ \A a \in Buckets : a # b => counter'[a] = counter[a]
  BY DEF LimiterInductive, StateTyped
<1>3. BucketsNamed'
  BY <1>1 DEF LimiterInductive, BucketsNamed, Bucket, End
<1>4. KeysLastTheirBucket'
  <2>1. Incremented(counter[b]).expires >= End(b)
    BY KeyLasts
  <2>2. QED
    BY <1>2, <2>1 DEF LimiterInductive, KeysLastTheirBucket, End
<1>5. CountsCovered'
  <2> SUFFICES ASSUME NEW a \in Buckets
               PROVE  counter'[a].count <= Cardinality(Past(a)')
    BY DEF CountsCovered
  <2>1. Past(a) \subseteq Past(a)' /\ Past(a)' \subseteq Callers
    BY <1>1, BucketsType DEF Past, PastIt
  <2>2. IsFiniteSet(Past(a)') /\ Cardinality(Past(a)') \in Nat
    BY <2>1, CallersAssumption, FS_Subset, FS_CardinalityType
  <2>3. Cardinality(Past(a)) <= Cardinality(Past(a)')
    BY <2>1, <2>2, FS_Subset
  <2>4. counter[a].count \in Nat /\ counter[a].count <= Cardinality(Past(a))
    BY DEF LimiterInductive, StateTyped, CountsCovered
  <2>5. CASE a # b
    BY <1>2, <2>2, <2>3, <2>4, <2>5, PastFinite
  <2>6. CASE a = b
    <3>1. c \notin Past(b) /\ c \in Past(b)'
      <4>1. b \in Nat
        BY BucketsType
      <4>2. c \notin Past(b)
        BY <4>1 DEF Past, PastIt
      <4>3. c \in Past(b)'
        <5>1. caller'[c].bucket = b /\ caller'[c].pc \in {"sleep", "passed", "threw"}
          BY <1>1
        <5>2. QED
          BY <5>1 DEF Past, PastIt
      <4>4. QED
        BY <4>2, <4>3
    <3>2. Past(a) \cup {c} \subseteq Past(a)'
      BY <2>1, <2>6, <3>1
    <3>3. Cardinality(Past(a) \cup {c}) = Cardinality(Past(a)) + 1
      BY <2>6, <3>1, PastFinite, FS_AddElement
    <3>4. Cardinality(Past(a)) + 1 <= Cardinality(Past(a)')
      BY <2>2, <3>2, <3>3, FS_Subset
    <3>5. counter'[a].count <= counter[a].count + 1
      BY <1>2, <2>4, <2>6 DEF Incremented, LimiterInductive, StateTyped
    <3>6. counter'[a].count \in Nat
      BY <1>2, <2>4, <2>6 DEF Incremented, LimiterInductive, StateTyped
    <3>7. QED
      BY <2>2, <2>4, <3>4, <3>5, <3>6, PastFinite
  <2>7. QED
    BY <2>5, <2>6
<1>6. QED
  BY <1>3, <1>4, <1>5

(* A key after an increment, and how long a rejected send sleeps. *)
LEMMA IncrementedType ==
    ASSUME LimiterInductive, NEW b \in Buckets
    PROVE  /\ Incremented(counter[b]) \in [count: Nat, expires: Times]
           /\ now + Ttl(Incremented(counter[b])) \in Times
           /\ now + Ttl(Incremented(counter[b])) >= Incremented(counter[b]).expires
<1>1. now \in 0 .. Horizon /\ counter[b] \in [count: Nat, expires: Times]
  BY DEF LimiterInductive, StateTyped
<1>2. Incremented(counter[b]) \in [count: Nat, expires: Times]
  BY <1>1, LimitAssumption DEF Incremented, Times
<1> DEFINE k == Incremented(counter[b])
<1> HIDE DEF k
<1>3. k \in [count: Nat, expires: Times]
  BY <1>2 DEF k
<1>4. now + Ttl(k) \in Times /\ now + Ttl(k) >= k.expires
  BY <1>1, <1>3, LimitAssumption DEF Ttl, Times
<1>5. QED
  BY <1>2, <1>4 DEF k

LEMMA StepReadClock ==
    ASSUME LimiterInductive, NEW c \in Callers, ReadClock(c)
    PROVE  LimiterInductive'
<1> DEFINE x == [caller[c] EXCEPT !.pc = "increment", !.bucket = Bucket(now), !.readAt = now]
<1>1. now \in Nat /\ now \in Times /\ Bucket(now) \in Buckets /\ caller[c] \in Caller
  BY Known
<1>2. /\ x \in Caller /\ x.pc = "increment" /\ x.bucket = Bucket(now) /\ x.readAt = now
      /\ caller' = [caller EXCEPT ![c] = x]
  BY <1>1 DEF Caller, ReadClock
<1> HIDE DEF x
<1>3. UNCHANGED <<now, counter, errors, granted, lost>>
  BY DEF ReadClock
<1>4. \A b \in Buckets : PastIt(caller[c], b) => PastIt(x, b)
  <2>1. /\ caller[c].bucket \in Nat /\ Bucket(now) \in Nat /\ caller[c].bucket <= Bucket(now)
        /\ caller[c].rejections > 0 => caller[c].bucket < Bucket(now)
    BY <1>1, BucketsType, BucketType DEF ReadClock, LimiterInductive, BucketsNamed, Caller
  <2>2. QED
    BY <1>2, <2>1, BucketsType DEF PastIt, ReadClock
<1>5. BucketsNamed' /\ KeysLastTheirBucket' /\ CountsCovered'
  <2>1. now <= now
    BY <1>1
  <2>2. Bucket(now) <= Bucket(now)
    BY Known
  <2>3. QED
    BY <1>2, <1>3, <1>4, <2>1, <2>2, OneCaller
<1>6. QED
  BY <1>2, <1>3, <1>5 DEF LimiterInductive, StateTyped

LEMMA StepIncrement ==
    ASSUME LimiterInductive, NEW c \in Callers, Increment(c)
    PROVE  LimiterInductive'
<1> DEFINE b == caller[c].bucket
           key == Incremented(counter[b])
<1>1. caller[c] \in Caller /\ b \in Buckets /\ now \in 0 .. Horizon
  BY DEF LimiterInductive, StateTyped, Caller
<1>2. /\ key \in [count: Nat, expires: Times] /\ now + Ttl(key) \in Times
      /\ now + Ttl(key) >= key.expires
  BY <1>1, IncrementedType
<1>3. key.expires >= End(b)
  BY <1>1, KeyLasts DEF Increment
<1>4. UNCHANGED <<now, errors, lost>> /\ counter' = [counter EXCEPT ![b] = key]
  BY DEF Increment
<1>5. counter' \in [Buckets -> [count: Nat, expires: Times]]
  BY <1>1, <1>2, <1>4 DEF LimiterInductive, StateTyped
<1>6. CASE /\ caller' = [caller EXCEPT ![c].pc = "passed"]
           /\ granted' = granted \cup {[caller |-> c, bucket |-> b, at |-> now]}
  <2> DEFINE x == [caller[c] EXCEPT !.pc = "passed"]
  <2>1. x \in Caller /\ x.pc = "passed" /\ x.bucket = b /\ caller' = [caller EXCEPT ![c] = x]
    BY <1>1, <1>6 DEF Caller
  <2> HIDE DEF x
  <2>2. BucketsNamed' /\ KeysLastTheirBucket' /\ CountsCovered'
    BY <1>1, <1>4, <2>1, OneIncrement DEF Increment
  <2>3. granted' \subseteq [caller: Callers, bucket: Buckets, at: 0 .. Horizon]
    BY <1>1, <1>6 DEF LimiterInductive, StateTyped
  <2>4. QED
    BY <1>4, <1>5, <2>1, <2>2, <2>3 DEF LimiterInductive, StateTyped
<1>7. CASE /\ caller' = [caller EXCEPT ![c].pc = "sleep", ![c].wakeAt = now + Ttl(key),
                                      ![c].rejections = @ + 1]
           /\ UNCHANGED granted
  <2> DEFINE x == [caller[c] EXCEPT !.pc = "sleep", !.wakeAt = now + Ttl(key),
                                    !.rejections = @ + 1]
  <2>1. /\ x \in Caller /\ x.pc = "sleep" /\ x.bucket = b /\ x.wakeAt = now + Ttl(key)
        /\ x.rejections > 0
    <3>1. caller[c].rejections + 1 \in Nat /\ caller[c].rejections + 1 > 0
      BY <1>1 DEF Caller
    <3>2. QED
      BY <1>1, <1>2, <3>1 DEF Caller
  <2>2. caller' = [caller EXCEPT ![c] = x]
    BY <1>1, <1>7 DEF Caller, LimiterInductive, StateTyped
  <2> HIDE DEF x
  <2>3. x.wakeAt >= End(b)
    <3>1. key.expires \in Nat /\ now + Ttl(key) \in Nat
      BY <1>2, Instants
    <3>2. End(b) \in Nat
      BY <1>1, BucketsType, EndOrder
    <3>3. QED
      BY <1>2, <1>3, <2>1, <3>1, <3>2
  <2>4. BucketsNamed' /\ KeysLastTheirBucket' /\ CountsCovered'
    BY <1>1, <1>4, <2>1, <2>2, <2>3, OneIncrement DEF Increment
  <2>5. QED
    BY <1>4, <1>5, <1>7, <2>1, <2>2, <2>4 DEF LimiterInductive, StateTyped
<1>8. QED
  BY <1>6, <1>7 DEF Increment

LEMMA StepIncrementFails ==
    ASSUME LimiterInductive, NEW c \in Callers, IncrementFails(c)
    PROVE  LimiterInductive'
<1> DEFINE b == caller[c].bucket
           x == [caller[c] EXCEPT !.pc = "threw"]
<1>1. caller[c] \in Caller /\ b \in Buckets
  BY DEF LimiterInductive, StateTyped, Caller
<1>2. x \in Caller /\ x.pc = "threw" /\ x.bucket = b /\ caller' = [caller EXCEPT ![c] = x]
  BY <1>1 DEF Caller, IncrementFails
<1>3. b <= Bucket(now)
  BY DEF LimiterInductive, BucketsNamed
<1> HIDE DEF x
<1>4. /\ UNCHANGED <<now, granted>> /\ errors' \in 0 .. MaxErrors /\ errors' = errors + 1
      /\ caller[c].pc = "increment" /\ caller' \in [Callers -> Caller]
  BY <1>2, LimitAssumption DEF IncrementFails, LimiterInductive, StateTyped
<1>5. CASE UNCHANGED <<counter, lost>>
  <2>1. \A a \in Buckets : PastIt(caller[c], a) => PastIt(x, a)
    BY <1>2, <1>4 DEF PastIt
  <2>2. BucketsNamed' /\ KeysLastTheirBucket' /\ CountsCovered'
    BY <1>2, <1>3, <1>4, <1>5, <2>1, OneCaller
  <2>3. lost <= errors /\ lost \in Nat /\ errors \in Nat
    BY LimitAssumption DEF LimiterInductive, StateTyped
  <2>4. QED
    BY <1>4, <1>5, <2>2, <2>3 DEF LimiterInductive, StateTyped
<1>6. CASE counter' = [counter EXCEPT ![b] = Incremented(@)] /\ lost' = lost + 1
  <2>1. counter' = [counter EXCEPT ![b] = Incremented(counter[b])]
    BY <1>6
  <2>2. BucketsNamed' /\ KeysLastTheirBucket' /\ CountsCovered'
    BY <1>1, <1>2, <1>4, <2>1, OneIncrement
  <2>3. Incremented(counter[b]) \in [count: Nat, expires: Times]
    BY <1>1, IncrementedType
  <2>4. counter' \in [Buckets -> [count: Nat, expires: Times]]
    BY <1>1, <2>1, <2>3 DEF LimiterInductive, StateTyped
  <2>5. lost <= errors /\ lost \in Nat /\ errors \in Nat
    BY LimitAssumption DEF LimiterInductive, StateTyped
  <2>6. QED
    BY <1>4, <1>6, <2>2, <2>4, <2>5 DEF LimiterInductive, StateTyped
<1>7. QED
  BY <1>5, <1>6 DEF IncrementFails

LEMMA StepWake ==
    ASSUME LimiterInductive, NEW c \in Callers, Wake(c)
    PROVE  LimiterInductive'
<1> DEFINE x == [caller[c] EXCEPT !.pc = "readClock"]
<1>1. caller[c] \in Caller /\ now \in Nat /\ caller[c].bucket \in Nat /\ Bucket(now) \in Nat
  BY Known
<1>2. x \in Caller /\ x.pc = "readClock" /\ x.bucket = caller[c].bucket
      /\ x.rejections = caller[c].rejections /\ caller' = [caller EXCEPT ![c] = x]
  BY <1>1 DEF Caller, Wake
<1> HIDE DEF x
<1>3. caller[c].bucket < Bucket(now)
  <2>1. now >= caller[c].wakeAt /\ caller[c].wakeAt >= End(caller[c].bucket)
    BY DEF Wake, LimiterInductive, BucketsNamed
  <2>2. caller[c].wakeAt \in Nat
    BY <1>1, LimitAssumption DEF Caller, Times
  <2>3. QED
    BY <1>1, <2>1, <2>2, PastBucket, EndOrder
<1>4. UNCHANGED <<now, counter, errors, granted, lost>> /\ caller[c].pc = "sleep"
  BY DEF Wake
<1>5. \A b \in Buckets : PastIt(caller[c], b) => PastIt(x, b)
  BY <1>2, <1>4 DEF PastIt, LimiterInductive, BucketsNamed
<1>6. BucketsNamed' /\ KeysLastTheirBucket' /\ CountsCovered'
  <2>1. x.bucket <= Bucket(now) /\ x.bucket < Bucket(now)
    BY <1>1, <1>2, <1>3
  <2>2. QED
    BY <1>2, <1>4, <1>5, <2>1, OneCaller
<1>7. QED
  BY <1>2, <1>4, <1>6 DEF LimiterInductive, StateTyped

LEMMA StepTick ==
    ASSUME LimiterInductive, Tick
    PROVE  LimiterInductive'
<1>1. now \in Nat /\ now' = now + 1 /\ now' \in 0 .. Horizon
  BY LimitAssumption DEF Tick, LimiterInductive, StateTyped
<1>2. Bucket(now) <= Bucket(now') /\ Bucket(now) \in Nat /\ Bucket(now') \in Nat
  BY <1>1, BucketOrder, BucketType
<1>3. UNCHANGED <<counter, caller, errors, granted, lost>>
  BY DEF Tick
<1>4. BucketsNamed'
  <2> SUFFICES ASSUME NEW c \in Callers
               PROVE  LET x == caller[c] IN
                      /\ x.bucket <= Bucket(now')
                      /\ x.pc = "increment" => x.readAt <= now' /\ x.bucket = Bucket(x.readAt)
                      /\ x.pc = "sleep" => x.wakeAt >= End(x.bucket) /\ x.rejections > 0
                      /\ x.pc = "readClock" /\ x.rejections > 0 => x.bucket < Bucket(now')
    BY <1>3 DEF BucketsNamed, Bucket, End
  <2>1. caller[c].bucket \in Nat /\ caller[c].readAt \in Nat
    BY Known
  <2>2. QED
    BY <1>1, <1>2, <2>1 DEF LimiterInductive, BucketsNamed
<1>5. KeysLastTheirBucket' /\ CountsCovered'
  BY <1>3 DEF LimiterInductive, KeysLastTheirBucket, CountsCovered, Past, PastIt, End
<1>6. QED
  BY <1>1, <1>3, <1>4, <1>5 DEF LimiterInductive, StateTyped

LEMMA LimiterStep == LimiterInductive /\ [Next]_vars => LimiterInductive'
<1> SUFFICES ASSUME LimiterInductive, [Next]_vars PROVE LimiterInductive'
  OBVIOUS
<1>1. CASE UNCHANGED vars
  BY <1>1 DEF vars, LimiterInductive, StateTyped, BucketsNamed, KeysLastTheirBucket, CountsCovered,
     Past, PastIt, Bucket, End
<1>2. QED
  BY <1>1, StepReadClock, StepIncrement, StepIncrementFails, StepWake, StepTick DEF Next

LEMMA LimiterInvariant == Spec => []LimiterInductive
BY LimiterInit, LimiterStep, PTL DEF Spec

(***************************************************************************)
(* Every variable keeps its type: no key counts more than there are sends, *)
(* and nobody sleeps past the window that follows.                         *)
(***************************************************************************)
THEOREM TypeCorrect == Spec => []TypeOK
BY LimiterInvariant, InductiveIsTyped, PTL

(***************************************************************************)
(* A rejected send never asks for the same bucket again.                   *)
(***************************************************************************)
THEOREM RejectedMovesOn == Spec => RetryInLaterBucket
<1>1. LimiterInductive /\ [Next]_vars
        => [\A c \in Callers :
              caller[c].rejections > 0 /\ caller'[c].pc = "increment" /\ caller[c].pc # "increment"
                => caller'[c].bucket > caller[c].bucket]_vars
  <2> SUFFICES ASSUME LimiterInductive, Next, NEW c \in Callers, caller[c].rejections > 0,
                      caller'[c].pc = "increment", caller[c].pc # "increment"
               PROVE  caller'[c].bucket > caller[c].bucket
    OBVIOUS
  <2>1. ReadClock(c)
    BY DEF Next, ReadClock, Increment, IncrementFails, Wake, Tick, LimiterInductive, StateTyped,
       Caller
  <2>2. caller'[c].bucket = Bucket(now) /\ caller[c].bucket < Bucket(now)
    BY <2>1 DEF ReadClock, LimiterInductive, StateTyped, BucketsNamed, Caller
  <2>3. caller[c].bucket \in Nat /\ Bucket(now) \in Nat
    BY Known
  <2>4. QED
    BY <2>2, <2>3
<1>2. QED
  BY <1>1, LimiterInvariant, PTL DEF Spec, RetryInLaterBucket

-----------------------------------------------------------------------------
(***************************************************************************)
(* The burst. While a bucket lasts, its key counts every send that passed  *)
(* in it on time: the key is new or alive, because none expires before its *)
(* bucket ends.                                                            *)
(***************************************************************************)
OnTime(b) == {g \in granted : g.bucket = b /\ Bucket(g.at) = b}
GrantsPast == IsFiniteSet(granted) /\ \A g \in granted : g.at <= now
KeysFresh == \A b \in Buckets : counter[b].expires = 0 => counter[b].count = 0
BucketsBounded ==
    /\ \A b \in Buckets : Cardinality(OnTime(b)) <= RateLimitMax
    /\ Cardinality(OnTime(Bucket(now))) <= counter[Bucket(now)].count
BurstInductive == GrantsPast /\ KeysFresh /\ BucketsBounded

LEMMA AddOne ==
    ASSUME NEW S, NEW x, IsFiniteSet(S)
    PROVE  /\ IsFiniteSet(S \cup {x})
           /\ Cardinality(S \cup {x}) <= Cardinality(S) + 1
           /\ Cardinality(S \cup {x}) \in Nat
<1>1. Cardinality(S) \in Nat
  BY FS_CardinalityType
<1>2. /\ IsFiniteSet(S \cup {x})
      /\ \/ Cardinality(S \cup {x}) = Cardinality(S)
         \/ Cardinality(S \cup {x}) = Cardinality(S) + 1
  BY FS_AddElement
<1>3. QED
  BY <1>1, <1>2

LEMMA OnTimeFinite ==
    ASSUME GrantsPast, NEW b
    PROVE  IsFiniteSet(OnTime(b)) /\ Cardinality(OnTime(b)) \in Nat
BY FS_Subset, FS_CardinalityType DEF GrantsPast, OnTime

(* The key of the present bucket is never counted from one again. *)
LEMMA PresentKeyCounts ==
    ASSUME LimiterInductive, BurstInductive
    PROVE  Incremented(counter[Bucket(now)]).count = counter[Bucket(now)].count + 1
<1> DEFINE b == Bucket(now)
<1>1. b \in Buckets /\ b \in Nat /\ now \in Nat /\ counter[b] \in [count: Nat, expires: Times]
  BY Known DEF LimiterInductive, StateTyped
<1>2. counter[b].expires \in Nat
  BY <1>1, Instants
<1>3. CASE now < counter[b].expires
  BY <1>1, <1>3 DEF Incremented
<1>4. CASE ~(now < counter[b].expires)
  <2>1. now < End(b) /\ End(b) \in Nat
    BY <1>1, BucketType, EndOrder
  <2>2. counter[b].expires = 0
    BY <1>1, <1>2, <1>4, <2>1 DEF LimiterInductive, KeysLastTheirBucket
  <2>3. counter[b].count = 0
    BY <1>1, <2>2 DEF BurstInductive, KeysFresh
  <2>4. QED
    BY <1>4, <2>3 DEF Incremented
<1>5. QED
  BY <1>3, <1>4

LEMMA KeysStayFresh ==
    ASSUME LimiterInductive, KeysFresh, NEW b \in Buckets,
           counter' = [counter EXCEPT ![b] = Incremented(counter[b])]
    PROVE  KeysFresh'
<1>1. Incremented(counter[b]).expires # 0
  <2>1. now \in Nat /\ counter[b] \in [count: Nat, expires: Times]
    BY Known DEF LimiterInductive, StateTyped
  <2>2. counter[b].expires \in Nat
    BY <2>1, Instants
  <2>3. QED
    BY <2>1, <2>2, LimitAssumption DEF Incremented
<1>2. QED
  BY <1>1 DEF KeysFresh, LimiterInductive, StateTyped

(* Increments that let nobody pass. *)
LEMMA BurstCounts ==
    ASSUME LimiterInductive, BurstInductive, NEW b \in Buckets,
           counter' = [counter EXCEPT ![b] = Incremented(counter[b])],
           UNCHANGED <<now, granted>>
    PROVE  BurstInductive'
<1>1. GrantsPast' /\ KeysFresh'
  BY KeysStayFresh DEF BurstInductive, GrantsPast
<1>2. UNCHANGED Bucket(now) /\ \A a : OnTime(a)' = OnTime(a)
  BY DEF OnTime, Bucket
<1>3. Bucket(now) \in Buckets /\ counter[Bucket(now)].count \in Nat
  BY Known DEF LimiterInductive, StateTyped
<1>4. counter'[Bucket(now)].count >= counter[Bucket(now)].count
  <2>1. CASE b = Bucket(now)
    BY <1>3, <2>1, PresentKeyCounts DEF LimiterInductive, StateTyped
  <2>2. CASE b # Bucket(now)
    BY <1>3, <2>2 DEF LimiterInductive, StateTyped
  <2>3. QED
    BY <2>1, <2>2
<1>5. counter'[Bucket(now)].count \in Nat
  <2>1. CASE b = Bucket(now)
    BY <1>3, <2>1, PresentKeyCounts DEF LimiterInductive, StateTyped
  <2>2. CASE b # Bucket(now)
    BY <1>3, <2>2 DEF LimiterInductive, StateTyped
  <2>3. QED
    BY <2>1, <2>2
<1>6. Cardinality(OnTime(Bucket(now))) \in Nat
  BY OnTimeFinite DEF BurstInductive
<1>7. Cardinality(OnTime(Bucket(now))) <= counter'[Bucket(now)].count
  BY <1>3, <1>4, <1>5, <1>6 DEF BurstInductive, BucketsBounded
<1>8. BucketsBounded'
  <2>1. \A a \in Buckets : Cardinality(OnTime(a)') <= RateLimitMax
    BY <1>2 DEF BurstInductive, BucketsBounded
  <2>2. Cardinality(OnTime(Bucket(now))') <= counter'[Bucket(now)'].count
    BY <1>2, <1>7 DEF OnTime, Bucket
  <2>3. QED
    BY <2>1, <2>2 DEF BucketsBounded
<1>9. QED
  BY <1>1, <1>8 DEF BurstInductive

(* A send passes, in its bucket or late. *)
LEMMA BurstGrants ==
    ASSUME LimiterInductive, BurstInductive, NEW c \in Callers, NEW b \in Buckets,
           counter' = [counter EXCEPT ![b] = Incremented(counter[b])],
           MayPass(Incremented(counter[b])), UNCHANGED now,
           granted' = granted \cup {[caller |-> c, bucket |-> b, at |-> now]}
    PROVE  BurstInductive'
<1> DEFINE g == [caller |-> c, bucket |-> b, at |-> now]
           B == Bucket(now)
<1>1. now \in Nat /\ B \in Buckets /\ counter[B].count \in Nat
  BY Known DEF LimiterInductive, StateTyped
<1>2. GrantsPast' /\ KeysFresh'
  <2>1. IsFiniteSet(granted')
    BY FS_AddElement DEF BurstInductive, GrantsPast
  <2>2. \A x \in granted' : x.at <= now
    BY <1>1 DEF BurstInductive, GrantsPast
  <2>3. QED
    BY <2>1, <2>2, KeysStayFresh DEF BurstInductive, GrantsPast
<1>3. \A a : OnTime(a)' = {x \in granted' : x.bucket = a /\ Bucket(x.at) = a}
  BY DEF OnTime, Bucket
<1>4. ASSUME NEW a, a # b \/ b # B
      PROVE  OnTime(a)' = OnTime(a)
  BY <1>3, <1>4 DEF OnTime
<1>5. CASE b # B
  <2>1. counter'[B] = counter[B]
    BY <1>1, <1>5 DEF LimiterInductive, StateTyped
  <2>2. \A a : Cardinality(OnTime(a)') = Cardinality(OnTime(a))
    BY <1>4, <1>5
  <2>3. BucketsBounded'
    BY <2>1, <2>2 DEF BurstInductive, BucketsBounded, Bucket
  <2>4. QED
    BY <1>2, <2>3 DEF BurstInductive
<1>6. CASE b = B
  <2>1. counter'[B].count = counter[B].count + 1 /\ counter[B].count + 1 <= RateLimitMax
    BY <1>1, <1>6, PresentKeyCounts DEF MayPass, LimiterInductive, StateTyped
  <2>2. OnTime(B)' \subseteq OnTime(B) \cup {g}
    BY <1>3, <1>6 DEF OnTime
  <2>3. /\ IsFiniteSet(OnTime(B)) /\ Cardinality(OnTime(B)) \in Nat
        /\ Cardinality(OnTime(B)) <= counter[B].count
    BY OnTimeFinite DEF BurstInductive, BucketsBounded
  <2>4. /\ IsFiniteSet(OnTime(B) \cup {g})
        /\ Cardinality(OnTime(B) \cup {g}) <= Cardinality(OnTime(B)) + 1
        /\ Cardinality(OnTime(B) \cup {g}) \in Nat
    BY <2>3, AddOne
  <2>5. /\ Cardinality(OnTime(B)') <= Cardinality(OnTime(B) \cup {g})
        /\ Cardinality(OnTime(B)') \in Nat
    BY <2>2, <2>4, FS_Subset, FS_CardinalityType
  <2>6. Cardinality(OnTime(B)') <= counter'[B].count /\ Cardinality(OnTime(B)') <= RateLimitMax
    BY <1>1, <2>1, <2>3, <2>4, <2>5, LimitAssumption
  <2>7. BucketsBounded'
    <3>1. \A a \in Buckets : Cardinality(OnTime(a)') <= RateLimitMax
      BY <1>4, <1>6, <2>6 DEF BurstInductive, BucketsBounded
    <3>2. QED
      BY <2>6, <3>1 DEF BucketsBounded, Bucket
  <2>8. QED
    BY <1>2, <2>7 DEF BurstInductive
<1>7. QED
  BY <1>5, <1>6

(* The clock moves on: in a new bucket nobody has passed yet. *)
LEMMA BurstTick ==
    ASSUME LimiterInductive, LimiterInductive', BurstInductive, Tick
    PROVE  BurstInductive'
<1>1. /\ now \in Nat /\ now' = now + 1 /\ UNCHANGED <<counter, granted>>
      /\ \A g \in granted : g.at \in Nat /\ g.at <= now
  BY Known, LimitAssumption
     DEF Tick, LimiterInductive, StateTyped, BurstInductive, GrantsPast
<1>2. GrantsPast' /\ KeysFresh'
  BY <1>1 DEF BurstInductive, GrantsPast, KeysFresh
<1>3. \A a : OnTime(a)' = OnTime(a)
  BY <1>1 DEF OnTime
<1>4. DEFINE B == Bucket(now + 1)
<1>5. B \in Buckets /\ counter[B].count \in Nat
  <2>1. now + 1 \in 0 .. Horizon /\ counter \in [Buckets -> [count: Nat, expires: Times]]
    BY <1>1 DEF LimiterInductive, StateTyped
  <2>2. now + 1 \in Nat /\ Horizon \in Nat /\ now + 1 <= Horizon
    BY <2>1, LimitAssumption
  <2>3. B \in Buckets
    BY <2>2, BucketType, BucketOrder DEF Buckets
  <2>4. QED
    BY <2>1, <2>3
<1>6. Cardinality(OnTime(B)) <= counter[B].count
  <2>1. CASE B = Bucket(now)
    BY <2>1 DEF BurstInductive, BucketsBounded
  <2>2. CASE B # Bucket(now)
    <3>1. OnTime(B) = {}
      <4> SUFFICES ASSUME NEW g \in OnTime(B) PROVE FALSE
        OBVIOUS
      <4>1. g.at \in Nat /\ g.at <= now /\ Bucket(g.at) = B
        BY <1>1 DEF OnTime
      <4>2. B <= Bucket(now) /\ Bucket(now) <= B
        BY <1>1, <4>1, BucketOrder
      <4>3. QED
        BY <1>1, <2>2, <4>2, BucketType
    <3>2. QED
      BY <1>5, <3>1, FS_EmptySet
  <2>3. QED
    BY <2>1, <2>2
<1>7. Bucket(now)' = B
  BY <1>1 DEF Bucket
<1>8. BucketsBounded'
  <2>1. \A a \in Buckets : Cardinality(OnTime(a)') <= RateLimitMax
    BY <1>3 DEF BurstInductive, BucketsBounded
  <2>2. Cardinality(OnTime(Bucket(now))') <= counter'[Bucket(now)'].count
    BY <1>1, <1>6, <1>7 DEF OnTime
  <2>3. QED
    BY <2>1, <2>2 DEF BucketsBounded
<1>9. QED
  BY <1>2, <1>8 DEF BurstInductive

LEMMA BurstQuiet ==
    ASSUME BurstInductive, UNCHANGED <<now, counter, granted>>
    PROVE  BurstInductive'
BY DEF BurstInductive, GrantsPast, KeysFresh, BucketsBounded, OnTime, Bucket

LEMMA BurstInit == Init => BurstInductive
<1> SUFFICES ASSUME Init PROVE BurstInductive
  OBVIOUS
<1>1. \A a : OnTime(a) = {}
  BY DEF Init, OnTime
<1>2. Bucket(now) \in Buckets
  BY LimiterInit, Known
<1>3. QED
  BY <1>1, <1>2, FS_EmptySet, LimitAssumption
     DEF Init, BurstInductive, GrantsPast, KeysFresh, BucketsBounded

LEMMA BurstStep ==
    LimiterInductive /\ LimiterInductive' /\ BurstInductive /\ [Next]_vars => BurstInductive'
<1> SUFFICES ASSUME LimiterInductive, LimiterInductive', BurstInductive, [Next]_vars
             PROVE  BurstInductive'
  OBVIOUS
<1>1. CASE UNCHANGED vars
  BY <1>1, BurstQuiet DEF vars
<1>2. CASE Tick
  BY <1>2, BurstTick
<1>3. ASSUME NEW c \in Callers, ReadClock(c) \/ Wake(c)
      PROVE  BurstInductive'
  BY <1>3, BurstQuiet DEF ReadClock, Wake
<1>4. ASSUME NEW c \in Callers, Increment(c)
      PROVE  BurstInductive'
  <2> DEFINE b == caller[c].bucket
  <2>1. b \in Buckets
    BY DEF LimiterInductive, StateTyped, Caller
  <2>2. counter' = [counter EXCEPT ![b] = Incremented(counter[b])] /\ UNCHANGED now
    BY <1>4 DEF Increment
  <2>3. \/ /\ MayPass(Incremented(counter[b]))
           /\ granted' = granted \cup {[caller |-> c, bucket |-> b, at |-> now]}
        \/ UNCHANGED granted
    BY <1>4 DEF Increment
  <2> HIDE DEF b
  <2>4. QED
    BY <2>1, <2>2, <2>3, BurstCounts, BurstGrants
<1>5. ASSUME NEW c \in Callers, IncrementFails(c)
      PROVE  BurstInductive'
  <2> DEFINE b == caller[c].bucket
  <2>1. b \in Buckets
    BY DEF LimiterInductive, StateTyped, Caller
  <2>2. /\ UNCHANGED <<now, granted>>
        /\ \/ UNCHANGED counter
           \/ counter' = [counter EXCEPT ![b] = Incremented(counter[b])]
    BY <1>5 DEF IncrementFails
  <2> HIDE DEF b
  <2>3. QED
    BY <2>1, <2>2, BurstCounts, BurstQuiet
<1>6. QED
  BY <1>1, <1>2, <1>3, <1>4, <1>5 DEF Next

LEMMA BurstInvariant == Spec => [](LimiterInductive /\ BurstInductive)
<1>1. Init => LimiterInductive /\ BurstInductive
  BY LimiterInit, BurstInit
<1>2. LimiterInductive /\ BurstInductive /\ [Next]_vars => (LimiterInductive /\ BurstInductive)'
  BY LimiterStep, BurstStep
<1>3. QED
  BY <1>1, <1>2, PTL DEF Spec

(* A window overlaps two buckets at most, and each lets its limit pass. *)
LEMMA BurstFollows ==
    ASSUME LimiterInductive, BurstInductive
    PROVE  BurstBounded
<1> SUFFICES ASSUME NEW t \in 0 .. Horizon
             PROVE  Cardinality(GrantsIn(t)) <= 2 * RateLimitMax
  BY DEF BurstBounded
<1> DEFINE B == Bucket(t)
           S == OnTime(B)
           T == OnTime(B + 1)
<1>1. t \in Nat /\ B \in Nat
  BY LimitAssumption, BucketType
<1>2. \A g \in granted : g.bucket \in Buckets /\ g.at \in Nat
  BY LimitAssumption DEF LimiterInductive, StateTyped
<1>3. GrantsIn(t) \subseteq S \cup T
  BY <1>1, <1>2, NextBucket DEF GrantsIn, OnTime
<1>4. ASSUME NEW a
      PROVE  /\ IsFiniteSet(OnTime(a)) /\ Cardinality(OnTime(a)) \in Nat
             /\ Cardinality(OnTime(a)) <= RateLimitMax
  <2>1. CASE a \in Buckets
    BY <2>1, OnTimeFinite DEF BurstInductive, BucketsBounded
  <2>2. CASE a \notin Buckets
    <3>1. OnTime(a) = {}
      BY <1>2, <2>2 DEF OnTime
    <3>2. QED
      BY <3>1, FS_EmptySet, LimitAssumption
  <2>3. QED
    BY <2>1, <2>2
<1>5. /\ IsFiniteSet(S) /\ Cardinality(S) \in Nat /\ Cardinality(S) <= RateLimitMax
      /\ IsFiniteSet(T) /\ Cardinality(T) \in Nat /\ Cardinality(T) <= RateLimitMax
  BY <1>4
<1> HIDE DEF S, T
<1>6. /\ IsFiniteSet(S \cup T)
      /\ Cardinality(S \cup T)
            = Cardinality(S) + Cardinality(T) - Cardinality(S \cap T)
  BY <1>5, FS_Union
<1>7. Cardinality(S \cap T) \in Nat
  BY <1>5, FS_Subset, FS_CardinalityType
<1>8. Cardinality(S \cup T) <= 2 * RateLimitMax /\ Cardinality(S \cup T) \in Nat
  BY <1>5, <1>6, <1>7, FS_CardinalityType, LimitAssumption
<1>9. Cardinality(GrantsIn(t)) <= Cardinality(S \cup T) /\ Cardinality(GrantsIn(t)) \in Nat
  BY <1>3, <1>6, FS_Subset, FS_CardinalityType
<1>10. QED
  BY <1>8, <1>9, LimitAssumption

(***************************************************************************)
(* No interval as long as the window sees more than twice the configured   *)
(* number of sends pass in the bucket they counted for, for any number of  *)
(* workers (throttle and the increment script).                            *)
(***************************************************************************)
THEOREM BurstIsBounded == Spec => []BurstBounded
BY BurstInvariant, BurstFollows, PTL

-----------------------------------------------------------------------------
(***************************************************************************)
(* A bucket spent twice. The key of bucket b, once it is made anew, lives  *)
(* until a window after the end of b at least, and no increment that names *)
(* b arrives after that when the delay is no longer than the window. So a  *)
(* key that expires before then is the only one its bucket has had.        *)
(***************************************************************************)
Spent(b) == {g \in granted : g.bucket = b}
LastArrival(b) == End(b) + RateLimitDuration
ArrivesInTime ==
    \A c \in Callers : caller[c].pc = "increment" => now <= caller[c].readAt + MaxDelay
SpentOnKeys ==
    \A b \in Buckets :
        /\ counter[b].expires < LastArrival(b) =>
              Cardinality(Spent(b)) <= counter[b].count /\ Cardinality(Spent(b)) <= RateLimitMax
        /\ Cardinality(Spent(b)) <= counter[b].count + RateLimitMax
        /\ Cardinality(Spent(b)) <= 2 * RateLimitMax

LEMMA ArrivesInTimeStep ==
    LimiterInductive /\ LimiterInductive' /\ ArrivesInTime /\ [Next]_vars => ArrivesInTime'
<1> SUFFICES ASSUME LimiterInductive, LimiterInductive', ArrivesInTime, [Next]_vars,
                    NEW c \in Callers, caller'[c].pc = "increment"
             PROVE  now' <= caller'[c].readAt + MaxDelay
  BY DEF ArrivesInTime
<1>t. /\ now \in Nat /\ now' \in Nat /\ MaxDelay \in Nat
      /\ caller \in [Callers -> Caller] /\ caller[c].readAt \in Nat
  BY Known, LimitAssumption DEF LimiterInductive, StateTyped
<1>1. CASE UNCHANGED vars
  BY <1>1 DEF vars, ArrivesInTime
<1>2. CASE Tick
  BY <1>2, <1>t DEF Tick, ArrivesInTime
<1>3. ASSUME NEW d \in Callers, ReadClock(d)
      PROVE  now' <= caller'[c].readAt + MaxDelay
  <2>1. CASE c = d
    BY <1>3, <1>t, <2>1 DEF ReadClock, Caller
  <2>2. CASE c # d
    BY <1>3, <1>t, <2>2 DEF ReadClock, ArrivesInTime
  <2>3. QED
    BY <2>1, <2>2
<1>4. ASSUME NEW d \in Callers, Increment(d) \/ IncrementFails(d) \/ Wake(d)
      PROVE  now' <= caller'[c].readAt + MaxDelay
  <2>1. c # d
    BY <1>4, <1>t DEF Increment, IncrementFails, Wake, Caller
  <2>2. now' = now /\ caller'[c] = caller[c]
    BY <1>4, <1>t, <2>1 DEF Increment, IncrementFails, Wake
  <2>3. QED
    BY <2>2 DEF ArrivesInTime
<1>5. QED
  BY <1>1, <1>2, <1>3, <1>4 DEF Next

LEMMA SpentFinite ==
    ASSUME GrantsPast, NEW b
    PROVE  IsFiniteSet(Spent(b)) /\ Cardinality(Spent(b)) \in Nat
BY FS_Subset, FS_CardinalityType DEF GrantsPast, Spent

(* One increment in the name of bucket b, which lets a send pass or not. *)
LEMMA SpentIncrement ==
    ASSUME MaxDelay <= RateLimitDuration,
           LimiterInductive, BurstInductive, BurstInductive', ArrivesInTime, SpentOnKeys,
           NEW c \in Callers, NEW b \in Buckets,
           caller[c].pc = "increment", caller[c].bucket = b,
           counter' = [counter EXCEPT ![b] = Incremented(counter[b])],
           \/ UNCHANGED granted
           \/ /\ MayPass(Incremented(counter[b]))
              /\ granted' = granted \cup {[caller |-> c, bucket |-> b, at |-> now]}
    PROVE  SpentOnKeys'
<1> DEFINE n == counter[b].count
           e == counter[b].expires
           n1 == counter'[b].count
           e1 == counter'[b].expires
           s == Cardinality(Spent(b))
           s1 == Cardinality(Spent(b)')
<1>1. /\ now \in Nat /\ n \in Nat /\ e \in Nat /\ b \in Nat
      /\ counter \in [Buckets -> [count: Nat, expires: Times]]
      /\ RateLimitMax \in Nat /\ RateLimitMax >= 1
      /\ RateLimitDuration \in Nat /\ RateLimitDuration >= 1 /\ MaxDelay \in Nat
  <2>1. counter \in [Buckets -> [count: Nat, expires: Times]] /\ now \in Nat /\ b \in Nat
    BY Known, BucketsType DEF LimiterInductive, StateTyped
  <2>2. n \in Nat /\ e \in Nat
    BY <2>1, Instants
  <2>3. QED
    BY <2>1, <2>2, LimitAssumption
<1>2. /\ End(b) \in Nat /\ LastArrival(b) \in Nat
      /\ LastArrival(b) = End(b) + RateLimitDuration
  BY <1>1, EndOrder DEF LastArrival
<1>3. now < LastArrival(b)
  <2>1. /\ caller[c].readAt \in Nat /\ b = Bucket(caller[c].readAt)
        /\ now <= caller[c].readAt + MaxDelay
    BY Known DEF LimiterInductive, BucketsNamed, ArrivesInTime
  <2>2. caller[c].readAt < End(b)
    BY <2>1, BucketType
  <2>3. QED
    BY <1>1, <1>2, <2>1, <2>2
<1>4. e # 0 => e >= End(b)
  BY <1>1 DEF LimiterInductive, KeysLastTheirBucket
<1>5. e = 0 => n = 0
  BY DEF BurstInductive, KeysFresh
<1>6. /\ now < e => n1 = n + 1 /\ e1 = e
      /\ ~(now < e) => n1 = 1 /\ e1 = now + RateLimitDuration
  BY <1>1 DEF Incremented
<1>7. \A a \in Buckets : a # b => counter'[a] = counter[a] /\ Spent(a)' = Spent(a)
  BY <1>1 DEF Spent
<1>8. /\ s \in Nat /\ s1 \in Nat /\ s1 <= s + 1
      /\ s1 # s => n1 <= RateLimitMax
  <2>1. IsFiniteSet(Spent(b)) /\ s \in Nat
    BY SpentFinite DEF BurstInductive
  <2>2. CASE UNCHANGED granted
    <3>1. Spent(b)' = Spent(b)
      BY <2>2 DEF Spent
    <3>2. QED
      BY <2>1, <3>1
  <2>3. CASE /\ MayPass(Incremented(counter[b]))
             /\ granted' = granted \cup {[caller |-> c, bucket |-> b, at |-> now]}
    <3>1. Spent(b)' = Spent(b) \cup {[caller |-> c, bucket |-> b, at |-> now]}
      BY <2>3 DEF Spent
    <3>2. n1 <= RateLimitMax
      BY <1>1, <2>3 DEF MayPass
    <3>3. QED
      BY <2>1, <3>1, <3>2, AddOne
  <2>4. QED
    BY <2>2, <2>3
<1>9. /\ e < LastArrival(b) => s <= n /\ s <= RateLimitMax
      /\ s <= n + RateLimitMax /\ s <= 2 * RateLimitMax
  BY DEF SpentOnKeys
<1> HIDE DEF n, e, n1, e1, s, s1
<1>10. /\ e1 < LastArrival(b) => s1 <= n1 /\ s1 <= RateLimitMax
       /\ s1 <= n1 + RateLimitMax /\ s1 <= 2 * RateLimitMax
  <2>1. CASE now < e
    BY <1>1, <1>2, <1>6, <1>8, <1>9, <2>1
  <2>2. CASE ~(now < e) /\ e = 0
    BY <1>1, <1>2, <1>5, <1>6, <1>8, <1>9, <2>2
  <2>3. CASE ~(now < e) /\ e # 0
    BY <1>1, <1>2, <1>3, <1>4, <1>6, <1>8, <1>9, <2>3
  <2>4. QED
    BY <2>1, <2>2, <2>3
<1>11. QED
  <2> SUFFICES ASSUME NEW a \in Buckets
               PROVE  /\ counter'[a].expires < LastArrival(a) =>
                            /\ Cardinality(Spent(a)') <= counter'[a].count
                            /\ Cardinality(Spent(a)') <= RateLimitMax
                      /\ Cardinality(Spent(a)') <= counter'[a].count + RateLimitMax
                      /\ Cardinality(Spent(a)') <= 2 * RateLimitMax
    BY DEF SpentOnKeys, LastArrival, End
  <2>1. CASE a = b
    BY <1>10, <2>1 DEF n1, e1, s1
  <2>2. CASE a # b
    BY <1>7, <2>2 DEF SpentOnKeys
  <2>3. QED
    BY <2>1, <2>2

LEMMA SpentStep ==
    ASSUME MaxDelay <= RateLimitDuration
    PROVE  LimiterInductive /\ BurstInductive /\ BurstInductive' /\ ArrivesInTime
             /\ SpentOnKeys /\ [Next]_vars => SpentOnKeys'
<1> SUFFICES ASSUME LimiterInductive, BurstInductive, BurstInductive', ArrivesInTime,
                    SpentOnKeys, [Next]_vars
             PROVE  SpentOnKeys'
  OBVIOUS
<1>1. CASE UNCHANGED <<counter, granted>>
  BY <1>1 DEF SpentOnKeys, Spent, LastArrival, End
<1>2. ASSUME NEW c \in Callers, Increment(c)
      PROVE  SpentOnKeys'
  <2> DEFINE b == caller[c].bucket
  <2>1. b \in Buckets /\ caller[c].pc = "increment"
    BY <1>2 DEF LimiterInductive, StateTyped, Caller, Increment
  <2>2. counter' = [counter EXCEPT ![b] = Incremented(counter[b])]
    BY <1>2 DEF Increment
  <2>3. \/ /\ MayPass(Incremented(counter[b]))
           /\ granted' = granted \cup {[caller |-> c, bucket |-> b, at |-> now]}
        \/ UNCHANGED granted
    BY <1>2 DEF Increment
  <2>4. QED
    BY <2>1, <2>2, <2>3, SpentIncrement
<1>3. ASSUME NEW c \in Callers, IncrementFails(c)
      PROVE  SpentOnKeys'
  <2> DEFINE b == caller[c].bucket
  <2>1. b \in Buckets /\ caller[c].pc = "increment" /\ UNCHANGED granted
    BY <1>3 DEF LimiterInductive, StateTyped, Caller, IncrementFails
  <2>2. UNCHANGED counter \/ counter' = [counter EXCEPT ![b] = Incremented(counter[b])]
    BY <1>3 DEF IncrementFails
  <2>3. QED
    BY <1>1, <2>1, <2>2, SpentIncrement
<1>4. QED
  BY <1>1, <1>2, <1>3 DEF Next, ReadClock, Wake, Tick, vars

(***************************************************************************)
(* A bucket lets no more than twice its limit pass, late increments and    *)
(* renewed keys included, while no increment takes longer than a window.   *)
(***************************************************************************)
THEOREM BucketSpent ==
    ASSUME MaxDelay <= RateLimitDuration
    PROVE  Spec => []BucketSpentTwice
<1> DEFINE Known0 == LimiterInductive /\ BurstInductive
           Inductive == ArrivesInTime /\ SpentOnKeys
<1>1. Init => Inductive
  <2> SUFFICES ASSUME Init PROVE Inductive
    OBVIOUS
  <2>1. \A b : Spent(b) = {}
    BY DEF Init, Spent
  <2>2. Cardinality({}) = 0
    BY FS_EmptySet
  <2>3. SpentOnKeys
    <3>1. \A b \in Buckets : counter[b].count = 0 /\ Cardinality(Spent(b)) = 0
      BY <2>1, <2>2 DEF Init
    <3>2. RateLimitMax \in Nat
      BY LimitAssumption
    <3>3. QED
      BY <3>1, <3>2 DEF SpentOnKeys
  <2>4. QED
    BY <2>3 DEF Init, ArrivesInTime
<1>2. Known0 /\ Known0' /\ Inductive /\ [Next]_vars => Inductive'
  BY ArrivesInTimeStep, SpentStep
<1>3. Inductive => BucketSpentTwice
  BY DEF SpentOnKeys, BucketSpentTwice, Spent
<1>4. Spec => []Known0
  BY BurstInvariant
<1> HIDE DEF Known0, Inductive
<1>5. QED
  BY <1>1, <1>2, <1>3, <1>4, PTL DEF Spec

-----------------------------------------------------------------------------
(***************************************************************************)
(* Rejections. The places a send may still find taken are the ones counted *)
(* in the keys of the buckets it is not past. A rejection uses up a whole  *)
(* bucket of them, and each was taken by a send that passed or was lost.   *)
(***************************************************************************)
Owed(n) == n * RateLimitMax
Places == Buckets \X (1 .. RateLimitMax)
Taken(c) == {s \in Places : s[2] <= counter[s[1]].count /\ ~PastIt(caller[c], s[1])}
GrantsAreFinal == \A g \in granted : caller[g.caller].pc = "passed"
RejectionsCovered ==
    \A c \in Callers :
        Owed(caller[c].rejections) + Cardinality(Taken(c)) <= Cardinality(granted) + lost
RejectionInductive == GrantsAreFinal /\ RejectionsCovered

LEMMA OwedNext ==
    ASSUME NEW n \in Nat
    PROVE  Owed(n) \in Nat /\ Owed(n + 1) = Owed(n) + RateLimitMax
BY LimitAssumption DEF Owed

LEMMA PlacesFinite ==
    ASSUME NEW S, S \subseteq Places
    PROVE  IsFiniteSet(S) /\ Cardinality(S) \in Nat
<1>1. IsFiniteSet(Buckets) /\ IsFiniteSet(1 .. RateLimitMax)
  <2>1. Bucket(Horizon) \in Int /\ RateLimitMax \in Int /\ 0 \in Int /\ 1 \in Int
    BY BucketsType, LimitAssumption
  <2>2. QED
    BY <2>1, FS_Interval DEF Buckets
<1>2. IsFiniteSet(Places)
  BY <1>1, FS_Product DEF Places
<1>3. QED
  BY <1>2, FS_Subset, FS_CardinalityType

(* Who is past a bucket stays past it. *)
LEMMA PastStays ==
    ASSUME LimiterInductive, [Next]_vars, NEW c \in Callers, NEW b \in Buckets,
           PastIt(caller[c], b)
    PROVE  PastIt(caller'[c], b)
<1>1. /\ caller \in [Callers -> Caller] /\ caller[c] \in Caller
      /\ Bucket(now) \in Nat /\ caller[c].bucket \in Nat /\ b \in Nat
  BY Known, BucketsType DEF LimiterInductive, StateTyped
<1>2. CASE caller'[c] = caller[c]
  BY <1>2
<1>3. CASE ReadClock(c)
  <2>1. /\ caller[c].pc = "readClock" /\ caller'[c].bucket = Bucket(now)
        /\ caller'[c].pc = "increment"
    BY <1>1, <1>3 DEF ReadClock, Caller
  <2>2. /\ caller[c].bucket <= Bucket(now)
        /\ caller[c].rejections > 0 => caller[c].bucket < Bucket(now)
    BY <2>1 DEF LimiterInductive, BucketsNamed
  <2>3. QED
    BY <1>1, <2>1, <2>2 DEF PastIt
<1>4. CASE Increment(c) \/ IncrementFails(c)
  <2>1. /\ caller'[c].bucket = caller[c].bucket
        /\ caller'[c].pc \in {"sleep", "passed", "threw"}
    BY <1>1, <1>4 DEF Increment, IncrementFails, Caller
  <2>2. QED
    BY <2>1 DEF PastIt
<1>5. CASE Wake(c)
  <2>1. /\ caller'[c].bucket = caller[c].bucket /\ caller'[c].pc = "readClock"
        /\ caller'[c].rejections = caller[c].rejections /\ caller[c].pc = "sleep"
    BY <1>1, <1>5 DEF Wake, Caller
  <2>2. caller[c].rejections > 0
    BY <2>1 DEF LimiterInductive, BucketsNamed
  <2>3. QED
    BY <2>1, <2>2 DEF PastIt
<1>6. \/ caller'[c] = caller[c]
      \/ ReadClock(c) \/ Increment(c) \/ IncrementFails(c) \/ Wake(c)
  <2>1. ASSUME NEW d \in Callers, d # c,
               ReadClock(d) \/ Increment(d) \/ IncrementFails(d) \/ Wake(d)
        PROVE  caller'[c] = caller[c]
    BY <1>1, <2>1 DEF ReadClock, Increment, IncrementFails, Wake
  <2>2. CASE Tick \/ UNCHANGED vars
    BY <2>2 DEF Tick, vars
  <2>3. QED
    BY <2>1, <2>2 DEF Next
<1>7. QED
  BY <1>2, <1>3, <1>4, <1>5, <1>6

(* An increment takes the one place its answer names. *)
LEMMA OnePlace ==
    ASSUME LimiterInductive, LimiterInductive', [Next]_vars,
           NEW c \in Callers, NEW b \in Buckets,
           counter' = [counter EXCEPT ![b] = Incremented(counter[b])]
    PROVE  /\ Taken(c)' \subseteq Taken(c) \cup {<<b, counter'[b].count>>}
           /\ Cardinality(Taken(c)') <= Cardinality(Taken(c)) + 1
           /\ counter'[b].count > RateLimitMax => Taken(c)' \subseteq Taken(c)
<1> DEFINE p == <<b, counter'[b].count>>
<1>1. /\ counter \in [Buckets -> [count: Nat, expires: Times]]
      /\ counter' \in [Buckets -> [count: Nat, expires: Times]]
      /\ RateLimitMax \in Nat
  BY LimitAssumption DEF LimiterInductive, StateTyped
<1>2. /\ counter'[b].count \in {1, counter[b].count + 1}
      /\ \A a \in Buckets : a # b => counter'[a] = counter[a]
  BY <1>1 DEF Incremented
<1>3. ASSUME NEW s \in Taken(c)', s \notin Taken(c)
      PROVE  s = p /\ counter'[b].count <= RateLimitMax
  <2>1. /\ s \in Places /\ s[1] \in Buckets /\ s[2] \in 1 .. RateLimitMax
        /\ s = <<s[1], s[2]>>
        /\ s[2] <= counter'[s[1]].count /\ ~PastIt(caller'[c], s[1])
    BY <1>3 DEF Taken, Places
  <2>2. ~PastIt(caller[c], s[1])
    BY <2>1, PastStays
  <2>3. ~(s[2] <= counter[s[1]].count)
    BY <1>3, <2>1, <2>2 DEF Taken
  <2>4. s[1] = b
    BY <1>2, <2>1, <2>3
  <2>5. /\ counter[b].count \in Nat /\ s[2] \in Nat /\ s[2] >= 1
        /\ s[2] <= counter'[b].count /\ ~(s[2] <= counter[b].count)
    BY <1>1, <2>1, <2>3, <2>4
  <2>6. s[2] = counter'[b].count
    BY <1>2, <2>5
  <2>7. QED
    BY <1>1, <2>1, <2>4, <2>6
<1>4. Taken(c)' \subseteq Taken(c) \cup {p}
  BY <1>3
<1>5. counter'[b].count > RateLimitMax => Taken(c)' \subseteq Taken(c)
  <2>1. counter'[b].count \in Nat
    BY <1>1
  <2>2. QED
    BY <1>1, <1>3, <2>1
<1>6. Cardinality(Taken(c)') <= Cardinality(Taken(c)) + 1
  <2>1. IsFiniteSet(Taken(c)) /\ Cardinality(Taken(c)) \in Nat
    BY PlacesFinite DEF Taken
  <2>2. /\ IsFiniteSet(Taken(c) \cup {p}) /\ Cardinality(Taken(c) \cup {p}) \in Nat
        /\ Cardinality(Taken(c) \cup {p}) <= Cardinality(Taken(c)) + 1
    BY <2>1, AddOne
  <2>3. Cardinality(Taken(c)') <= Cardinality(Taken(c) \cup {p}) /\ Cardinality(Taken(c)') \in Nat
    BY <1>4, <2>2, FS_Subset, FS_CardinalityType
  <2>4. QED
    BY <2>1, <2>2, <2>3
<1>7. QED
  BY <1>4, <1>5, <1>6

(* A rejection gives up all the places of the bucket it names. *)
LEMMA RejectionTakes ==
    ASSUME LimiterInductive, LimiterInductive', [Next]_vars, NEW c \in Callers,
           NEW b \in Buckets, caller[c].pc = "increment", caller[c].bucket = b,
           counter' = [counter EXCEPT ![b] = Incremented(counter[b])],
           ~MayPass(Incremented(counter[b])),
           caller'[c].bucket = b, caller'[c].pc = "sleep"
    PROVE  Cardinality(Taken(c)') + RateLimitMax <= Cardinality(Taken(c))
<1> DEFINE S == {b} \X (1 .. RateLimitMax)
<1>1. /\ counter \in [Buckets -> [count: Nat, expires: Times]]
      /\ RateLimitMax \in Nat /\ RateLimitMax >= 1 /\ b \in Nat
      /\ counter[b].count \in Nat /\ counter'[b] = Incremented(counter[b])
  BY LimitAssumption, BucketsType DEF LimiterInductive, StateTyped
<1>2. counter'[b].count > RateLimitMax /\ counter[b].count >= RateLimitMax
  BY <1>1 DEF MayPass, Incremented
<1>3. Taken(c)' \subseteq Taken(c)
  BY <1>2, OnePlace
<1>4. S \subseteq Taken(c)
  <2>1. ~PastIt(caller[c], b)
    BY <1>1 DEF PastIt
  <2>2. ASSUME NEW s \in S
        PROVE  s \in Taken(c)
    <3>1. s[1] = b /\ s[2] \in 1 .. RateLimitMax /\ s \in Places
      BY DEF Places
    <3>2. s[2] <= counter[b].count
      BY <1>1, <1>2, <3>1
    <3>3. QED
      BY <2>1, <3>1, <3>2 DEF Taken
  <2>3. QED
    BY <2>2
<1>5. S \cap Taken(c)' = {}
  <2>1. PastIt(caller'[c], b)
    BY DEF PastIt
  <2>2. QED
    BY <2>1 DEF Taken
<1>6. IsFiniteSet(S) /\ Cardinality(S) = RateLimitMax
  <2>1. IsFiniteSet({b}) /\ Cardinality({b}) = 1
    BY FS_Singleton
  <2>2. 1 \in Int /\ RateLimitMax \in Int
    BY <1>1
  <2>3. IsFiniteSet(1 .. RateLimitMax) /\ Cardinality(1 .. RateLimitMax) = RateLimitMax
    <3>1. /\ IsFiniteSet(1 .. RateLimitMax)
          /\ Cardinality(1 .. RateLimitMax)
                = IF 1 > RateLimitMax THEN 0 ELSE RateLimitMax - 1 + 1
      BY <2>2, FS_Interval
    <3>2. (IF 1 > RateLimitMax THEN 0 ELSE RateLimitMax - 1 + 1) = RateLimitMax
      BY <1>1
    <3>3. QED
      BY <3>1, <3>2
  <2>4. Cardinality(S) = Cardinality({b}) * Cardinality(1 .. RateLimitMax) /\ IsFiniteSet(S)
    BY <2>1, <2>3, FS_Product
  <2>5. QED
    BY <1>1, <2>1, <2>3, <2>4
<1>7. /\ IsFiniteSet(Taken(c)) /\ Cardinality(Taken(c)) \in Nat
      /\ IsFiniteSet(Taken(c)') /\ Cardinality(Taken(c)') \in Nat
  <2>1. Taken(c) \subseteq Places
    BY DEF Taken
  <2>2. QED
    BY <1>3, <2>1, PlacesFinite, FS_Subset, FS_CardinalityType
<1> HIDE DEF S
<1>8. Cardinality(S \cup Taken(c)') = RateLimitMax + Cardinality(Taken(c)')
  <2>1. Cardinality(S \cup Taken(c)')
          = Cardinality(S) + Cardinality(Taken(c)') - Cardinality(S \cap Taken(c)')
    BY <1>6, <1>7, FS_Union
  <2>2. Cardinality(S \cap Taken(c)') = 0
    BY <1>5, FS_EmptySet
  <2>3. QED
    BY <1>1, <1>6, <1>7, <2>1, <2>2
<1>9. Cardinality(S \cup Taken(c)') <= Cardinality(Taken(c))
  BY <1>3, <1>4, <1>7, FS_Subset
<1>10. QED
  BY <1>1, <1>7, <1>8, <1>9

LEMMA RejectionStep ==
    LimiterInductive /\ LimiterInductive' /\ GrantsPast /\ GrantsPast'
      /\ RejectionInductive /\ [Next]_vars => RejectionInductive'
<1> SUFFICES ASSUME LimiterInductive, LimiterInductive', GrantsPast, GrantsPast',
                    RejectionInductive, [Next]_vars
             PROVE  RejectionInductive'
  OBVIOUS
<1> DEFINE G == Cardinality(granted)
           G1 == Cardinality(granted')
<1>t. /\ caller \in [Callers -> Caller] /\ lost \in Nat /\ RateLimitMax \in Nat
      /\ G \in Nat /\ G1 \in Nat /\ IsFiniteSet(granted)
      /\ \A g \in granted : g.caller \in Callers /\ caller[g.caller].pc = "passed"
      /\ \A c \in Callers : caller[c].rejections \in Nat
  BY LimitAssumption, FS_CardinalityType
     DEF LimiterInductive, StateTyped, GrantsPast, Caller, RejectionInductive, GrantsAreFinal
<1>c. \A c \in Callers :
        /\ IsFiniteSet(Taken(c)) /\ Cardinality(Taken(c)) \in Nat
        /\ IsFiniteSet(Taken(c)') /\ Cardinality(Taken(c)') \in Nat
        /\ Owed(caller[c].rejections) \in Nat
        /\ Owed(caller[c].rejections) + Cardinality(Taken(c)) <= G + lost
  <2>1. ASSUME NEW c \in Callers
        PROVE  Taken(c) \subseteq Places /\ Taken(c)' \subseteq Places
    BY DEF Taken, Places, Buckets, Bucket
  <2>2. QED
    BY <1>t, <2>1, PlacesFinite, OwedNext DEF RejectionInductive, RejectionsCovered
<1> HIDE DEF G, G1
<1>1. ASSUME NEW d \in Callers, Increment(d)
      PROVE  RejectionInductive'
  <2> DEFINE b == caller[d].bucket
  <2>1. /\ b \in Buckets /\ caller[d].pc = "increment" /\ lost' = lost
        /\ counter' = [counter EXCEPT ![b] = Incremented(counter[b])]
        /\ \A c \in Callers : c # d => caller'[c] = caller[c]
    BY <1>1, <1>t DEF Increment, Caller
  <2> HIDE DEF b
  <2>2. CASE /\ MayPass(Incremented(counter[b]))
             /\ caller' = [caller EXCEPT ![d].pc = "passed"]
             /\ granted' = granted \cup {[caller |-> d, bucket |-> b, at |-> now]}
    <3> DEFINE g == [caller |-> d, bucket |-> b, at |-> now]
    <3>1. g \notin granted
      BY <1>t, <2>1
    <3>2. G1 = G + 1
      BY <1>t, <2>2, <3>1, FS_AddElement DEF G, G1
    <3>3. GrantsAreFinal'
      BY <1>t, <2>2 DEF GrantsAreFinal
    <3>4. ASSUME NEW c \in Callers
          PROVE  /\ Cardinality(Taken(c)') <= Cardinality(Taken(c)) + 1
                 /\ caller'[c].rejections = caller[c].rejections
      BY <1>t, <2>1, <2>2, OnePlace DEF Caller
    <3>5. \A c \in Callers :
            Owed(caller'[c].rejections) + Cardinality(Taken(c)') <= G1 + lost'
      BY <1>t, <1>c, <2>1, <3>2, <3>4
    <3>6. QED
      BY <3>3, <3>5 DEF RejectionInductive, RejectionsCovered, G1, Owed
  <2>3. CASE /\ ~MayPass(Incremented(counter[b]))
             /\ caller'[d].pc = "sleep" /\ caller'[d].bucket = b
             /\ caller'[d].rejections = caller[d].rejections + 1
             /\ UNCHANGED granted
    <3>1. GrantsAreFinal'
      BY <1>t, <2>1, <2>3 DEF GrantsAreFinal
    <3>2. G1 = G
      BY <2>3 DEF G, G1
    <3>3. Owed(caller'[d].rejections) + Cardinality(Taken(d)') <= G1 + lost'
      <4>1. Cardinality(Taken(d)') + RateLimitMax <= Cardinality(Taken(d))
        BY <2>1, <2>3, RejectionTakes DEF b
      <4>2. Owed(caller'[d].rejections) = Owed(caller[d].rejections) + RateLimitMax
        BY <1>t, <2>3, OwedNext
      <4>3. QED
        BY <1>t, <1>c, <2>1, <3>2, <4>1, <4>2
    <3>4. ASSUME NEW c \in Callers, c # d
          PROVE  Owed(caller'[c].rejections) + Cardinality(Taken(c)') <= G1 + lost'
      <4>1. counter'[b].count > RateLimitMax
        <5>1. counter'[b] = Incremented(counter[b]) /\ counter'[b].count \in Nat
          BY <2>1 DEF LimiterInductive, StateTyped
        <5>2. QED
          BY <1>t, <2>3, <5>1 DEF MayPass
      <4>2. Taken(c)' \subseteq Taken(c)
        BY <2>1, <4>1, OnePlace
      <4>3. Cardinality(Taken(c)') <= Cardinality(Taken(c))
        BY <1>c, <4>2, FS_Subset
      <4>4. caller'[c].rejections = caller[c].rejections
        BY <2>1, <3>4
      <4>5. QED
        BY <1>t, <1>c, <2>1, <3>2, <4>3, <4>4
    <3>5. QED
      BY <3>1, <3>3, <3>4 DEF RejectionInductive, RejectionsCovered, G1, Owed
  <2>4. QED
    BY <1>1, <1>t, <2>2, <2>3 DEF Increment, b, Caller
<1>2. ASSUME NEW d \in Callers, IncrementFails(d)
      PROVE  RejectionInductive'
  <2> DEFINE b == caller[d].bucket
  <2>1. /\ b \in Buckets /\ caller[d].pc = "increment" /\ granted' = granted
        /\ \A c \in Callers : /\ caller'[c].rejections = caller[c].rejections
                              /\ c # d => caller'[c] = caller[c]
    BY <1>2, <1>t DEF IncrementFails, Caller
  <2>2. GrantsAreFinal' /\ G1 = G
    BY <1>t, <2>1 DEF GrantsAreFinal, G, G1
  <2> HIDE DEF b
  <2>3. ASSUME NEW c \in Callers
        PROVE  Cardinality(Taken(c)') + lost <= Cardinality(Taken(c)) + lost'
    <3>1. CASE UNCHANGED <<counter, lost>>
      <4>1. Taken(c)' \subseteq Taken(c)
        <5>1. \A a \in Buckets : PastIt(caller[c], a) => PastIt(caller'[c], a)
          BY PastStays
        <5>2. \A s \in Places : s[1] \in Buckets
          BY DEF Places
        <5>3. QED
          BY <3>1, <5>1, <5>2 DEF Taken, Places, Buckets, Bucket
      <4>2. Cardinality(Taken(c)') <= Cardinality(Taken(c))
        BY <1>c, <4>1, FS_Subset
      <4>3. QED
        BY <1>t, <1>c, <3>1, <4>2
    <3>2. CASE /\ counter' = [counter EXCEPT ![b] = Incremented(counter[b])]
               /\ lost' = lost + 1
      <4>1. Cardinality(Taken(c)') <= Cardinality(Taken(c)) + 1
        BY <2>1, <3>2, OnePlace
      <4>2. QED
        BY <1>t, <1>c, <3>2, <4>1
    <3>3. QED
      BY <1>2, <3>1, <3>2 DEF IncrementFails, b
  <2>4. \A c \in Callers :
          Owed(caller'[c].rejections) + Cardinality(Taken(c)') <= G1 + lost'
    <3>1. lost' \in Nat
      BY DEF LimiterInductive, StateTyped
    <3>2. QED
      BY <1>t, <1>c, <2>1, <2>2, <2>3, <3>1
  <2>5. QED
    BY <2>2, <2>4 DEF RejectionInductive, RejectionsCovered, G1, Owed
<1>3. ASSUME UNCHANGED <<counter, granted, lost>>,
             \A c \in Callers : caller'[c].rejections = caller[c].rejections,
             \A c \in Callers : caller[c].pc = "passed" => caller'[c].pc = "passed"
      PROVE  RejectionInductive'
  <2>1. GrantsAreFinal' /\ G1 = G
    BY <1>3, <1>t DEF GrantsAreFinal, G, G1
  <2>2. ASSUME NEW c \in Callers
        PROVE  Cardinality(Taken(c)') <= Cardinality(Taken(c))
    <3>1. \A a \in Buckets : PastIt(caller[c], a) => PastIt(caller'[c], a)
      BY PastStays
    <3>2. \A s \in Places : s[1] \in Buckets
      BY DEF Places
    <3>3. Taken(c)' \subseteq Taken(c)
      BY <1>3, <3>1, <3>2 DEF Taken, Places, Buckets, Bucket
    <3>4. QED
      BY <1>c, <3>3, FS_Subset
  <2>3. \A c \in Callers :
          Owed(caller'[c].rejections) + Cardinality(Taken(c)') <= G1 + lost'
    BY <1>3, <1>t, <1>c, <2>1, <2>2
  <2>4. QED
    BY <2>1, <2>3 DEF RejectionInductive, RejectionsCovered, G1, Owed
<1>4. ASSUME NEW d \in Callers, ReadClock(d) \/ Wake(d)
      PROVE  RejectionInductive'
  <2>1. /\ \A c \in Callers : caller'[c].rejections = caller[c].rejections
        /\ \A c \in Callers : caller[c].pc = "passed" => caller'[c].pc = "passed"
    BY <1>4, <1>t DEF ReadClock, Wake, Caller
  <2>2. UNCHANGED <<counter, granted, lost>>
    BY <1>4 DEF ReadClock, Wake
  <2>3. QED
    BY <1>3, <2>1, <2>2
<1>5. CASE Tick \/ UNCHANGED vars
  BY <1>3, <1>5 DEF Tick, vars
<1>6. QED
  BY <1>1, <1>2, <1>4, <1>5 DEF Next

(***************************************************************************)
(* Nobody is turned away for nothing: every rejection of a send stands for *)
(* a full window of sends that passed or were counted and failed.          *)
(***************************************************************************)
THEOREM RejectionsPaid == Spec => []RejectionsArePaidFor
<1> DEFINE Known0 == LimiterInductive /\ BurstInductive
<1>1. Init => RejectionInductive
  <2> SUFFICES ASSUME Init PROVE RejectionInductive
    OBVIOUS
  <2>1. GrantsAreFinal
    BY DEF Init, GrantsAreFinal
  <2>2. ASSUME NEW c \in Callers
        PROVE  Owed(caller[c].rejections) + Cardinality(Taken(c)) <= Cardinality(granted) + lost
    <3>1. Taken(c) = {}
      BY DEF Init, Taken, Places
    <3>2. Owed(0) = 0
      BY LimitAssumption DEF Owed
    <3>3. QED
      BY <3>1, <3>2, FS_EmptySet DEF Init
  <2>3. QED
    BY <2>1, <2>2 DEF RejectionInductive, RejectionsCovered
<1>2. Known0 /\ Known0' /\ RejectionInductive /\ [Next]_vars => RejectionInductive'
  BY RejectionStep DEF BurstInductive
<1>3. Known0 /\ RejectionInductive => RejectionsArePaidFor
  <2> SUFFICES ASSUME LimiterInductive, BurstInductive, RejectionInductive, NEW c \in Callers
               PROVE  caller[c].rejections * RateLimitMax <= Cardinality(granted) + lost
    BY DEF RejectionsArePaidFor
  <2>1. /\ caller[c].rejections \in Nat /\ lost \in Nat /\ Cardinality(granted) \in Nat
    BY FS_CardinalityType
       DEF LimiterInductive, StateTyped, Caller, BurstInductive, GrantsPast
  <2>2. Cardinality(Taken(c)) \in Nat
    BY PlacesFinite DEF Taken
  <2>3. Owed(caller[c].rejections) \in Nat
    BY <2>1, OwedNext
  <2>4. Owed(caller[c].rejections) <= Cardinality(granted) + lost
    BY <2>1, <2>2, <2>3 DEF RejectionInductive, RejectionsCovered
  <2>5. QED
    BY <2>4 DEF Owed
<1>4. Spec => []Known0
  BY BurstInvariant
<1> HIDE DEF Known0
<1>5. QED
  BY <1>1, <1>2, <1>3, <1>4, PTL DEF Spec
=============================================================================
