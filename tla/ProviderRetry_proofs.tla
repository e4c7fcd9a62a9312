------------------------ MODULE ProviderRetry_proofs ------------------------
(***************************************************************************)
(* Theorems about ProviderRetry and their proofs, for every priority list, *)
(* set of modules, error, retry limit and delay.                           *)
(***************************************************************************)
EXTENDS ProviderRetry, FiniteSetTheorems, WellFoundedInduction, TLAPS

(***************************************************************************)
(* A set of naturals has a least element. Induction over data is done with *)
(* it: the set is that of the numbers for which a fact does not hold.      *)
(***************************************************************************)
LEMMA LeastOf ==
    ASSUME NEW T, T \subseteq Nat, T # {}
    PROVE  \E x \in T : \A y \in T : x <= y
<1> DEFINE R == {ss \in Nat \X Nat : ss[1] < ss[2]}
<1>1. R = OpToRel(<, Nat)
  BY DEF OpToRel
<1>2. IsWellFoundedOn(R, Nat)
  BY <1>1, NatLessThanWellFounded
<1>3. PICK x \in T : \A y \in T : ~(<<y, x>> \in R)
  BY <1>2, WFMin
<1>4. \A y \in T : ~(y < x)
  BY <1>3
<1>5. QED
  BY <1>3, <1>4

-----------------------------------------------------------------------------
(***************************************************************************)
(* The names of a setting s, part by part: f is what NamesUpTo is for s.   *)
(***************************************************************************)
NamesStep(blank, f, s, n) ==
    IF n = 0 THEN <<>> ELSE IF s[n] = blank THEN f[n - 1] ELSE Append(f[n - 1], s[n])
FilterUpTo(blank, f, s, n) == f = [k \in 0 .. n |-> NamesStep(blank, f, s, k)]

(* What holds of the names among the first n parts of s. *)
Places(s, name) == {i \in DOMAIN s : s[i] = name}
PlacesUpTo(s, n, name) == {i \in 1 .. n : s[i] = name}

(* One more part adds it to the places of its name only. *)
LEMMA PlacesGrow ==
    ASSUME NEW S, NEW s \in Seq(S), NEW n \in 1 .. Len(s), NEW name
    PROVE  /\ IsFiniteSet(PlacesUpTo(s, n, name)) /\ Cardinality(PlacesUpTo(s, n, name)) \in Nat
           /\ IsFiniteSet(PlacesUpTo(s, n - 1, name))
           /\ Cardinality(PlacesUpTo(s, n, name)) =
                Cardinality(PlacesUpTo(s, n - 1, name)) + (IF s[n] = name THEN 1 ELSE 0)
<1> DEFINE A == PlacesUpTo(s, n, name)
           B == PlacesUpTo(s, n - 1, name)
<1>1. IsFiniteSet(1 .. n) /\ IsFiniteSet(1 .. (n - 1))
  BY FS_Interval
<1>2. IsFiniteSet(A) /\ IsFiniteSet(B)
  BY <1>1, FS_Subset DEF PlacesUpTo
<1>3. Cardinality(A) \in Nat /\ Cardinality(B) \in Nat
  BY <1>2, FS_CardinalityType
<1>4. CASE s[n] = name
  <2>1. A = B \cup {n} /\ n \notin B
    BY <1>4 DEF PlacesUpTo
  <2>2. Cardinality(A) = Cardinality(B) + 1
    BY <1>2, <2>1, FS_AddElement
  <2>3. QED
    BY <1>2, <1>3, <1>4, <2>2
<1>5. CASE s[n] # name
  <2>1. A = B
    BY <1>5 DEF PlacesUpTo
  <2>2. QED
    BY <1>2, <1>3, <1>5, <2>1
<1>6. QED
  BY <1>4, <1>5

LEMMA FilterExtends ==
    ASSUME NEW blank, NEW s, NEW n \in Nat, n # 0, NEW g, FilterUpTo(blank, g, s, n - 1)
    PROVE  \E f : FilterUpTo(blank, f, s, n)
<1> DEFINE next == NamesStep(blank, g, s, n)
           f == [k \in 0 .. n |-> IF k = n THEN next ELSE g[k]]
<1>1. /\ \A k \in 0 .. (n - 1) : g[k] = NamesStep(blank, g, s, k)
  BY DEF FilterUpTo
<1> HIDE DEF next
<1>2. /\ \A k \in 0 .. (n - 1) : f[k] = g[k]
      /\ f[n] = next
  OBVIOUS
<1>3. f = [k \in 0 .. n |-> f[k]]
  OBVIOUS
<1> HIDE DEF f
<1>4. ASSUME NEW k \in 0 .. n
      PROVE  f[k] = NamesStep(blank, f, s, k)
  <2>1. NamesStep(blank, f, s, k) = NamesStep(blank, g, s, k)
    <3>1. k # 0 => k - 1 \in 0 .. (n - 1)
      OBVIOUS
    <3>2. k # 0 => f[k - 1] = g[k - 1]
      BY <1>2, <3>1
    <3>3. QED
      BY <3>2 DEF NamesStep
  <2>2. CASE k = n
    BY <1>2, <2>1, <2>2 DEF next
  <2>3. CASE k # n
    BY <1>1, <1>2, <2>1, <2>3
  <2>4. QED
    BY <2>2, <2>3
<1>5. FilterUpTo(blank, f, s, n)
  <2>1. [k \in 0 .. n |-> f[k]] = [k \in 0 .. n |-> NamesStep(blank, f, s, k)]
    BY <1>4
  <2>2. QED
    BY <1>3, <2>1 DEF FilterUpTo
<1>6. QED
  BY <1>5

LEMMA FilterExists ==
    ASSUME NEW blank, NEW s
    PROVE  \A n \in Nat : \E f : FilterUpTo(blank, f, s, n)
<1> DEFINE T == {n \in Nat : ~\E f : FilterUpTo(blank, f, s, n)}
<1>1. ASSUME T # {}
      PROVE  FALSE
  <2>1. PICK n \in T : \A k \in T : n <= k
    BY <1>1, LeastOf
  <2>2. CASE n = 0
    <3> DEFINE f == [k \in 0 .. 0 |-> <<>>]
    <3>1. f = [k \in 0 .. 0 |-> NamesStep(blank, f, s, k)]
      BY DEF NamesStep
    <3>2. QED
      BY <2>1, <2>2, <3>1 DEF FilterUpTo
  <2>3. CASE n # 0
    <3>1. n \in Nat /\ n - 1 \in Nat
      BY <2>1, <2>3
    <3>2. n - 1 \notin T
      BY <2>1, <3>1
    <3>3. PICK g : FilterUpTo(blank, g, s, n - 1)
      BY <3>1, <3>2
    <3>4. QED
      BY <2>1, <2>3, <3>1, <3>3, FilterExtends
  <2>4. QED
    BY <2>2, <2>3
<1>2. QED
  BY <1>1

(* NamesUpTo is what its definition says it is. *)
LEMMA NamesUpToFilters ==
    ASSUME setting \in Seq(STRING)
    PROVE  FilterUpTo("", NamesUpTo, setting, Len(setting))
<1>1. Len(setting) \in Nat
  OBVIOUS
<1>2. PICK f : FilterUpTo("", f, setting, Len(setting))
  BY <1>1, FilterExists
<1>3. NamesUpTo = CHOOSE g : FilterUpTo("", g, setting, Len(setting))
  BY DEF NamesUpTo, FilterUpTo, NamesStep
<1>4. QED
  BY <1>2, <1>3

(* What is kept of the first n parts: the names among them, as often. *)
KeepsNames(blank, S, q, s, n) ==
    /\ q \in Seq(S)
    /\ \A name \in S \ {blank} :
        Cardinality(Places(q, name)) = Cardinality(PlacesUpTo(s, n, name))

LEMMA PlacesAppended ==
    ASSUME NEW S, NEW r \in Seq(S), NEW x \in S, NEW name
    PROVE  Cardinality(Places(Append(r, x), name)) =
                Cardinality(Places(r, name)) + (IF x = name THEN 1 ELSE 0)
<1> SUFFICES ASSUME NEW q, q = Append(r, x)
             PROVE  Cardinality(Places(q, name)) =
                        Cardinality(Places(r, name)) + (IF x = name THEN 1 ELSE 0)
  OBVIOUS
<1>1. /\ q \in Seq(S) /\ Len(q) = Len(r) + 1 /\ Len(r) \in Nat
      /\ q[Len(q)] = x /\ \A i \in 1 .. Len(r) : q[i] = r[i]
  OBVIOUS
<1>2. DOMAIN q = 1 .. Len(q) /\ DOMAIN r = 1 .. Len(r)
  BY <1>1
<1>3. /\ Len(q) \in 1 .. Len(q) /\ Len(q) - 1 = Len(r)
  BY <1>1
<1>4. Places(q, name) = PlacesUpTo(q, Len(q), name)
  BY <1>2 DEF Places, PlacesUpTo
<1>5. Places(r, name) = PlacesUpTo(q, Len(q) - 1, name)
  BY <1>1, <1>2, <1>3 DEF Places, PlacesUpTo
<1>6. ASSUME NEW n \in 1 .. Len(q), n = Len(q)
      PROVE  Cardinality(PlacesUpTo(q, n, name)) =
                Cardinality(PlacesUpTo(q, n - 1, name)) + (IF q[n] = name THEN 1 ELSE 0)
  <2>1. q \in Seq(S)
    BY <1>1
  <2>2. QED
    BY ONLY <2>1, <1>6, PlacesGrow, Zenon
<1>7. QED
  BY <1>1, <1>3, <1>4, <1>5, <1>6

LEMMA FilterSteps ==
    ASSUME NEW blank, NEW f, NEW s, NEW n, FilterUpTo(blank, f, s, n), NEW k \in 0 .. n
    PROVE  f[k] = NamesStep(blank, f, s, k)
BY DEF FilterUpTo

LEMMA NamesKeptStep ==
    ASSUME NEW blank, NEW S, NEW s \in Seq(S), NEW n \in 1 .. Len(s),
           NEW f, FilterUpTo(blank, f, s, Len(s)),
           KeepsNames(blank, S, f[n - 1], s, n - 1)
    PROVE  KeepsNames(blank, S, f[n], s, n)
<1>1. f[n] = NamesStep(blank, f, s, n) /\ n # 0
  BY FilterSteps
<1>s. n \in Nat /\ s[n] \in S
  OBVIOUS
<1>2. CASE s[n] = blank
  <2>1. f[n] = f[n - 1]
    BY <1>1, <1>2 DEF NamesStep
  <2>2. ASSUME NEW name \in S \ {blank}
        PROVE  Cardinality(PlacesUpTo(s, n, name)) = Cardinality(PlacesUpTo(s, n - 1, name))
    <3>1. Cardinality(PlacesUpTo(s, n, name)) =
            Cardinality(PlacesUpTo(s, n - 1, name)) + (IF s[n] = name THEN 1 ELSE 0)
      BY ONLY PlacesGrow
    <3>2. Cardinality(PlacesUpTo(s, n - 1, name)) \in Nat
      BY ONLY PlacesGrow, FS_CardinalityType
    <3>3. QED
      BY <1>2, <3>1, <3>2
  <2>3. QED
    BY <2>1, <2>2 DEF KeepsNames
<1>3. CASE s[n] # blank
  <2>1. f[n] = Append(f[n - 1], s[n])
    BY <1>1, <1>3 DEF NamesStep
  <2>a. f[n - 1] \in Seq(S)
    BY DEF KeepsNames
  <2>2. f[n] \in Seq(S)
    BY <1>s, <2>1, <2>a
  <2>3. ASSUME NEW name \in S \ {blank}
        PROVE  Cardinality(Places(f[n], name)) = Cardinality(PlacesUpTo(s, n, name))
    <3>1. Cardinality(Places(f[n - 1], name)) = Cardinality(PlacesUpTo(s, n - 1, name))
      BY DEF KeepsNames
    <3>2. Cardinality(Places(Append(f[n - 1], s[n]), name)) =
            Cardinality(Places(f[n - 1], name)) + (IF s[n] = name THEN 1 ELSE 0)
      BY ONLY <1>s, <2>a, PlacesAppended
    <3>3. Cardinality(PlacesUpTo(s, n, name)) =
            Cardinality(PlacesUpTo(s, n - 1, name)) + (IF s[n] = name THEN 1 ELSE 0)
      BY PlacesGrow
    <3>4. QED
      BY <2>1, <3>1, <3>2, <3>3
  <2>4. QED
    BY <2>2, <2>3 DEF KeepsNames
<1>4. QED
  BY <1>2, <1>3

LEMMA FilterKeeps ==
    ASSUME NEW blank, NEW S, NEW s \in Seq(S), NEW f, FilterUpTo(blank, f, s, Len(s))
    PROVE  KeepsNames(blank, S, f[Len(s)], s, Len(s))
<1> DEFINE T == {n \in 0 .. Len(s) : ~KeepsNames(blank, S, f[n], s, n)}
<1>1. Len(s) \in Nat
  OBVIOUS
<1>2. ASSUME T # {}
      PROVE  FALSE
  <2>1. T \subseteq Nat
    OBVIOUS
  <2>2. PICK n \in T : \A k \in T : n <= k
    BY <1>2, <2>1, LeastOf
  <2>3. n \in 0 .. Len(s) /\ ~KeepsNames(blank, S, f[n], s, n)
    BY <2>2
  <2>4. CASE n = 0
    <3>1. f[0] = <<>>
      BY <1>1, <2>3, <2>4, FilterSteps DEF NamesStep
    <3>2. \A name : Places(<<>>, name) = {} /\ PlacesUpTo(s, 0, name) = {}
      BY DEF Places, PlacesUpTo
    <3>3. <<>> \in Seq(S)
      OBVIOUS
    <3>4. QED
      BY <2>3, <2>4, <3>1, <3>2, <3>3 DEF KeepsNames
  <2>5. CASE n # 0
    <3>1. n \in 1 .. Len(s) /\ n - 1 \in 0 .. Len(s) /\ ~(n <= n - 1)
      BY <1>1, <2>3, <2>5
    <3>2. KeepsNames(blank, S, f[n - 1], s, n - 1)
      BY <2>2, <3>1
    <3>3. QED
      BY <2>3, <3>1, <3>2, NamesKeptStep
  <2>6. QED
    BY <2>4, <2>5
<1>3. QED
  BY <1>1, <1>2

(***************************************************************************)
(* The names of the setting are its parts that are not blank, each as      *)
(* often as the setting has it.                                            *)
(***************************************************************************)
LEMMA NamesKept ==
    ASSUME setting \in Seq(STRING)
    PROVE  /\ GetConfiguredProviderNames \in Seq(STRING)
           /\ \A name \in STRING \ {""} :
                Cardinality(Places(GetConfiguredProviderNames, name))
                    = Cardinality(Places(setting, name))
<1>1. FilterUpTo("", NamesUpTo, setting, Len(setting))
  BY NamesUpToFilters
<1>2. KeepsNames("", STRING, NamesUpTo[Len(setting)], setting, Len(setting))
  BY <1>1, FilterKeeps
<1>3. \A name : PlacesUpTo(setting, Len(setting), name) = Places(setting, name)
  <2>1. DOMAIN setting = 1 .. Len(setting)
    OBVIOUS
  <2>2. QED
    BY <2>1 DEF Places, PlacesUpTo
<1>4. QED
  BY <1>2, <1>3 DEF KeepsNames, GetConfiguredProviderNames

-----------------------------------------------------------------------------
(***************************************************************************)
(* The calls of a dispatch, as a sequence s made along the order o.        *)
(***************************************************************************)
Kinds == {"accepted", "failed", "unconfigured", "threw"}
TraceCall == [position: Nat, attempt: 1 .. MaxRetries, at: Nat, kind: Kinds,
              error: Errors \cup {None}]

Cures(o, c) ==
    \/ c.kind = "threw"
    \/ c.kind = "failed" /\ IsRetryable(o[c.position], c.error)
MustRetry(o, c) == Cures(o, c) /\ c.attempt < MaxRetries
ResultOf(o, c) ==
    IF c.kind = "failed" THEN Normalized(o[c.position], c.error)
    ELSE IF c.kind = "threw" THEN Threw ELSE Unconfigured
WaitAfter(o, c) == Timer(Delay(ResultOf(o, c), c.attempt))

(* After call c the next one is the n-th to provider p, at time t. *)
Follows(o, c, p, n, t) ==
    IF MustRetry(o, c)
        THEN p = c.position /\ n = c.attempt + 1 /\ t = c.at + WaitAfter(o, c)
        ELSE p = c.position + 1 /\ n = 1
Due(o, s, p, n, t) ==
    IF s = <<>> THEN p = 1 /\ n = 1 ELSE Follows(o, s[Len(s)], p, n, t)

Chained(o, s) ==
    \A i \in 1 .. Len(s) - 1 :
        Follows(o, s[i], s[i + 1].position, s[i + 1].attempt, s[i + 1].at)
(* The calls to the provider of the i-th: the last so many, and no other. *)
Counted(s) ==
    \A i \in 1 .. Len(s) :
        /\ s[i].attempt <= i
        /\ \A j \in 1 .. i :
            /\ s[j].position <= s[i].position
            /\ s[j].position = s[i].position <=> j > i - s[i].attempt
Covered(s) ==
    s # <<>> => \A p \in 1 .. s[Len(s)].position : \E i \in 1 .. Len(s) : s[i].position = p

LEMMA AppendFacts ==
    ASSUME NEW S, NEW s \in Seq(S), NEW c \in S
    PROVE  /\ Append(s, c) \in Seq(S) /\ Len(s) \in Nat
           /\ Len(Append(s, c)) = Len(s) + 1
           /\ \A i \in 1 .. Len(s) : Append(s, c)[i] = s[i] /\ s[i] \in S
           /\ Append(s, c)[Len(s) + 1] = c /\ Append(s, c) # <<>>
           /\ DOMAIN Append(s, c) = 1 .. (Len(s) + 1) /\ DOMAIN s = 1 .. Len(s)
           /\ s # <<>> => Len(s) \in 1 .. Len(s)
           /\ s = <<>> => Len(s) = 0
OBVIOUS

LEMMA CallTypes ==
    ASSUME NEW c \in TraceCall
    PROVE  /\ c.position \in Nat /\ c.attempt \in Nat /\ c.attempt \in 1 .. MaxRetries
           /\ c.at \in Nat /\ c.kind \in Kinds /\ c.error \in Errors \cup {None}
BY RetryLimitsAssumption DEF TraceCall

LEMMA ChainGrows ==
    ASSUME NEW o, NEW s \in Seq(TraceCall), NEW c \in TraceCall,
           Due(o, s, c.position, c.attempt, c.at), Chained(o, s),
           NEW q, q = Append(s, c)
    PROVE  Chained(o, q)
<1>1. /\ Len(s) \in Nat /\ Len(q) = Len(s) + 1
      /\ \A i \in 1 .. Len(s) : q[i] = s[i]
      /\ q[Len(s) + 1] = c
      /\ s = <<>> => Len(s) = 0
  BY AppendFacts
<1>2. ASSUME NEW i \in 1 .. Len(q) - 1
      PROVE  Follows(o, q[i], q[i + 1].position, q[i + 1].attempt, q[i + 1].at)
  <2>1. i \in 1 .. Len(s) /\ q[i] = s[i]
    BY <1>1
  <2>2. CASE i = Len(s)
    <3>1. s # <<>> /\ q[i + 1] = c
      BY <1>1, <2>1, <2>2
    <3>2. QED
      BY <2>1, <2>2, <3>1 DEF Due
  <2>3. CASE i # Len(s)
    <3>1. i \in 1 .. Len(s) - 1 /\ q[i + 1] = s[i + 1]
      BY <1>1, <2>1, <2>3
    <3>2. QED
      BY <2>1, <3>1 DEF Chained
  <2>4. QED
    BY <2>2, <2>3
<1>3. QED
  BY <1>2 DEF Chained

LEMMA DueTypes ==
    ASSUME NEW o, NEW s \in Seq(TraceCall), NEW c \in TraceCall, s # <<>>,
           Due(o, s, c.position, c.attempt, c.at), NEW d, d = s[Len(s)]
    PROVE  /\ d \in TraceCall /\ d.position \in Nat /\ d.attempt \in Nat
           /\ c.position \in Nat /\ c.attempt \in Nat
           /\ \/ c.position = d.position /\ c.attempt = d.attempt + 1
              \/ c.position = d.position + 1 /\ c.attempt = 1
<1>1. d \in TraceCall
  BY AppendFacts
<1>2. d.position \in Nat /\ d.attempt \in Nat /\ c.position \in Nat /\ c.attempt \in Nat
  BY <1>1, RetryLimitsAssumption DEF TraceCall
<1>3. QED
  BY <1>1, <1>2 DEF Due, Follows

LEMMA CountGrows ==
    ASSUME NEW o, NEW s \in Seq(TraceCall), NEW c \in TraceCall,
           Due(o, s, c.position, c.attempt, c.at), Counted(s),
           NEW q, q = Append(s, c)
    PROVE  Counted(q)
<1>1. /\ Len(s) \in Nat /\ Len(q) = Len(s) + 1
      /\ \A i \in 1 .. Len(s) : q[i] = s[i] /\ s[i] \in TraceCall
      /\ q[Len(s) + 1] = c
      /\ s # <<>> => Len(s) \in 1 .. Len(s)
      /\ s = <<>> => Len(s) = 0
  BY AppendFacts
<1>2. c.position \in Nat /\ c.attempt \in Nat /\ c.attempt >= 1
  BY RetryLimitsAssumption DEF TraceCall
<1>3. \A i \in 1 .. Len(s) : s[i].position \in Nat /\ s[i].attempt \in Nat
  BY <1>1, CallTypes
<1>4. c.attempt <= Len(q) /\ \A j \in 1 .. Len(s) :
            /\ s[j].position <= c.position
            /\ s[j].position = c.position <=> j > Len(q) - c.attempt
  <2>1. CASE s = <<>>
    BY <1>1, <2>1 DEF Due
  <2>2. CASE s # <<>>
    <3>1. PICK d : d = s[Len(s)]
      OBVIOUS
    <3>2. /\ d.position \in Nat /\ d.attempt \in Nat
          /\ \/ c.position = d.position /\ c.attempt = d.attempt + 1
             \/ c.position = d.position + 1 /\ c.attempt = 1
      BY <2>2, <3>1, DueTypes
    <3>3. /\ d.attempt <= Len(s)
          /\ \A j \in 1 .. Len(s) :
                /\ s[j].position <= d.position
                /\ s[j].position = d.position <=> j > Len(s) - d.attempt
      BY <1>1, <2>2, <3>1 DEF Counted
    <3>4. QED
      BY <1>1, <1>2, <1>3, <3>2, <3>3
  <2>3. QED
    BY <2>1, <2>2
<1>5. ASSUME NEW i \in 1 .. Len(q), NEW j \in 1 .. i
      PROVE  /\ q[i].attempt <= i
             /\ q[j].position <= q[i].position
             /\ q[j].position = q[i].position <=> j > i - q[i].attempt
  <2>1. CASE i = Len(s) + 1 /\ j = i
    BY <1>1, <1>2, <1>4, <2>1
  <2>2. CASE i = Len(s) + 1 /\ j # i
    <3>1. j \in 1 .. Len(s) /\ q[j] = s[j] /\ q[i] = c
      BY <1>1, <2>2
    <3>2. QED
      BY <1>1, <1>4, <2>2, <3>1
  <2>3. CASE i # Len(s) + 1
    <3>1. i \in 1 .. Len(s) /\ j \in 1 .. Len(s) /\ q[j] = s[j] /\ q[i] = s[i]
      BY <1>1, <2>3
    <3>2. QED
      BY <3>1 DEF Counted
  <2>4. QED
    BY <2>1, <2>2, <2>3
<1>6. \A i \in 1 .. Len(q) : 1 \in 1 .. i
  BY <1>1
<1>7. QED
  BY <1>5, <1>6 DEF Counted

LEMMA CoverGrows ==
    ASSUME NEW o, NEW s \in Seq(TraceCall), NEW c \in TraceCall,
           Due(o, s, c.position, c.attempt, c.at), Covered(s),
           NEW q, q = Append(s, c)
    PROVE  Covered(q)
<1>1. /\ Len(s) \in Nat /\ Len(q) = Len(s) + 1
      /\ \A i \in 1 .. Len(s) : q[i] = s[i]
      /\ q[Len(s) + 1] = c
  BY AppendFacts
<1>2. ASSUME NEW p \in 1 .. c.position
      PROVE  \E i \in 1 .. Len(q) : q[i].position = p
  <2>1. CASE p = c.position
    BY <1>1, <2>1
  <2>2. CASE p # c.position
    <3>1. c.position \in Nat
      BY DEF TraceCall
    <3>2. s # <<>>
      BY <2>2, <3>1 DEF Due
    <3>3. PICK d : d = s[Len(s)]
      OBVIOUS
    <3>4. /\ d.position \in Nat
          /\ c.position = d.position \/ c.position = d.position + 1
      BY <3>2, <3>3, DueTypes
    <3>5. p \in 1 .. d.position
      BY <2>2, <3>1, <3>4
    <3>6. PICK i \in 1 .. Len(s) : s[i].position = p
      BY <3>2, <3>3, <3>5 DEF Covered
    <3>7. QED
      BY <1>1, <3>6
  <2>3. QED
    BY <2>1, <2>2
<1>3. q[Len(q)] = c
  BY <1>1
<1>4. QED
  BY <1>2, <1>3 DEF Covered

(* So many calls of its provider come up to a call as its attempt says. *)
LEMMA CallsCounted ==
    ASSUME NEW s \in Seq(TraceCall), Counted(s), NEW i \in 1 .. Len(s)
    PROVE  Cardinality({j \in 1 .. i : s[j].position = s[i].position}) = s[i].attempt
<1>1. Len(s) \in Nat /\ s[i] \in TraceCall
  OBVIOUS
<1>2. s[i].attempt \in Nat /\ s[i].attempt >= 1
  BY <1>1, CallTypes
<1>3. /\ s[i].attempt <= i
      /\ \A j \in 1 .. i : s[j].position = s[i].position <=> j > i - s[i].attempt
  BY DEF Counted
<1> DEFINE n == s[i].attempt
<1>4. {j \in 1 .. i : s[j].position = s[i].position} = (i - n + 1) .. i
  <2> HIDE DEF n
  <2>1. \A j \in 1 .. i : s[j].position = s[i].position <=> j \in (i - n + 1) .. i
    BY <1>1, <1>2, <1>3 DEF n
  <2>2. \A j \in (i - n + 1) .. i : j \in 1 .. i
    BY <1>1, <1>2, <1>3 DEF n
  <2>3. QED
    BY <2>1, <2>2
<1>5. Cardinality((i - n + 1) .. i) = n
  <2> HIDE DEF n
  <2>1. n \in Nat /\ n >= 1 /\ n <= i /\ i \in Nat
    BY <1>1, <1>2, <1>3 DEF n
  <2>2. i - n + 1 \in Int /\ i \in Int /\ ~(i - n + 1 > i) /\ i - (i - n + 1) + 1 = n
    BY <2>1
  <2>3. QED
    BY ONLY <2>2, FS_Interval
<1>6. QED
  BY <1>4, <1>5

(* Each provider is called MaxRetries times at most in its turn. *)
LEMMA CallsBounded ==
    ASSUME NEW o, NEW s \in Seq(TraceCall), NEW name, Counted(s),
           IsFiniteSet(Places(o, name)), \A i \in 1 .. Len(s) : s[i].position \in DOMAIN o
    PROVE  Cardinality({i \in DOMAIN s : o[s[i].position] = name})
                <= MaxRetries * Cardinality(Places(o, name))
<1> DEFINE I == {i \in DOMAIN s : o[s[i].position] = name}
           T == Places(o, name) \X (1 .. MaxRetries)
           f == [i \in I |-> <<s[i].position, s[i].attempt>>]
<1>1. /\ Len(s) \in Nat /\ DOMAIN s = 1 .. Len(s)
      /\ \A i \in 1 .. Len(s) : s[i] \in TraceCall
  OBVIOUS
<1>2. \A i \in 1 .. Len(s) : /\ s[i].position \in Nat /\ s[i].attempt \in Nat
                             /\ s[i].attempt \in 1 .. MaxRetries
  BY <1>1, CallTypes
<1>3. IsFiniteSet(I)
  <2>1. IsFiniteSet(1 .. Len(s))
    BY <1>1, FS_Interval
  <2>2. I \in SUBSET (1 .. Len(s))
    BY <1>1
  <2>3. QED
    BY <2>1, <2>2, FS_Subset
<1>4. IsFiniteSet(T) /\ Cardinality(T) = Cardinality(Places(o, name)) * MaxRetries
  <2>1. MaxRetries \in Nat /\ MaxRetries >= 1
    BY RetryLimitsAssumption
  <2>2. IsFiniteSet(1 .. MaxRetries) /\ Cardinality(1 .. MaxRetries) = MaxRetries
    BY <2>1, FS_Interval
  <2>3. QED
    BY <2>2, FS_Product
<1>5. f \in [I -> T]
  BY <1>1, <1>2 DEF Places
<1>6. ASSUME NEW x \in I, NEW y \in I, x # y, f[x] = f[y]
      PROVE  FALSE
  <2>1. /\ x \in 1 .. Len(s) /\ y \in 1 .. Len(s)
        /\ s[x].position = s[y].position /\ s[x].attempt = s[y].attempt
    BY <1>1, <1>6
  <2>2. ASSUME NEW a \in 1 .. Len(s), NEW b \in 1 .. Len(s), a < b,
               s[a].position = s[b].position, s[a].attempt = s[b].attempt
        PROVE  FALSE
    <3>1. PICK n \in Nat : n = s[b].attempt
      BY <1>2
    <3>2. n >= 1 /\ n <= a
      BY <1>1, <1>2, <2>2, <3>1 DEF Counted
    <3>3. /\ \A j \in 1 .. a : s[j].position = s[a].position <=> j > a - n
          /\ \A j \in 1 .. b : s[j].position = s[b].position <=> j > b - n
      BY <2>2, <3>1 DEF Counted
    <3>4. b - n \in 1 .. b /\ b - n # a
      BY <2>2, <3>2, <3>3
    <3>5. ~(s[b - n].position = s[b].position)
      BY <3>2, <3>3, <3>4
    <3>6. a > b - n
      BY <2>2, <3>2, <3>3
    <3>7. b - n \in 1 .. a /\ b - n > a - n
      BY <2>2, <3>2, <3>4, <3>6
    <3>8. s[b - n].position = s[a].position
      BY <3>3, <3>7
    <3>9. QED
      BY <2>2, <3>5, <3>8
  <2>3. x < y \/ y < x
    BY <1>1, <1>6, <2>1
  <2>4. QED
    BY <2>1, <2>2, <2>3
<1>7. Cardinality(I) \in Nat /\ Cardinality(T) \in Nat
  BY <1>3, <1>4, FS_CardinalityType
<1>8. ~(Cardinality(T) < Cardinality(I))
  <2> HIDE DEF I, T, f
  <2>1. QED
    BY <1>3, <1>4, <1>5, <1>6, FS_PigeonHole
<1>9. Cardinality(Places(o, name)) \in Nat /\ MaxRetries \in Nat
  BY FS_CardinalityType, RetryLimitsAssumption
<1>10. Cardinality(I) <= Cardinality(Places(o, name)) * MaxRetries
  BY ONLY <1>4, <1>7, <1>8
<1>11. Cardinality(Places(o, name)) * MaxRetries = MaxRetries * Cardinality(Places(o, name))
  BY ONLY <1>9
<1>12. QED
  BY <1>10, <1>11

-----------------------------------------------------------------------------
(***************************************************************************)
(* The inductive invariant: the calls made are those of the loop, one      *)
(* after the other along the order, and the one that is due follows them.  *)
(***************************************************************************)
Unstarted == {"startup"} \cup ErrorCode
ProperName == STRING \ {""}

Kept ==
    \A name \in ProperName :
        Cardinality(Places(order, name)) = Cardinality(Places(setting, name))
Ordered ==
    \A i \in 1 .. Len(trace) :
        /\ trace[i].position \in DOMAIN order
        /\ trace[i].kind = "failed" => trace[i].error \in Errors
Sleeping(c) ==
    /\ MustRetry(order, c) /\ c.position = provider /\ c.attempt = attempt
    /\ wakeAt = c.at + WaitAfter(order, c)
Spent(c) == ~MustRetry(order, c) /\ c.position = Len(order)
Poised ==
    /\ pc = "startup" => provider = 1 /\ attempt = 1
    /\ pc = "send" => Due(order, trace, provider, attempt, now)
    /\ pc = "sleep" => trace # <<>> /\ Sleeping(trace[Len(trace)])
    /\ pc = "exhausted" => trace # <<>> /\ Spent(trace[Len(trace)])

IInv ==
    /\ TypeOK /\ trace \in Seq(TraceCall)
    /\ IF pc \in Unstarted THEN trace = <<>> ELSE Kept
    /\ Chained(order, trace) /\ Counted(trace) /\ Covered(trace)
    /\ Ordered /\ Poised

LEMMA ConstantTypes ==
    /\ MaxRetries \in Nat /\ MaxRetries >= 1 /\ Second \in Nat /\ Second >= 1
    /\ MaxTimer \in Nat /\ MaxTimer >= 1
BY RetryLimitsAssumption

(* However long the delay, a timer runs for a natural number of units. *)
LEMMA TimerType ==
    ASSUME NEW delay
    PROVE  Timer(delay) \in Nat
BY ConstantTypes DEF Timer

LEMMA CodesApart ==
    /\ \A c \in ErrorCode : c \notin {"startup", "send", "sleep", "sent", "exhausted"}
    /\ "startup" \in Unstarted /\ "send" \notin Unstarted /\ "sleep" \notin Unstarted
    /\ "sent" \notin Unstarted /\ "exhausted" \notin Unstarted
    /\ Unstarted = {"startup"} \cup ErrorCode
BY DEF Unstarted, ErrorCode, BadRequest, Forbidden, NotFound, Conflict, Internal

(* What every call does, by the outcome c of the call. *)
Outcome(c) ==
    \/ /\ c.kind = "accepted" /\ pc' = "sent"
       /\ UNCHANGED <<provider, attempt, wakeAt>>
    \/ /\ MustRetry(order, c) /\ pc' = "sleep"
       /\ wakeAt' = now + WaitAfter(order, c)
       /\ UNCHANGED <<provider, attempt>>
    \/ /\ ~MustRetry(order, c) /\ provider < Len(order)
       /\ pc' = "send" /\ provider' = provider + 1 /\ attempt' = 1
       /\ UNCHANGED wakeAt
    \/ /\ ~MustRetry(order, c) /\ provider = Len(order)
       /\ pc' = "exhausted" /\ UNCHANGED <<provider, attempt, wakeAt>>
Made(c) ==
    /\ pc = "send"
    /\ c.position = provider /\ c.attempt = attempt /\ c.at = now
    /\ c.kind = "failed" => c.error \in Errors
    /\ trace' = Append(trace, c)
    /\ Outcome(c)
    /\ UNCHANGED <<setting, order, configured, now>>

LEMMA FailureOutcome ==
    ASSUME NEW c, NEW result, AfterFailure(result), result = ResultOf(order, c),
           result.isRetryable <=> Cures(order, c), c.attempt = attempt
    PROVE  Outcome(c)
<1>1. MayRetry(result) <=> MustRetry(order, c)
  BY DEF MayRetry, MustRetry
<1>2. Timer(Delay(result, attempt)) = WaitAfter(order, c)
  BY DEF WaitAfter
<1>3. QED
  BY <1>1, <1>2 DEF AfterFailure, Outcome

LEMMA CallTyped ==
    ASSUME TypeOK, pc = "send", NEW kind \in Kinds, NEW e \in Errors \cup {None}
    PROVE  /\ Call(kind, e) \in TraceCall
           /\ Call(kind, e).position = provider /\ Call(kind, e).attempt = attempt
           /\ Call(kind, e).at = now /\ Call(kind, e).kind = kind /\ Call(kind, e).error = e
           /\ provider \in DOMAIN order
<1>1. provider \in DOMAIN order /\ now \in Nat /\ attempt \in 1 .. MaxRetries
  BY CodesApart DEF TypeOK
<1>2. provider \in Nat
  BY <1>1 DEF TypeOK
<1>3. QED
  BY <1>1, <1>2 DEF Call, TraceCall

LEMMA CallsMade ==
    ASSUME TypeOK, Succeed \/ Fail \/ Misconfigured \/ Throw
    PROVE  \E c \in TraceCall : Made(c)
<1>1. CASE Succeed
  <2> DEFINE c == Call("accepted", None)
  <2>1. c \in TraceCall /\ c.position = provider /\ c.attempt = attempt /\ c.at = now
        /\ c.kind = "accepted"
    BY <1>1, CallTyped DEF Succeed, Kinds
  <2>2. trace' = Append(trace, c)
    BY <1>1 DEF Succeed
  <2> HIDE DEF c
  <2>3. Outcome(c)
    BY <1>1, <2>1 DEF Succeed, Outcome
  <2>4. QED
    BY <1>1, <2>1, <2>2, <2>3 DEF Succeed, Made
<1>2. CASE Fail
  <2>1. PICK e \in Errors : /\ trace' = Append(trace, Call("failed", e))
                            /\ AfterFailure(Normalized(order[provider], e))
    BY <1>2 DEF Fail
  <2>2. PICK c : c = Call("failed", e)
    OBVIOUS
  <2>3. /\ c \in TraceCall /\ c.position = provider /\ c.attempt = attempt /\ c.at = now
        /\ c.kind = "failed" /\ c.error = e
    BY <1>2, <2>2, CallTyped DEF Fail, Kinds
  <2>4. PICK result : result = Normalized(order[provider], e)
    OBVIOUS
  <2>5. result = ResultOf(order, c)
    BY <2>3, <2>4 DEF ResultOf
  <2>6. result.isRetryable <=> Cures(order, c)
    BY <2>3, <2>4 DEF Normalized, Cures
  <2>7. Outcome(c)
    BY <2>1, <2>3, <2>4, <2>5, <2>6, FailureOutcome
  <2>8. QED
    BY <1>2, <2>1, <2>2, <2>3, <2>7 DEF Fail, Made
<1>3. CASE Misconfigured
  <2>1. PICK c : c = Call("unconfigured", None)
    OBVIOUS
  <2>2. /\ c \in TraceCall /\ c.position = provider /\ c.attempt = attempt /\ c.at = now
        /\ c.kind = "unconfigured"
    BY <1>3, <2>1, CallTyped DEF Misconfigured, Kinds
  <2>3. Unconfigured = ResultOf(order, c) /\ (Unconfigured.isRetryable <=> Cures(order, c))
    BY <2>2 DEF ResultOf, Cures, Unconfigured
  <2>4. Outcome(c)
    BY <1>3, <2>2, <2>3, FailureOutcome DEF Misconfigured
  <2>5. QED
    BY <1>3, <2>1, <2>2, <2>4 DEF Misconfigured, Made
<1>4. CASE Throw
  <2>1. PICK c : c = Call("threw", None)
    OBVIOUS
  <2>2. /\ c \in TraceCall /\ c.position = provider /\ c.attempt = attempt /\ c.at = now
        /\ c.kind = "threw"
    BY <1>4, <2>1, CallTyped DEF Throw, Kinds
  <2>3. Threw = ResultOf(order, c) /\ (Threw.isRetryable <=> Cures(order, c))
    BY <2>2 DEF ResultOf, Cures, Threw
  <2>4. Outcome(c)
    BY <1>4, <2>2, <2>3, FailureOutcome DEF Throw
  <2>5. QED
    BY <1>4, <2>1, <2>2, <2>4 DEF Throw, Made
<1>5. QED
  BY <1>1, <1>2, <1>3, <1>4

-----------------------------------------------------------------------------
LEMMA InitEstablishes == Init => IInv
<1> SUFFICES ASSUME Init
             PROVE  IInv
  OBVIOUS
<1>1. trace = <<>> /\ pc = "startup" /\ provider = 1 /\ attempt = 1 /\ order = <<>>
  BY DEF Init
<1>2. TypeOK
  BY <1>1, ConstantTypes, CodesApart DEF Init, TypeOK
<1>3. Chained(order, trace) /\ Counted(trace) /\ Covered(trace) /\ Ordered
  BY <1>1 DEF Chained, Counted, Covered, Ordered
<1>4. QED
  BY <1>1, <1>2, <1>3, CodesApart DEF IInv, Poised

(* Startup passes only with a list that is not empty, or ends in an error. *)
LEMMA StartupChecked ==
    ASSUME NEW providers
    PROVE  /\ StartupError(providers) = None => GetConfiguredProviderNames # <<>>
           /\ StartupError(providers) # None => StartupError(providers) \in ErrorCode
<1> DEFINE names == GetConfiguredProviderNames
<1>1. \/ StartupError(providers) = "PROVIDER_DUPLICATE"
      \/ names = <<>> /\ StartupError(providers) = "PROVIDER_PRIORITY_EMPTY"
      \/ names # <<>> /\ StartupError(providers) \in {"PROVIDER_UNKNOWN", None,
                                                      "RATE_LIMIT_NOT_CONFIGURED"}
  BY DEF StartupError
<1>2. {"PROVIDER_DUPLICATE", "PROVIDER_PRIORITY_EMPTY", "PROVIDER_UNKNOWN",
       "RATE_LIMIT_NOT_CONFIGURED"} \subseteq ErrorCode
  BY DEF ErrorCode, Internal
<1>3. None \notin ErrorCode
  BY RetryErrorsAssumption
<1>4. QED
  BY <1>1, <1>2, <1>3

LEMMA StartKeeps == IInv /\ Start => IInv'
<1> SUFFICES ASSUME IInv, Start
             PROVE  IInv'
  OBVIOUS
<1>1. /\ pc = "startup" /\ trace' = trace /\ trace = <<>> /\ setting' = setting
      /\ configured' = configured /\ provider' = provider /\ attempt' = attempt
      /\ wakeAt' = wakeAt /\ now' = now /\ provider = 1 /\ attempt = 1
  BY CodesApart DEF Start, IInv, Poised
<1>2. setting \in Seq(STRING) /\ TypeOK
  BY RetryLimitsAssumption DEF IInv, TypeOK
<1>3. Chained(order', trace') /\ Counted(trace') /\ Covered(trace') /\ Ordered'
      /\ trace' \in Seq(TraceCall)
  BY <1>1 DEF Chained, Counted, Covered, Ordered, IInv
<1>4. PICK providers \in Modules :
        \/ /\ StartupError(providers) = None
           /\ pc' = "send" /\ order' = GetConfiguredProviderNames
        \/ /\ StartupError(providers) # None
           /\ pc' = StartupError(providers) /\ UNCHANGED order
  BY DEF Start
<1>5. CASE StartupError(providers) = None
  <2>1. pc' = "send" /\ order' = GetConfiguredProviderNames
    BY <1>4, <1>5
  <2>2. order' \in Seq(STRING) /\ order' # <<>>
    BY <1>2, <1>5, <2>1, NamesKept, StartupChecked
  <2>3. 1 \in DOMAIN order'
    BY <2>2
  <2>4. TypeOK'
    BY <1>1, <1>2, <2>1, <2>2, <2>3 DEF TypeOK
  <2>5. Kept'
    BY <1>1, <1>2, <2>1, NamesKept DEF Kept, ProperName
  <2>6. Poised'
    BY <1>1, <2>1 DEF Poised, Due
  <2>7. QED
    BY <1>3, <2>1, <2>4, <2>5, <2>6, CodesApart DEF IInv
<1>6. CASE StartupError(providers) # None
  <2>1. pc' \in ErrorCode /\ order' = order
    BY <1>4, <1>6, StartupChecked
  <2>2. pc' \in Unstarted /\ pc' \notin {"startup", "send", "sleep", "sent", "exhausted"}
    BY <2>1, CodesApart
  <2>3. TypeOK'
    BY <1>1, <1>2, <2>1 DEF TypeOK, Over
  <2>4. Poised'
    BY <2>2 DEF Poised
  <2>5. QED
    BY <1>1, <1>3, <2>2, <2>3, <2>4 DEF IInv
<1>7. QED
  BY <1>5, <1>6

LEMMA CallKeeps ==
    ASSUME IInv, NEW c \in TraceCall, Made(c)
    PROVE  IInv'
<1>1. /\ TypeOK /\ trace \in Seq(TraceCall) /\ Kept
      /\ Chained(order, trace) /\ Counted(trace) /\ Covered(trace) /\ Ordered
      /\ Due(order, trace, c.position, c.attempt, c.at)
  BY CodesApart DEF IInv, Poised, Made
<1>2. /\ pc = "send" /\ order' = order /\ setting' = setting /\ now' = now
      /\ configured' = configured /\ trace' = Append(trace, c)
      /\ c.position = provider /\ c.attempt = attempt /\ c.at = now
      /\ c.kind = "failed" => c.error \in Errors
  BY DEF Made
<1>3. provider \in DOMAIN order /\ order \in Seq(STRING) /\ attempt \in 1 .. MaxRetries
      /\ provider \in 1 .. Len(order) /\ Len(order) \in Nat
  BY <1>1, <1>2, CodesApart DEF TypeOK
<1>4. /\ trace' \in Seq(TraceCall) /\ trace' # <<>> /\ Len(trace') = Len(trace) + 1
      /\ trace'[Len(trace')] = c /\ Len(trace) \in Nat
      /\ \A i \in 1 .. Len(trace) : trace'[i] = trace[i]
  BY <1>1, <1>2, AppendFacts
<1>5. Chained(order', trace') /\ Counted(trace') /\ Covered(trace')
  <2> SUFFICES ASSUME NEW q, q = Append(trace, c)
               PROVE  Chained(order, q) /\ Counted(q) /\ Covered(q)
    BY <1>2
  <2>1. QED
    BY <1>1, ChainGrows, CountGrows, CoverGrows
<1>6. Ordered'
  <2>1. ASSUME NEW i \in 1 .. Len(trace')
        PROVE  /\ trace'[i].position \in DOMAIN order
               /\ trace'[i].kind = "failed" => trace'[i].error \in Errors
    <3>1. CASE i = Len(trace')
      BY <1>2, <1>3, <1>4, <3>1
    <3>2. CASE i # Len(trace')
      <4>1. i \in 1 .. Len(trace) /\ trace'[i] = trace[i]
        BY <1>4, <3>2
      <4>2. QED
        BY <1>1, <4>1 DEF Ordered
    <3>3. QED
      BY <3>1, <3>2
  <2>2. QED
    BY <1>2, <2>1 DEF Ordered
<1>7. /\ TypeOK' /\ Poised' /\ pc' \in {"send", "sleep", "sent", "exhausted"}
  <2>1. /\ setting' \in Priorities /\ order' \in Seq(STRING) /\ configured' \in Credentials
        /\ now' \in Nat /\ now \in Nat /\ wakeAt \in Nat
    BY <1>1, <1>2 DEF TypeOK
  <2>2. ASSUME pc' \in {"send", "sleep", "sent", "exhausted"}, provider' \in DOMAIN order,
               attempt' \in 1 .. MaxRetries, wakeAt' \in Nat
        PROVE  TypeOK'
    BY <1>2, <2>1, <2>2 DEF TypeOK, Over
  <2>3. CASE c.kind = "accepted" /\ pc' = "sent" /\ UNCHANGED <<provider, attempt, wakeAt>>
    BY <1>3, <2>1, <2>2, <2>3 DEF Poised
  <2>4. CASE /\ MustRetry(order, c) /\ pc' = "sleep"
             /\ wakeAt' = now + WaitAfter(order, c) /\ UNCHANGED <<provider, attempt>>
    <3>1. WaitAfter(order, c) \in Nat
      BY TimerType DEF WaitAfter
    <3>2. wakeAt' \in Nat
      BY <2>1, <2>4, <3>1
    <3>3. Poised'
      BY <1>2, <1>4, <2>4 DEF Poised, Sleeping
    <3>4. QED
      BY <1>3, <2>2, <2>4, <3>2, <3>3
  <2>5. CASE /\ ~MustRetry(order, c) /\ provider < Len(order)
             /\ pc' = "send" /\ provider' = provider + 1 /\ attempt' = 1
             /\ UNCHANGED wakeAt
    <3>1. provider' \in DOMAIN order /\ attempt' \in 1 .. MaxRetries
      BY <1>3, <2>5, ConstantTypes
    <3>2. Poised'
      BY <1>2, <1>4, <2>5 DEF Poised, Due, Follows
    <3>3. QED
      BY <2>1, <2>2, <2>5, <3>1, <3>2
  <2>6. CASE /\ ~MustRetry(order, c) /\ provider = Len(order)
             /\ pc' = "exhausted" /\ UNCHANGED <<provider, attempt, wakeAt>>
    <3>1. Poised'
      BY <1>2, <1>4, <2>6 DEF Poised, Spent
    <3>2. QED
      BY <1>3, <2>1, <2>2, <2>6, <3>1
  <2>7. QED
    BY <2>3, <2>4, <2>5, <2>6 DEF Made, Outcome
<1>8. Kept'
  BY <1>1, <1>2 DEF Kept
<1>9. QED
  BY <1>4, <1>5, <1>6, <1>7, <1>8, CodesApart DEF IInv

LEMMA WakeKeeps == IInv /\ Wake => IInv'
<1> SUFFICES ASSUME IInv, Wake
             PROVE  IInv'
  OBVIOUS
<1>1. /\ pc = "sleep" /\ now' = wakeAt /\ attempt' = attempt + 1 /\ pc' = "send"
      /\ setting' = setting /\ order' = order /\ configured' = configured
      /\ provider' = provider /\ wakeAt' = wakeAt /\ trace' = trace
  BY DEF Wake
<1>2. /\ TypeOK /\ trace \in Seq(TraceCall) /\ Kept
      /\ Chained(order, trace) /\ Counted(trace) /\ Covered(trace) /\ Ordered
      /\ trace # <<>> /\ Sleeping(trace[Len(trace)])
  BY <1>1, CodesApart DEF IInv, Poised
<1>3. PICK c : c = trace[Len(trace)]
  OBVIOUS
<1>4. /\ MustRetry(order, c) /\ c.position = provider /\ c.attempt = attempt
      /\ wakeAt = c.at + WaitAfter(order, c) /\ attempt < MaxRetries
  BY <1>2, <1>3 DEF Sleeping, MustRetry
<1>5. attempt' \in 1 .. MaxRetries
  BY <1>1, <1>2, <1>4, ConstantTypes DEF TypeOK
<1>6. TypeOK'
  BY <1>1, <1>2, <1>5, CodesApart DEF TypeOK
<1>7. Poised'
  BY <1>1, <1>2, <1>3, <1>4 DEF Poised, Due, Follows
<1>8. Kept' /\ Ordered'
  BY <1>1, <1>2 DEF Kept, Ordered
<1>9. QED
  BY <1>1, <1>2, <1>6, <1>7, <1>8, CodesApart DEF IInv

LEMMA StepKeeps == IInv /\ [Next]_vars => IInv'
<1> SUFFICES ASSUME IInv, [Next]_vars
             PROVE  IInv'
  OBVIOUS
<1>1. CASE UNCHANGED vars
  BY <1>1 DEF vars, IInv, TypeOK, Kept, Ordered, Poised, Sleeping, Spent
<1>2. CASE Start
  BY <1>2, StartKeeps
<1>3. CASE Succeed \/ Fail \/ Misconfigured \/ Throw
  <2>1. TypeOK
    BY DEF IInv
  <2>2. PICK c \in TraceCall : Made(c)
    BY <1>3, <2>1, CallsMade
  <2>3. QED
    BY <2>2, CallKeeps
<1>4. CASE Wake
  BY <1>4, WakeKeeps
<1>5. QED
  BY <1>1, <1>2, <1>3, <1>4 DEF Next, Done

LEMMA AlwaysIInv == Spec => []IInv
<1>1. QED
  BY InitEstablishes, StepKeeps, PTL DEF Spec

(***************************************************************************)
(* Every variable keeps its type: the dispatch never points past the end   *)
(* of the order, never counts an attempt above MaxRetries, and ends with a *)
(* startup error of the catalogue, a success or the end of the order.      *)
(***************************************************************************)
THEOREM TypeCorrect == Spec => []TypeOK
<1>1. IInv => TypeOK
  BY DEF IInv
<1>2. QED
  BY <1>1, AlwaysIInv, PTL

-----------------------------------------------------------------------------
(* A call is followed by another to its provider when it must be. *)
LEMMA RetriedExactly ==
    ASSUME IInv, NEW i \in DOMAIN trace
    PROVE  /\ i \in 1 .. Len(trace) /\ trace[i] \in TraceCall
           /\ Retried(i) => /\ MustRetry(order, trace[i])
                            /\ trace[i + 1] \in TraceCall
                            /\ trace[i + 1].at = trace[i].at + WaitAfter(order, trace[i])
           /\ i < Len(trace) => (Retried(i) <=> MustRetry(order, trace[i]))
           /\ i = Len(trace) => ~Retried(i)
           /\ Cardinality(CallsBefore(i)) = trace[i].attempt
<1>1. /\ trace \in Seq(TraceCall) /\ Chained(order, trace) /\ Counted(trace)
  BY DEF IInv
<1>2. /\ Len(trace) \in Nat /\ DOMAIN trace = 1 .. Len(trace) /\ i \in 1 .. Len(trace)
      /\ \A j \in 1 .. Len(trace) : trace[j] \in TraceCall
  BY <1>1
<1>3. CASE i < Len(trace)
  <2>1. i \in 1 .. Len(trace) - 1 /\ i + 1 \in DOMAIN trace
    BY <1>2, <1>3
  <2>2. PICK n : n = trace[i + 1]
    OBVIOUS
  <2>3. Follows(order, trace[i], n.position, n.attempt, n.at)
    BY <1>1, <2>1, <2>2 DEF Chained
  <2>4. n.position \in Nat /\ trace[i].position \in Nat /\ n \in TraceCall
    BY <1>2, <2>1, <2>2, CallTypes
  <2>5. Retried(i) <=> n.position = trace[i].position
    BY <2>1, <2>2 DEF Retried
  <2>6. QED
    BY <1>1, <1>2, <1>3, <2>2, <2>3, <2>4, <2>5, CallsCounted DEF Follows, CallsBefore
<1>4. CASE i = Len(trace)
  <2>1. ~Retried(i)
    BY <1>2, <1>4 DEF Retried
  <2>2. QED
    BY <1>1, <1>2, <1>4, <2>1, CallsCounted DEF CallsBefore
<1>5. QED
  BY <1>2, <1>3, <1>4

LEMMA TransientCures ==
    ASSUME NEW c
    PROVE  Transient(c) <=> Cures(order, c)
BY DEF Transient, Cures

LEMMA TurnsExact ==
    ASSUME IInv, NEW i \in DOMAIN trace, i < Len(trace) \/ pc = "exhausted"
    PROVE  Retried(i) <=> /\ Transient(trace[i])
                          /\ Cardinality(CallsBefore(i)) < MaxRetries
<1>1. Transient(trace[i]) /\ Cardinality(CallsBefore(i)) < MaxRetries
        <=> MustRetry(order, trace[i])
  BY RetriedExactly, TransientCures DEF MustRetry
<1>2. CASE i < Len(trace)
  BY <1>1, <1>2, RetriedExactly
<1>3. CASE ~(i < Len(trace)) /\ pc = "exhausted"
  <2>1. i = Len(trace)
    BY <1>3, RetriedExactly DEF IInv
  <2>2. ~Retried(i)
    BY <2>1, RetriedExactly
  <2>3. ~MustRetry(order, trace[i])
    BY <1>3, <2>1 DEF IInv, Poised, Spent
  <2>4. QED
    BY <1>1, <2>2, <2>3
<1>4. QED
  BY <1>2, <1>3

LEMMA AllReached ==
    ASSUME IInv, pc = "exhausted"
    PROVE  /\ {trace[i].position : i \in DOMAIN trace} = DOMAIN order
           /\ \A p \in DOMAIN order : \E i \in DOMAIN trace : trace[i].position = p
<1>1. /\ trace \in Seq(TraceCall) /\ order \in Seq(STRING) /\ Covered(trace)
      /\ trace # <<>> /\ trace[Len(trace)].position = Len(order)
      /\ \A i \in 1 .. Len(trace) : trace[i].position \in DOMAIN order
  BY DEF IInv, TypeOK, Poised, Spent, Ordered
<1>2. DOMAIN trace = 1 .. Len(trace) /\ DOMAIN order = 1 .. Len(order)
  BY <1>1
<1>3. \A p \in DOMAIN order : \E i \in DOMAIN trace : trace[i].position = p
  BY <1>1, <1>2 DEF Covered
<1>4. QED
  BY <1>1, <1>2, <1>3

(* A name the setting lists is at some place of the order. *)
LEMMA ListedIsPlaced ==
    ASSUME NEW S, NEW s \in Seq(S), NEW name, NEW i \in DOMAIN s, s[i] = name
    PROVE  /\ IsFiniteSet(Places(s, name)) /\ Cardinality(Places(s, name)) \in Nat
           /\ Cardinality(Places(s, name)) # 0
<1>1. Len(s) \in Nat /\ DOMAIN s = 1 .. Len(s)
  OBVIOUS
<1>2. IsFiniteSet(Places(s, name))
  <2>1. IsFiniteSet(1 .. Len(s)) /\ Places(s, name) \in SUBSET (1 .. Len(s))
    BY <1>1, FS_Interval DEF Places
  <2>2. QED
    BY <2>1, FS_Subset
<1>3. i \in Places(s, name)
  BY DEF Places
<1>4. QED
  BY <1>2, <1>3, FS_CardinalityType, FS_EmptySet

LEMMA PlacesFinite ==
    ASSUME NEW S, NEW s \in Seq(S), NEW name
    PROVE  IsFiniteSet(Places(s, name)) /\ Cardinality(Places(s, name)) \in Nat
<1>1. Len(s) \in Nat /\ DOMAIN s = 1 .. Len(s)
  OBVIOUS
<1>2. IsFiniteSet(1 .. Len(s)) /\ Places(s, name) \in SUBSET (1 .. Len(s))
  BY <1>1, FS_Interval DEF Places
<1>3. QED
  BY <1>2, FS_Subset, FS_CardinalityType

LEMMA ElementsTyped ==
    ASSUME NEW S, NEW s \in Seq(S), NEW name \in ElementsOf(s)
    PROVE  name \in S
BY DEF ElementsOf

LEMMA NamesCalled ==
    ASSUME IInv, NEW name \in ElementsOf(setting), name \in ProperName,
           NEW I, I = {i \in DOMAIN trace : order[trace[i].position] = name}
    PROVE  /\ Cardinality(I) <= MaxRetries * Cardinality(Places(setting, name))
           /\ pc = "exhausted" => Cardinality(I) > 0
<1>1. setting \in Seq(STRING) /\ order \in Seq(STRING) /\ trace \in Seq(TraceCall)
  BY RetryLimitsAssumption DEF IInv, TypeOK
<1>2. PICK k \in DOMAIN setting : setting[k] = name
  BY DEF ElementsOf
<1>3. /\ Cardinality(Places(setting, name)) \in Nat
      /\ Cardinality(Places(setting, name)) # 0
  BY <1>1, <1>2, ListedIsPlaced
<1>4. CASE pc \in Unstarted
  <2>1. I = {} /\ pc # "exhausted"
    BY <1>4, CodesApart DEF IInv
  <2>2. Cardinality(I) = 0
    BY <2>1, FS_EmptySet
  <2>3. MaxRetries * Cardinality(Places(setting, name)) \in Nat
    BY <1>3, ConstantTypes
  <2>4. QED
    BY <2>1, <2>2, <2>3
<1>5. CASE pc \notin Unstarted
  <2>1. Cardinality(Places(order, name)) = Cardinality(Places(setting, name))
    BY <1>5 DEF IInv, Kept
  <2>2. IsFiniteSet(Places(order, name))
    BY <1>1, PlacesFinite
  <2>3. Counted(trace) /\ \A i \in 1 .. Len(trace) : trace[i].position \in DOMAIN order
    BY DEF IInv, Ordered
  <2>4. Cardinality(I) <= MaxRetries * Cardinality(Places(order, name))
    BY <1>1, <2>2, <2>3, CallsBounded
  <2>5. ASSUME pc = "exhausted"
        PROVE  Cardinality(I) > 0
    <3>1. Places(order, name) # {}
      BY <1>3, <2>1, FS_EmptySet
    <3>2. PICK p \in DOMAIN order : order[p] = name
      BY <3>1 DEF Places
    <3>3. PICK i \in DOMAIN trace : trace[i].position = p
      BY <2>5, AllReached
    <3>4. i \in I
      BY <3>2, <3>3
    <3>5. IsFiniteSet(1 .. Len(trace)) /\ I \in SUBSET (1 .. Len(trace))
      BY <1>1, FS_Interval
    <3>6. IsFiniteSet(I)
      BY <3>5, FS_Subset
    <3>7. Cardinality(I) \in Nat /\ Cardinality(I) # 0
      BY <3>4, <3>6, FS_CardinalityType, FS_EmptySet
    <3>8. QED
      BY <3>7
  <2>6. QED
    BY <2>1, <2>4, <2>5
<1>6. QED
  BY <1>4, <1>5

(***************************************************************************)
(* Retry and failover are exact: a provider is called again when and only  *)
(* when its failure is transient and it has turns left, every provider of  *)
(* the order is called before the dispatch gives up, and no listed name is *)
(* called more than MaxRetries times for each time it is listed.           *)
(***************************************************************************)
THEOREM FailsOverExactly == Spec => []FailoverExact
<1>1. ASSUME IInv
      PROVE  FailoverExact
  <2>1. \A i \in DOMAIN trace :
            i < Len(trace) \/ pc = "exhausted" =>
                (Retried(i) <=> /\ Transient(trace[i])
                                /\ Cardinality(CallsBefore(i)) < MaxRetries)
    BY <1>1, TurnsExact
  <2>2. pc = "exhausted" => {trace[i].position : i \in DOMAIN trace} = DOMAIN order
    BY <1>1, AllReached
  <2>3. ASSUME NEW name \in ElementsOf(setting) \ {""}
        PROVE  LET calls ==
                    Cardinality({i \in DOMAIN trace : order[trace[i].position] = name}) IN
               /\ calls <= MaxRetries
                            * Cardinality({i \in DOMAIN setting : setting[i] = name})
               /\ pc = "exhausted" => calls > 0
    <3>1. name \in ProperName
      <4>1. setting \in Seq(STRING)
        BY <1>1, RetryLimitsAssumption DEF IInv, TypeOK
      <4>2. name \in STRING /\ name \notin {""}
        BY <4>1, ElementsTyped, Zenon
      <4>3. QED
        BY <4>2, Zenon DEF ProperName
    <3>2. Places(setting, name) = {i \in DOMAIN setting : setting[i] = name}
      BY DEF Places
    <3>3. QED
      BY <1>1, <2>3, <3>1, <3>2, NamesCalled
  <2>4. QED
    BY <2>1, <2>2, <2>3 DEF FailoverExact
<1>2. QED
  BY <1>1, AlwaysIInv, PTL

-----------------------------------------------------------------------------
LEMMA TimesSecond ==
    ASSUME NEW x \in Nat
    PROVE  /\ x * Second \in Nat /\ 0 * Second = 0
           /\ x > 0 => x * Second > 0
<1>1. Second \in Nat /\ Second >= 1
  BY ConstantTypes
<1>2. x > 0 => (x - 1) * Second >= 0 /\ x * Second = (x - 1) * Second + Second
  BY ONLY <1>1
<1>3. x * Second \in Nat /\ x > 0 => (x - 1) * Second \in Nat
  BY ONLY <1>1
<1>4. QED
  BY ONLY <1>1, <1>2, <1>3

(* The wait taken from an error is one that it names, or none at all. *)
LEMMA WaitIsNamed ==
    ASSUME NEW e \in ProviderError, NEW x, x = ExtractRetryAfterMs(e)
    PROVE  /\ x \in Nat
           /\ x # 0 => x \in Named(e)
           /\ \A w : x = 0 /\ Named(e) = {w} => w = 0
<1>1. /\ e.retryAfterMs \in Nat \cup {None} /\ e.retryAfter \in Nat \cup {None}
      /\ e.retryAfterHeader \in Nat \cup {None} /\ None \notin Nat
  BY RetryErrorsAssumption DEF ProviderError
<1>2. CASE e.retryAfterMs # None /\ e.retryAfterMs > 0
  <2>1. x = e.retryAfterMs
    BY <1>2 DEF ExtractRetryAfterMs, Positive
  <2>2. QED
    BY <1>1, <1>2, <2>1 DEF Named
<1>3. CASE ~(e.retryAfterMs # None /\ e.retryAfterMs > 0)
  <2>1. PICK after : after = IF e.retryAfter # None THEN e.retryAfter
                             ELSE e.retryAfterHeader
    OBVIOUS
  <2>2. x = IF Positive(after) THEN after * Second ELSE 0
    BY <1>3, <2>1 DEF ExtractRetryAfterMs, Positive
  <2>3. after # None => after \in Nat /\ after * Second \in Named(e)
    BY <1>1, <2>1 DEF Named
  <2>4. CASE Positive(after)
    <3>1. after \in Nat /\ after > 0 /\ x = after * Second /\ x \in Named(e)
      BY <2>2, <2>3, <2>4 DEF Positive
    <3>2. x \in Nat /\ x > 0
      BY <3>1, TimesSecond
    <3>3. QED
      BY <3>1, <3>2
  <2>5. CASE ~Positive(after)
    <3>1. x = 0
      BY <2>2, <2>5
    <3>2. ASSUME NEW w, Named(e) = {w}
          PROVE  w = 0
      <4>1. CASE e.retryAfterMs # None
        <5>1. e.retryAfterMs = 0
          BY <1>1, <1>3, <4>1
        <5>2. e.retryAfterMs \in Named(e)
          BY <4>1 DEF Named
        <5>3. QED
          BY <3>2, <5>1, <5>2
      <4>2. CASE after # None
        <5>1. after \in Nat /\ after * Second \in Named(e)
          BY <2>3, <4>2
        <5>2. after = 0
          BY <2>5, <4>2, <5>1 DEF Positive
        <5>3. after * Second = 0
          BY <5>2, TimesSecond
        <5>4. QED
          BY <3>2, <5>1, <5>3
      <4>3. CASE e.retryAfterMs = None /\ after = None
        <5>1. e.retryAfter = None /\ e.retryAfterHeader = None
          BY <2>1, <4>3
        <5>2. Named(e) = {}
          BY <4>3, <5>1 DEF Named
        <5>3. QED
          BY <3>2, <5>2
      <4>4. QED
        BY <4>1, <4>2, <4>3
    <3>3. QED
      BY <3>1, <3>2
  <2>6. QED
    BY <2>4, <2>5
<1>4. QED
  BY <1>2, <1>3

(* The timer keeps the greater of two waits that it can run. *)
LEMMA TimerKeeps ==
    ASSUME NEW wait \in Nat, NEW backoff \in 1 .. MaxTimer, wait <= MaxTimer
    PROVE  /\ Timer(Longer(wait, backoff)) >= backoff
           /\ Timer(Longer(wait, backoff)) >= wait
BY ConstantTypes DEF Timer, Longer

(* What a call waits for: the backoff, and the wait its error names. *)
LEMMA WaitSuffices ==
    ASSUME NEW c \in TraceCall, c.kind = "failed" => c.error \in Errors,
           MustRetry(order, c), NEW backoff, backoff = CalculateExponentialBackoff(c.attempt),
           NEW named, named = IF c.kind = "failed" THEN Named(c.error) ELSE {},
           backoff \in 1 .. MaxTimer, \A w \in named : w <= MaxTimer
    PROVE  /\ WaitAfter(order, c) >= backoff
           /\ \A w \in named : named = {w} => WaitAfter(order, c) >= w
<1>0. MaxTimer \in Nat /\ backoff \in Nat
  BY ConstantTypes
<1>1. CASE c.kind = "failed"
  <2>1. PICK x : x = ExtractRetryAfterMs(c.error)
    OBVIOUS
  <2>2. c.error \in ProviderError /\ named = Named(c.error)
    BY <1>1, RetryErrorsAssumption
  <2>3. /\ x \in Nat
        /\ x # 0 => x \in named
        /\ \A w : x = 0 /\ named = {w} => w = 0
    BY <2>1, <2>2, WaitIsNamed
  <2>4. x <= MaxTimer
    BY <1>0, <2>3
  <2>5. WaitAfter(order, c) = Timer(Longer(x, backoff))
    BY <1>1, <2>1 DEF WaitAfter, ResultOf, Normalized, Delay
  <2>6. WaitAfter(order, c) >= backoff /\ WaitAfter(order, c) >= x
    BY <2>3, <2>4, <2>5, TimerKeeps
  <2>7. ASSUME NEW w \in named, named = {w}
        PROVE  w = x
    BY <2>3, <2>7
  <2>8. QED
    BY <2>6, <2>7
<1>2. CASE c.kind # "failed"
  <2>1. named = {}
    BY <1>2
  <2>2. ResultOf(order, c) = Threw \/ ResultOf(order, c) = Unconfigured
    BY <1>2 DEF ResultOf
  <2>3. ResultOf(order, c).retryAfterMs = 0
    BY <2>2 DEF Threw, Unconfigured
  <2>4. WaitAfter(order, c) = Timer(Longer(0, backoff))
    BY <2>3 DEF WaitAfter, Delay
  <2>5. WaitAfter(order, c) >= backoff
    BY <1>0, <2>4, TimerKeeps
  <2>6. QED
    BY <2>1, <2>5
<1>3. QED
  BY <1>1, <1>2

(***************************************************************************)
(* No retry comes before the backoff of its attempt, nor before the wait   *)
(* its error names when it names just one, both within a timer's range.    *)
(***************************************************************************)
THEOREM RetriesWait == Spec => []WaitsLongEnough
<1>1. ASSUME IInv, NEW i \in DOMAIN trace, Retried(i),
             NEW waited, waited = trace[i + 1].at - trace[i].at,
             NEW backoff, backoff = BaseDelay * 2 ^ (Cardinality(CallsBefore(i)) - 1),
             NEW named,
             named = IF trace[i].kind = "failed" THEN Named(trace[i].error) ELSE {},
             backoff \in 1 .. MaxTimer, \A w \in named : w <= MaxTimer
      PROVE  waited >= backoff /\ \A w \in named : named = {w} => waited >= w
  <2>1. PICK c : c = trace[i]
    OBVIOUS
  <2>2. /\ i \in 1 .. Len(trace) /\ c \in TraceCall /\ MustRetry(order, c)
        /\ trace[i + 1].at = c.at + WaitAfter(order, c)
        /\ Cardinality(CallsBefore(i)) = c.attempt
    BY <1>1, <2>1, RetriedExactly
  <2>3. c.kind = "failed" => c.error \in Errors
    BY <1>1, <2>1, <2>2 DEF IInv, Ordered
  <2>4. backoff = CalculateExponentialBackoff(c.attempt)
    BY <1>1, <2>2 DEF CalculateExponentialBackoff
  <2>5. /\ WaitAfter(order, c) >= backoff
        /\ \A w \in named : named = {w} => WaitAfter(order, c) >= w
    BY <1>1, <2>1, <2>2, <2>3, <2>4, WaitSuffices
  <2>6. waited = WaitAfter(order, c)
    <3>1. c.at \in Nat /\ WaitAfter(order, c) \in Nat
      BY <2>2, CallTypes, TimerType DEF WaitAfter
    <3>2. QED
      BY <1>1, <2>1, <2>2, <3>1
  <2>7. QED
    BY <2>5, <2>6
<1>2. ASSUME IInv
      PROVE  WaitsLongEnough
  <2> SUFFICES ASSUME NEW i \in DOMAIN trace, Retried(i)
               PROVE
        LET waited == trace[i + 1].at - trace[i].at
            backoff == BaseDelay * 2 ^ (Cardinality(CallsBefore(i)) - 1)
            named == IF trace[i].kind = "failed" THEN Named(trace[i].error) ELSE {} IN
        backoff \in 1 .. MaxTimer /\ (\A w \in named : w <= MaxTimer) =>
            /\ waited >= backoff
            /\ \A w \in named : named = {w} => waited >= w
    BY Zenon DEF WaitsLongEnough
  <2>1. PICK waited : waited = trace[i + 1].at - trace[i].at
    OBVIOUS
  <2>2. PICK backoff : backoff = BaseDelay * 2 ^ (Cardinality(CallsBefore(i)) - 1)
    OBVIOUS
  <2>3. PICK named :
            named = IF trace[i].kind = "failed" THEN Named(trace[i].error) ELSE {}
    OBVIOUS
  <2>4. backoff \in 1 .. MaxTimer /\ (\A w \in named : w <= MaxTimer) =>
            /\ waited >= backoff
            /\ \A w \in named : named = {w} => waited >= w
    BY <1>1, <1>2, <2>1, <2>2, <2>3
  <2>5. QED
    BY ONLY <2>1, <2>2, <2>3, <2>4
<1>3. QED
  BY <1>2, AlwaysIInv, PTL
=============================================================================
