----------------------------- MODULE PortProofs -----------------------------
(***************************************************************************)
(* Theorems about the client port.  About its limiters: what a bucket of   *)
(* RateLimiter gives out, for every limit, every length of the window and  *)
(* any number of concurrent callers.  About Admission, for any configs,    *)
(* any reloads between them and any number of requests: who is routed      *)
(* under which profile, that between two reloads a request sees one        *)
(* config, and that the quota of a profile is spent by exactly the         *)
(* requests that go on.  About TrafficLog, for every capacity above zero   *)
(* and any number of handlers, readers, backends and calls: what the log   *)
(* keeps of the requests and what the pages show of it.  A capacity of     *)
(* zero is the exception: the test for a full buffer is an equality that   *)
(* no push meets again.                                                    *)
(***************************************************************************)
EXTENDS Admission, RateLimiter, TrafficLog, FiniteSetTheorems, SequenceTheorems, TLAPS

-----------------------------------------------------------------------------
(* The bucket of a limiter.                                                *)

\* The burst capacity is at least one token, so a fresh bucket admits.
LEMMA CapacityType == Capacity \in Nat /\ Capacity >= Window
<1>1. (RPM + 1) \div 2 \in Nat /\ (RPM + 1) \div 2 >= 1
  BY RateAssumption
<1>2. \A k \in Nat : k >= 1 => k * Window \in Nat /\ k * Window >= Window
  BY RateAssumption
<1>. QED  BY <1>1, <1>2 DEF Capacity

LEMMA Distribute == \A a, b, c \in Int : a * (b + c) = a * b + a * c
OBVIOUS

LEMMA ProductType == \A a, b \in Nat : a * b \in Nat
OBVIOUS

\* What a caller finds is at most the stored units plus the refill, and at most
\* the capacity.
LEMMA AvailableBound ==
  ASSUME BucketTypeOK, NEW n \in Nat
  PROVE  /\ Elapsed(n) \in Nat
         /\ Available(n) \in 0 .. Capacity
         /\ Available(n) <= tokens + RPM * Elapsed(n)
<1>1. Elapsed(n) \in Nat
  BY DEF Elapsed, BucketTypeOK
<1>2. Elapsed(n) * RPM \in Nat /\ Elapsed(n) * RPM = RPM * Elapsed(n)
  BY <1>1, ProductType, RateAssumption
<1>. QED  BY <1>1, <1>2, CapacityType DEF Available, BucketTypeOK

\* One admission keeps the types.
LEMMA AdmitType ==
  ASSUME BucketTypeOK, NEW n \in 0 .. clock, Admit(n), clock' = clock
  PROVE  /\ present' \in BOOLEAN /\ tokens' \in 0 .. Capacity /\ last' \in 0 .. clock'
         /\ log' \in Seq(Nat) /\ created' \in Nat /\ backwards' \in Nat
<1>1. Available(n) \in 0 .. Capacity
  BY AvailableBound DEF BucketTypeOK
<1>2. tokens' \in 0 .. Capacity
  BY <1>1, CapacityType, RateAssumption DEF Admit
<1>. QED  BY <1>2 DEF Admit, BucketTypeOK

\* The bucket is never overdrawn and never over-full, and every instant a caller
\* may still use lies in the past, in whatever order callers reach the lock.
THEOREM BucketTypeCorrect == BucketSpec => []BucketTypeOK
<1>1. BucketInit => BucketTypeOK
  <2> SUFFICES ASSUME BucketInit PROVE BucketTypeOK
    OBVIOUS
  <2>1. /\ clock \in 0 .. MaxClock /\ last \in 0 .. clock
        /\ created \in Nat /\ backwards \in Nat
    BY SMT, RateAssumption DEF BucketInit
  <2>5. present \in BOOLEAN /\ sampled \in SUBSET Callers
    BY Zenon DEF BucketInit
  <2>2. tokens \in 0 .. Capacity
    BY CapacityType DEF BucketInit
  <2>3. now \in [Callers -> 0 .. clock]
    BY DEF BucketInit
  <2>4. log \in Seq(Nat)
    BY DEF BucketInit
  <2>. QED  BY <2>1, <2>2, <2>3, <2>4, <2>5 DEF BucketTypeOK
<1>2. BucketTypeOK /\ [BucketNext]_bucketVars => BucketTypeOK'
  <2> SUFFICES ASSUME BucketTypeOK, [BucketNext]_bucketVars
               PROVE  BucketTypeOK'
    OBVIOUS
  <2>1. CASE Tick
    BY <2>1, RateAssumption DEF Tick, BucketTypeOK
  <2>2. ASSUME NEW c \in Callers, Sample(c)
        PROVE  BucketTypeOK'
    BY <2>2 DEF Sample, BucketTypeOK
  <2>3. ASSUME NEW c \in Callers, Check(c), Admit(now[c])
        PROVE  BucketTypeOK'
    BY <2>3, AdmitType DEF Check, BucketTypeOK
  <2>4. ASSUME NEW c \in Callers, Check(c), Reject(now[c])
        PROVE  BucketTypeOK'
    BY <2>4 DEF Check, Reject, BucketTypeOK
  <2>5. CASE UNCHANGED bucketVars
    BY <2>5 DEF bucketVars, BucketTypeOK
  <2>. QED  BY <2>1, <2>2, <2>3, <2>4, <2>5 DEF BucketNext, Check
<1>. QED  BY <1>1, <1>2, PTL DEF BucketSpec

\* Before its first check a bucket is full and nothing has been granted.
FreshBucket == ~present => log = <<>> /\ tokens = Capacity /\ backwards = 0

\* An admission spends one token, and the time it is credited with is exactly
\* the sum by which it moves last_refill and the backwards total.
LEMMA AdmitCredit ==
  ASSUME BucketTypeOK, FreshBucket, CreditBound, NEW n \in 0 .. clock, Admit(n)
  PROVE  CreditBound'
<1>. DEFINE Span == last - created + backwards
<1>1. /\ Len(log') = Len(log) + 1
      /\ Len(log) \in Nat
    BY DEF Admit, BucketTypeOK
<1>2. Len(log') * Window = Len(log) * Window + Window
  BY <1>1, RateAssumption
<1>3. /\ tokens' = Available(n) - Window
      /\ Available(n) <= tokens + RPM * Elapsed(n)
      /\ Available(n) \in 0 .. Capacity
      /\ Elapsed(n) \in Nat
  BY AvailableBound DEF Admit, BucketTypeOK
<1>4. CASE present
  <2>1. last' - created' + backwards' = Span + Elapsed(n)
    BY <1>4 DEF Admit, Elapsed, BucketTypeOK
  <2>2. RPM * (Span + Elapsed(n)) = RPM * Span + RPM * Elapsed(n)
    <3>1. Span \in Int
      BY DEF BucketTypeOK
    <3>. QED  BY <1>3, <3>1, Distribute, RateAssumption
  <2>3. Len(log) * Window + tokens <= Capacity + RPM * Span
    BY <1>4 DEF CreditBound
  <2>4. /\ RPM * Span \in Int /\ RPM * Elapsed(n) \in Int
        /\ Len(log) * Window \in Int /\ tokens \in Int
    BY <1>1, <1>3, RateAssumption DEF BucketTypeOK
  <2>5. \A x, w, t, a, k, p, q \in Int :
            x + t <= k + p /\ a <= t + q => (x + w) + (a - w) <= k + (p + q)
    OBVIOUS
  <2>6. Window \in Int /\ Capacity \in Int /\ Available(n) \in Int
    BY <1>3, CapacityType, RateAssumption
  <2>7. Len(log') * Window + tokens' <= Capacity + RPM * (Span + Elapsed(n))
    BY <1>2, <1>3, <2>2, <2>3, <2>4, <2>5, <2>6
  <2>. QED  BY <2>1, <2>7 DEF CreditBound
<1>5. CASE ~present
  <2>1. /\ last' - created' + backwards' = 0
        /\ Elapsed(n) = 0
    BY <1>5 DEF Admit, FreshBucket, Elapsed
  <2>2. Len(log) = 0 /\ tokens = Capacity
    BY <1>5 DEF FreshBucket
  <2>3. Len(log') * Window + tokens' <= Capacity + RPM * 0
    <3>1. RPM * Elapsed(n) = 0 /\ RPM * 0 = 0 /\ Len(log) * Window = 0
      BY <2>1, <2>2, RateAssumption
    <3>2. Window \in Int /\ Capacity \in Int /\ Available(n) \in Int
      BY <1>3, CapacityType, RateAssumption
    <3>. QED  BY <1>2, <1>3, <2>2, <3>1, <3>2
  <2>. QED  BY <2>1, <2>3 DEF CreditBound
<1>. QED  BY <1>4, <1>5

LEMMA CreditInvariant == BucketSpec => [](FreshBucket /\ CreditBound)
<1>. DEFINE Inv == BucketTypeOK /\ FreshBucket /\ CreditBound
<1>1. BucketInit => FreshBucket /\ CreditBound
  BY DEF BucketInit, FreshBucket, CreditBound
<1>2. Inv /\ [BucketNext]_bucketVars => (FreshBucket /\ CreditBound)'
  <2> SUFFICES ASSUME Inv, [BucketNext]_bucketVars
               PROVE  (FreshBucket /\ CreditBound)'
    OBVIOUS
  <2>1. CASE Tick
    BY <2>1 DEF Tick, FreshBucket, CreditBound
  <2>2. ASSUME NEW c \in Callers, Sample(c)
        PROVE  (FreshBucket /\ CreditBound)'
    BY <2>2 DEF Sample, FreshBucket, CreditBound
  <2>3. ASSUME NEW c \in Callers, Admit(now[c])
        PROVE  (FreshBucket /\ CreditBound)'
    <3>1. now[c] \in 0 .. clock
      BY DEF BucketTypeOK
    <3>. QED  BY <2>3, <3>1, AdmitCredit DEF Admit, FreshBucket
  <2>4. ASSUME NEW c \in Callers, Check(c), Reject(now[c])
        PROVE  (FreshBucket /\ CreditBound)'
    BY <2>4 DEF Check, Reject, FreshBucket, CreditBound
  <2>5. CASE UNCHANGED bucketVars
    BY <2>5 DEF bucketVars, FreshBucket, CreditBound
  <2>. QED  BY <2>1, <2>2, <2>3, <2>4, <2>5 DEF BucketNext, Check
<1>. QED  BY <1>1, <1>2, BucketTypeCorrect, PTL DEF BucketSpec

\* However the callers interleave, the limiter grants no more than a burst, the
\* refill of the elapsed time, and the refill of the time late callers took back.
THEOREM CreditConservation == BucketSpec => []CreditBound
BY CreditInvariant, PTL

-----------------------------------------------------------------------------
\* What has been spent since the i-th admission, and what is left, was in the
\* bucket then or has been refilled since.
SpentSince ==
    backwards = 0 /\ present =>
        \A i \in DOMAIN log :
            (Len(log) - i + 1) * Window + tokens <= Capacity + RPM * (last - log[i])

\* An admission that does not come late prolongs every interval by one token.
LEMMA AdmitSteady ==
  ASSUME BucketTypeOK, FreshBucket, SpentSince, SteadyRate, NEW n \in 0 .. clock, Admit(n)
  PROVE  SpentSince' /\ SteadyRate'
<1> SUFFICES ASSUME backwards' = 0
             PROVE  SpentSince' /\ SteadyRate'
  BY DEF SpentSince, SteadyRate
<1>. DEFINE L == Len(log)
<1>1. /\ backwards = 0
      /\ present => n >= last
  BY DEF Admit, BucketTypeOK
<1>2. /\ L \in Nat /\ DOMAIN log = 1 .. L /\ DOMAIN log' = 1 .. L + 1
      /\ Len(log') = L + 1 /\ log'[L + 1] = n
      /\ \A i \in 1 .. L : log'[i] = log[i] /\ log[i] \in Nat
  BY DEF Admit, BucketTypeOK
<1>3. /\ tokens' = Available(n) - Window
      /\ Available(n) <= tokens + RPM * Elapsed(n)
      /\ Available(n) \in 0 .. Capacity
      /\ Elapsed(n) \in Nat
  BY AvailableBound DEF Admit, BucketTypeOK
<1>4. Available(n) >= Window /\ last' = n
  BY DEF Admit
<1>5. /\ Window \in Int /\ Capacity \in Int /\ Available(n) \in Int /\ RPM \in Int
      /\ tokens \in Int /\ last \in Int /\ n \in Int
  BY <1>3, CapacityType, RateAssumption DEF BucketTypeOK
<1>6. ASSUME NEW i \in 1 .. L + 1
      PROVE  ((L + 1) - i + 1) * Window + tokens' <= Capacity + RPM * (n - log'[i])
  <2>1. CASE i = L + 1
    <3>1. RPM * (n - log'[i]) = 0
      <4>1. n - log'[i] = 0
        BY <1>2, <1>5, <2>1
      <4>. QED  BY <1>5, <4>1
    <3>2. ((L + 1) - i + 1) * Window = Window
      <4>1. (L + 1) - i + 1 = 1
        BY <1>2, <2>1
      <4>. QED  BY <1>5, <4>1
    <3>3. Window + tokens' <= Capacity + 0
      BY <1>3, <1>5
    <3>. QED  BY <3>1, <3>2, <3>3
  <2>2. CASE i \in 1 .. L
    <3>1. present
      BY <1>2, <2>2 DEF FreshBucket
    <3>2. Elapsed(n) = n - last
      BY <1>1, <1>5, <3>1 DEF Elapsed
    <3>3. (L - i + 1) * Window + tokens <= Capacity + RPM * (last - log[i])
      BY <1>1, <1>2, <2>2, <3>1 DEF SpentSince
    <3>4. ((L + 1) - i + 1) * Window = (L - i + 1) * Window + Window
      <4>1. (L + 1) - i + 1 = (L - i + 1) + 1 /\ L - i + 1 \in Int
        BY <1>2, <2>2
      <4>2. \A k \in Int : (k + 1) * Window = k * Window + Window
        BY <1>5
      <4>. QED  BY <4>1, <4>2
    <3>5. RPM * (n - log'[i]) = RPM * (last - log[i]) + RPM * Elapsed(n)
      <4>1. log'[i] = log[i] /\ log[i] \in Int
        BY <1>2, <2>2
      <4>2. n - log'[i] = (last - log[i]) + (n - last) /\ last - log[i] \in Int /\ n - last \in Int
        BY <1>5, <4>1
      <4>. QED  BY <1>5, <3>2, <4>2, Distribute
    <3>6. /\ (L - i + 1) * Window \in Int /\ RPM * Elapsed(n) \in Int
          /\ RPM * (last - log[i]) \in Int
      <4>1. L - i + 1 \in Int /\ last - log[i] \in Int /\ Elapsed(n) \in Int
        BY <1>2, <1>3, <1>5, <2>2
      <4>2. \A a, b \in Int : a * b \in Int
        OBVIOUS
      <4>. QED  BY ONLY <1>5, <4>1, <4>2
    <3>7. \A x, w, t, a, k, p, q \in Int :
              x + t <= k + p /\ a <= t + q => (x + w) + (a - w) <= k + (p + q)
      OBVIOUS
    <3>. QED  BY <1>3, <1>5, <3>3, <3>4, <3>5, <3>6, <3>7
  <2>. QED  BY <1>2, <2>1, <2>2
<1>7. SpentSince'
  BY <1>2, <1>4, <1>6 DEF SpentSince
<1>8. SteadyRate'
  <2> SUFFICES ASSUME NEW i \in 1 .. L + 1, NEW j \in 1 .. L + 1, i <= j
               PROVE  (j - i + 1) * Window <= Capacity + RPM * (log'[j] - log'[i])
    BY <1>2 DEF SteadyRate, Capacity
  <2>1. CASE j = L + 1
    <3>1. /\ ((L + 1) - i + 1) * Window + tokens' <= Capacity + RPM * (n - log'[i])
          /\ tokens' >= 0
      BY <1>3, <1>4, <1>5, <1>6
    <3>2. ((L + 1) - i + 1) * Window \in Int /\ RPM * (n - log'[i]) \in Int /\ tokens' \in Int
      <4>1. (L + 1) - i + 1 \in Int /\ n - log'[i] \in Int
        BY <1>2, <1>5
      <4>. QED  BY <1>3, <1>5, <4>1
    <3>3. \A x, t, k, p \in Int : x + t <= k + p /\ t >= 0 => x <= k + p
      OBVIOUS
    <3>. QED  BY <1>2, <1>5, <2>1, <3>1, <3>2, <3>3
  <2>2. CASE j # L + 1
    <3>1. i \in DOMAIN log /\ j \in DOMAIN log /\ log'[i] = log[i] /\ log'[j] = log[j]
      BY <1>2, <2>2
    <3>. QED  BY <1>1, <3>1 DEF SteadyRate
  <2>. QED  BY <2>1, <2>2
<1>. QED  BY <1>7, <1>8

\* Between any two admissions the limiter grants no more than a burst and the
\* refill of that time, as long as no caller came late to the lock.
THEOREM SteadyRefill == BucketSpec => []SteadyRate
<1>. DEFINE Inv == BucketTypeOK /\ FreshBucket /\ CreditBound /\ SpentSince /\ SteadyRate
<1>1. BucketInit => SpentSince /\ SteadyRate
  BY DEF BucketInit, SpentSince, SteadyRate
<1>2. Inv /\ [BucketNext]_bucketVars => (SpentSince /\ SteadyRate)'
  <2> SUFFICES ASSUME Inv, [BucketNext]_bucketVars
               PROVE  (SpentSince /\ SteadyRate)'
    OBVIOUS
  <2>1. CASE Tick
    BY <2>1 DEF Tick, SpentSince, SteadyRate
  <2>2. ASSUME NEW c \in Callers, Sample(c)
        PROVE  (SpentSince /\ SteadyRate)'
    BY <2>2 DEF Sample, SpentSince, SteadyRate
  <2>3. ASSUME NEW c \in Callers, Admit(now[c])
        PROVE  (SpentSince /\ SteadyRate)'
    <3>1. now[c] \in 0 .. clock
      BY DEF BucketTypeOK
    <3>. QED  BY <2>3, <3>1, AdmitSteady
  <2>4. ASSUME NEW c \in Callers, Check(c), Reject(now[c])
        PROVE  (SpentSince /\ SteadyRate)'
    BY <2>4 DEF Check, Reject, SpentSince, SteadyRate
  <2>5. CASE UNCHANGED bucketVars
    BY <2>5 DEF bucketVars, SpentSince, SteadyRate
  <2>. QED  BY <2>1, <2>2, <2>3, <2>4, <2>5 DEF BucketNext, Check
<1>3. BucketSpec => [](FreshBucket /\ CreditBound)
  BY CreditInvariant
<1>4. BucketSpec => [](SpentSince /\ SteadyRate)
  BY <1>1, <1>2, <1>3, BucketTypeCorrect, PTL DEF BucketSpec
<1>. QED  BY <1>4, PTL

-----------------------------------------------------------------------------
\* Division rounds down, so adding the divisor less one first rounds up.
LEMMA DivisionBounds ==
  ASSUME NEW a \in Nat, NEW b \in Nat \ {0}
  PROVE  /\ a \div b \in Nat
         /\ (a \div b) * b <= a
         /\ a < (a \div b) * b + b
OBVIOUS

LEMMA RoundUp ==
  ASSUME NEW a \in Nat \ {0}, NEW b \in Nat \ {0}, NEW w, w = (a + b - 1) \div b
  PROVE  /\ w \in Nat /\ w >= 1
         /\ w * b \in Nat /\ w * b >= a
         /\ (w - 1) * b \in Nat /\ (w - 1) * b < a
<1>1. /\ w \in Nat
      /\ w * b <= a + b - 1
      /\ a + b - 1 < w * b + b
  <2>1. a + b - 1 \in Nat
    OBVIOUS
  <2>. QED  BY <2>1, DivisionBounds
<1>2. w * b \in Nat
  BY <1>1, ProductType
<1>3. w # 0
  <2>1. 0 * b = 0
    OBVIOUS
  <2>. QED  BY <1>1, <2>1
<1>4. w >= 1 /\ w - 1 \in Nat
  BY <1>1, <1>3
<1>5. (w - 1) * b = w * b - b
  BY <1>4
<1>6. (w - 1) * b \in Nat
  BY <1>4, ProductType
<1>. QED  BY <1>1, <1>2, <1>4, <1>5, <1>6

\* What a caller finds at an instant that is not before last_refill.
LEMMA RefillSince ==
  ASSUME BucketTypeOK, present, NEW n \in Nat, n >= last
  PROVE  /\ Elapsed(n) = n - last
         /\ Available(n) = LET refilled == tokens + (n - last) * RPM
                           IN  IF refilled <= Capacity THEN refilled ELSE Capacity
<1>1. Elapsed(n) = n - last
  BY DEF Elapsed, BucketTypeOK
<1>. QED  BY <1>1 DEF Available

\* Waiting for w ticks more adds their refill, up to the capacity.
LEMMA Waiting ==
  ASSUME BucketTypeOK, present, NEW n \in Nat, n >= last, Available(n) < Window, NEW w \in Nat
  PROVE  LET refilled == Available(n) + w * RPM
         IN  Available(n + w) = IF refilled <= Capacity THEN refilled ELSE Capacity
<1>1. /\ tokens + (n - last) * RPM \in Nat
      /\ Available(n) = tokens + (n - last) * RPM
  <2>1. n - last \in Nat /\ tokens \in Nat /\ RPM \in Nat
    BY RateAssumption, CapacityType DEF BucketTypeOK
  <2>2. (n - last) * RPM \in Nat
    BY <2>1, ProductType
  <2>. QED  BY <2>1, <2>2, RefillSince, CapacityType, RateAssumption
<1>2. ((n + w) - last) * RPM = (n - last) * RPM + w * RPM
  <2>1. n - last \in Int /\ RPM \in Int /\ (n + w) - last = (n - last) + w
    BY RateAssumption DEF BucketTypeOK
  <2>2. \A x \in Int : (x + w) * RPM = x * RPM + w * RPM
    BY <2>1
  <2>. QED  BY <2>1, <2>2
<1>3. w * RPM \in Nat /\ (n - last) * RPM \in Int /\ tokens \in Int
  <2>1. n - last \in Int /\ RPM \in Nat
    BY RateAssumption DEF BucketTypeOK
  <2>. QED  BY <2>1, ProductType, CapacityType DEF BucketTypeOK
<1>4. n + w \in Nat /\ n + w >= last
  BY DEF BucketTypeOK
<1>5. Available(n + w) = LET refilled == tokens + ((n + w) - last) * RPM
                         IN  IF refilled <= Capacity THEN refilled ELSE Capacity
  BY <1>4, RefillSince
<1>. QED  BY <1>1, <1>2, <1>3, <1>5

LEMMA RejectedWait ==
  ASSUME BucketTypeOK, FreshBucket, NEW n \in Nat, n >= last, Available(n) < Window
  PROVE  LET wait == RetryAfter(n)
         IN  Available(n + wait) >= Window /\ Available(n + wait - 1) < Window
<1>. DEFINE wait == RetryAfter(n)
<1>1. Available(n) \in 0 .. Capacity /\ Window \in Nat \ {0} /\ RPM \in Nat \ {0}
  BY AvailableBound, RateAssumption
<1>2. present
  <2>1. SUFFICES ASSUME ~present PROVE FALSE
    OBVIOUS
  <2>2. Elapsed(n) = 0 /\ tokens = Capacity /\ 0 * RPM = 0
    BY <2>1, <1>1 DEF Elapsed, FreshBucket
  <2>3. Available(n) = Capacity
    BY <2>2, CapacityType DEF Available
  <2>. QED  BY <2>3, CapacityType, <1>1
<1>3. Window - Available(n) \in Nat \ {0}
  BY <1>1, CapacityType
<1>4. wait = ((Window - Available(n)) + RPM - 1) \div RPM
  BY DEF RetryAfter
<1>5. /\ wait \in Nat /\ wait >= 1
      /\ wait * RPM \in Nat /\ wait * RPM >= Window - Available(n)
      /\ (wait - 1) * RPM \in Nat /\ (wait - 1) * RPM < Window - Available(n)
  <2>. HIDE DEF wait
  <2>. QED  BY <1>1, <1>3, <1>4, RoundUp
<1>. HIDE DEF wait
<1>6. Available(n + wait) >= Window
  <2>1. Available(n + wait) = IF Available(n) + wait * RPM <= Capacity
                              THEN Available(n) + wait * RPM ELSE Capacity
    BY <1>2, <1>5, Waiting
  <2>. QED  BY <1>1, <1>5, <2>1, CapacityType
<1>7. Available(n + wait - 1) < Window
  <2>1. wait - 1 \in Nat /\ n + wait - 1 = n + (wait - 1)
    BY <1>5
  <2>2. Available(n + (wait - 1)) = IF Available(n) + (wait - 1) * RPM <= Capacity
                                    THEN Available(n) + (wait - 1) * RPM ELSE Capacity
    BY <1>2, <2>1, Waiting
  <2>3. Available(n) + (wait - 1) * RPM < Window
    BY <1>1, <1>5, CapacityType
  <2>4. Available(n + (wait - 1)) < Window
    BY <2>2, <2>3, CapacityType, <1>1, <1>5
  <2>. QED  BY <2>1, <2>4
<1>. QED  BY <1>6, <1>7 DEF wait

\* A client that obeys Retry-After is admitted then unless another caller took
\* the token, and would not have been a tick earlier: for every rate and burst.
THEOREM ExactRetryAfter == BucketSpec => []RetryExact
<1>1. BucketTypeOK /\ FreshBucket => RetryExact
  <2> SUFFICES ASSUME BucketTypeOK, FreshBucket, NEW n \in last .. MaxClock, Available(n) < Window
               PROVE  LET wait == RetryAfter(n)
                      IN  Available(n + wait) >= Window /\ Available(n + wait - 1) < Window
    BY DEF RetryExact
  <2>1. n \in Nat /\ n >= last
    BY RateAssumption DEF BucketTypeOK
  <2>. QED  BY <2>1, RejectedWait
<1>. QED  BY <1>1, BucketTypeCorrect, CreditInvariant, PTL

-----------------------------------------------------------------------------
(* The way of a request through the client port.                           *)

Step(r) ==
    \/ \E ip \in Ips, api \in {"openai", "ollama"}, key \in Keys \union {None}, m \in Models :
          Arrive(r, ip, api, key, m)
    \/ LimitIp(r) \/ Authenticate(r) \/ CheckQuota(r) \/ NameProfile(r)
    \/ Route(r) \/ (\E t \in Tiers : Answers(r, t)) \/ Fails(r) \/ Respond(r) \/ Leave(r)

\* What Authenticate gives a request.
Owner(r) ==
    IF DOMAIN Boot.clients = {} THEN None
    ELSE IF req[r].key \in DOMAIN Boot.clients THEN Boot.clients[req[r].key] ELSE Boot.public

\* What Route made of it.
Ran(r) ==
    \/ req[r].under = Wanted(r)
    \/ req[r].under = "default" /\ Wanted(r) \notin DOMAIN Snap(r).profiles

\* The life of one request.
Known(r) ==
    /\ req[r].named # None => req[r].api = "ollama"
    /\ req[r].stage \in Began \union {"handler"} => Recognised(r) /\ req[r].ext = Owner(r)
    /\ req[r].under # None => Ran(r) /\ req[r].snap \in Versions
    /\ req[r].stage \in Stages \ (Began \ {"route"}) => req[r].under = None
    /\ req[r].stage \in Stages \ Began => req[r].named = None
    /\ req[r].stage = "answered" => req[r].tier \in DOMAIN Snap(r).model /\ req[r].snap \in Versions
    /\ req[r].stage = "routing" => req[r].snap \in Versions

\* As long as no reload came in between.
Fresh(r) ==
    req[r].fresh =>
        /\ req[r].named # None /\ req[r].stage = "route" => req[r].named \in DOMAIN Live.profiles
        /\ req[r].named # None /\ req[r].under # None => req[r].under = req[r].named
        /\ req[r].stage \in {"routing", "answered"} => req[r].snap = live
        /\ req[r].stage = "done" => req[r].header = Snap(r).model[req[r].tier]

RequestInv == \A r \in Requests : Known(r) /\ Fresh(r)

-----------------------------------------------------------------------------
LEMMA InitType == Init => TypeOK
<1>. SUFFICES ASSUME Init PROVE TypeOK
  OBVIOUS
<1>1. boot \in Versions /\ ConfigOK(Boot)
  BY AdmissionAssumption DEF Init, Versions, Boot
<1>2. quota \in [Limited(Boot) -> Nat]
  BY <1>1 DEF Init, Limited, ConfigOK
<1>3. New \in Lives
  BY DEF New, Lives, Stages
<1>. QED  BY <1>1, <1>2, <1>3, AdmissionAssumption DEF Init, TypeOK, ConfigOK

\* The steps of one request leave boot, live, the refills and the other
\* requests alone.
LEMMA StepFrame ==
  ASSUME TypeOK, NEW r \in Requests, Step(r)
  PROVE  /\ UNCHANGED <<boot, live, refills>>
         /\ req' \in [Requests -> Lives]
         /\ \A q \in Requests \ {r} : req'[q] = req[q]
<1>1. boot \in Versions /\ ConfigOK(Boot) /\ live \in Versions /\ ConfigOK(Live)
  BY AdmissionAssumption DEF TypeOK, Versions, Boot, Live
<1>2. req[r] \in Lives /\ req \in [Requests -> Lives]
  BY DEF TypeOK
<1>3. \A s \in Stages : [req[r] EXCEPT !.stage = s] \in Lives
  BY <1>2 DEF Lives
<1>4. CASE \E ip \in Ips, api \in {"openai", "ollama"}, key \in Keys \union {None}, m \in Models :
              Arrive(r, ip, api, key, m)
  <2>1. PICK ip \in Ips, api \in {"openai", "ollama"}, key \in Keys \union {None}, m \in Models :
               Arrive(r, ip, api, key, m)
    BY <1>4
  <2>. DEFINE x == [req[r] EXCEPT !.stage = "arrived", !.ip = ip, !.api = api,
                                  !.key = key, !.model = m]
  <2>2. x \in Lives
    BY <1>2 DEF Lives, Stages
  <2>3. req' = [req EXCEPT ![r] = x]
    BY <1>2, <2>1 DEF Arrive
  <2>. HIDE DEF x
  <2>4. UNCHANGED <<boot, live, refills>>
    BY <2>1 DEF Arrive
  <2>. QED  BY <1>2, <2>2, <2>3, <2>4
<1>5. CASE LimitIp(r)
  BY <1>2, <1>3, <1>5 DEF LimitIp, Goes, Stages
<1>6. CASE Authenticate(r)
  <2>. DEFINE p == IF DOMAIN Boot.clients = {} THEN None
                   ELSE IF req[r].key \in DOMAIN Boot.clients THEN Boot.clients[req[r].key]
                   ELSE Boot.public
              x == [req[r] EXCEPT !.stage = "handler", !.ext = p]
  <2>1. p \in Profiles \union {None}
    BY <1>1 DEF ConfigOK
  <2>2. UNCHANGED <<boot, live, refills>> /\ (Goes(r, "401") \/ req' = [req EXCEPT ![r] = x])
    BY <1>2, <1>6 DEF Authenticate
  <2>. HIDE DEF p
  <2>3. x \in Lives
    BY <1>2, <2>1 DEF Lives, Stages
  <2>. HIDE DEF x
  <2>. QED  BY <1>2, <1>3, <2>2, <2>3 DEF Goes, Stages
<1>7. CASE CheckQuota(r)
  BY <1>2, <1>3, <1>7 DEF CheckQuota, Goes, Stages
<1>8. CASE NameProfile(r)
  <2>. DEFINE is == req[r].model \in DOMAIN Live.profiles
              n == IF is THEN req[r].model ELSE None
              m == IF is THEN Live.profiles[req[r].model].classifier ELSE req[r].model
              x == [req[r] EXCEPT !.stage = "route", !.named = n, !.model = m]
  <2>1. n \in Profiles \union {None} /\ m \in Models \union {None}
    BY <1>1, <1>2 DEF ConfigOK, Lives
  <2>2. req' = [req EXCEPT ![r] = x] /\ UNCHANGED <<boot, live, refills>>
    BY <1>2, <1>8 DEF NameProfile
  <2>. HIDE DEF n, m
  <2>3. x \in Lives
    BY <1>2, <2>1 DEF Lives, Stages
  <2>. HIDE DEF x
  <2>. QED  BY <1>2, <2>2, <2>3
<1>9. CASE Route(r)
  <2>. DEFINE p == IF Wanted(r) \in DOMAIN Live.profiles THEN Wanted(r)
                   ELSE IF "default" \in DOMAIN Live.profiles THEN "default" ELSE None
              x == [req[r] EXCEPT !.stage = "routing", !.snap = live, !.under = p]
  <2>1. p \in Profiles \union {None}
    BY <1>1 DEF ConfigOK
  <2>2. UNCHANGED <<boot, live, refills>> /\ (Goes(r, "error") \/ req' = [req EXCEPT ![r] = x])
    BY <1>2, <1>9 DEF Route
  <2>. HIDE DEF p
  <2>3. x \in Lives
    BY <1>1, <1>2, <2>1 DEF Lives, Stages
  <2>. HIDE DEF x
  <2>. QED  BY <1>2, <1>3, <2>2, <2>3 DEF Goes, Stages
<1>10. CASE \E t \in Tiers : Answers(r, t)
  <2>1. PICK t \in Tiers : Answers(r, t)
    BY <1>10
  <2>. DEFINE x == [req[r] EXCEPT !.stage = "answered", !.tier = t]
  <2>2. x \in Lives
    BY <1>2 DEF Lives, Stages
  <2>3. req' = [req EXCEPT ![r] = x]
    BY <1>2, <2>1 DEF Answers
  <2>. HIDE DEF x
  <2>. QED  BY <1>2, <2>1, <2>2, <2>3 DEF Answers
<1>11. CASE Fails(r) \/ Leave(r)
  BY <1>2, <1>3, <1>11 DEF Fails, Leave, Goes, Stages
<1>12. CASE Respond(r)
  <2>. DEFINE h == IF req[r].tier \in DOMAIN Live.model THEN Live.model[req[r].tier] ELSE None
              x == [req[r] EXCEPT !.stage = "done", !.header = h]
  <2>1. h \in Backing \union {None}
    BY <1>1 DEF ConfigOK
  <2>2. req' = [req EXCEPT ![r] = x] /\ UNCHANGED <<boot, live, refills>>
    BY <1>2, <1>12 DEF Respond
  <2>. HIDE DEF h
  <2>3. x \in Lives
    BY <1>2, <2>1 DEF Lives, Stages
  <2>. HIDE DEF x
  <2>. QED  BY <1>2, <2>2, <2>3
<1>. QED  BY <1>4, <1>5, <1>6, <1>7, <1>8, <1>9, <1>10, <1>11, <1>12 DEF Step

LEMMA TypeStep == TypeOK /\ [Next]_vars => TypeOK'
<1>. SUFFICES ASSUME TypeOK, [Next]_vars PROVE TypeOK'
  OBVIOUS
<1>1. boot \in Versions /\ ConfigOK(Boot)
  BY AdmissionAssumption DEF TypeOK, Versions, Boot
<1>2. ASSUME NEW r \in Requests, Step(r) PROVE TypeOK'
  <2>1. /\ UNCHANGED <<boot, live, refills>>
        /\ req' \in [Requests -> Lives]
    BY <1>2, StepFrame
  <2>2. ipTokens' \in [Ips -> 0 .. Boot.ipRpm]
    <3>1. CASE LimitIp(r)
      <4>1. req[r].stage = "arrived" /\ (UNCHANGED ipTokens \/
              (ipTokens[req[r].ip] # 0 /\ ipTokens' = [ipTokens EXCEPT ![req[r].ip] = @ - 1]))
        BY <3>1 DEF LimitIp
      <4>. QED  BY <4>1, <1>1 DEF TypeOK, ConfigOK
    <3>2. CASE ~LimitIp(r)
      BY <1>2, <3>2 DEF Step, Arrive, Authenticate, CheckQuota, NameProfile, Route, Answers,
                        Fails, Respond, Leave, TypeOK
    <3>. QED  BY <3>1, <3>2
  <2>3. quota' \in [Limited(Boot) -> Nat]
    <3>1. CASE CheckQuota(r)
      BY <3>1 DEF CheckQuota, TypeOK
    <3>2. CASE ~CheckQuota(r)
      BY <1>2, <3>2 DEF Step, Arrive, LimitIp, Authenticate, NameProfile, Route, Answers,
                        Fails, Respond, Leave, TypeOK
    <3>. QED  BY <3>1, <3>2
  <2>. QED  BY <2>1, <2>2, <2>3 DEF TypeOK, Boot, Limited
<1>3. ASSUME NEW v \in Versions, Reload(v) PROVE TypeOK'
  <2>1. ASSUME NEW r \in Requests PROVE req'[r] \in Lives
    <3>1. req[r] \in Lives /\ [req[r] EXCEPT !.fresh = FALSE] \in Lives
      BY DEF TypeOK, Lives
    <3>2. req'[r] \in {req[r], [req[r] EXCEPT !.fresh = FALSE]}
      BY <1>3 DEF Reload
    <3>. QED  BY <3>1, <3>2
  <2>. QED  BY <1>3, <2>1 DEF Reload, TypeOK, Boot, Limited
<1>4. ASSUME NEW b \in DOMAIN refills, Refill(b) PROVE TypeOK'
  <2>1. refills' \in [Ips \union Limited(Boot) -> 0 .. MaxRefills]
    BY <1>4, AdmissionAssumption DEF Refill, TypeOK
  <2>2. quota' \in [Limited(Boot) -> Nat]
    BY <1>4 DEF Refill, TypeOK
  <2>3. ipTokens' \in [Ips -> 0 .. Boot.ipRpm]
    BY <1>1, <1>4 DEF Refill, TypeOK, ConfigOK
  <2>. QED  BY <1>4, <2>1, <2>2, <2>3 DEF Refill, TypeOK, Boot, Limited
<1>5. CASE UNCHANGED vars
  BY <1>5 DEF vars, TypeOK, Boot, Limited
<1>. QED  BY <1>2, <1>3, <1>4, <1>5 DEF Next, Step

\* Keys, profiles, tiers and configs stay what they are.
THEOREM TypeCorrect == Spec => []TypeOK
<1>. QED  BY InitType, TypeStep, PTL DEF Spec

-----------------------------------------------------------------------------
LEMMA InitRequest == Init => RequestInv
<1>. QED  BY DEF Init, New, RequestInv, Known, Fresh, Began, Stages

\* A request that does not move, while the config stays, keeps what is known.
LEMMA OthersKeep ==
  ASSUME NEW q \in Requests, UNCHANGED <<boot, live>>, req'[q] = req[q], Known(q), Fresh(q)
  PROVE  Known(q)' /\ Fresh(q)'
<1>. QED  BY DEF Known, Fresh, Recognised, Owner, Ran, Wanted, Snap, Boot, Live

\* What each step does to its request, field by field.
LEMMA GoesOnly ==
  ASSUME TypeOK, NEW r \in Requests, NEW s, Goes(r, s)
  PROVE  /\ req'[r].stage = s
         /\ UNCHANGED <<req[r].api, req[r].key, req[r].ext, req[r].named, req[r].under,
                        req[r].snap, req[r].tier, req[r].header, req[r].fresh>>
<1>1. req[r] \in Lives
  BY DEF TypeOK
<1>2. req'[r] = [req[r] EXCEPT !.stage = s]
  BY DEF TypeOK, Goes
<1>. QED  BY <1>1, <1>2 DEF Lives

LEMMA ArriveEffect ==
  ASSUME TypeOK, NEW r \in Requests, NEW ip, NEW api, NEW key, NEW m, Arrive(r, ip, api, key, m)
  PROVE  /\ req[r].stage = "new" /\ req'[r].stage = "arrived"
         /\ UNCHANGED <<req[r].ext, req[r].named, req[r].under, req[r].snap, req[r].tier,
                        req[r].header, req[r].fresh>>
<1>1. req[r] \in Lives
  BY DEF TypeOK
<1>2. req'[r] = [req[r] EXCEPT !.stage = "arrived", !.ip = ip, !.api = api, !.key = key, !.model = m]
  BY DEF TypeOK, Arrive
<1>3. req[r].stage = "new"
  BY DEF Arrive
<1>. QED  BY <1>1, <1>2, <1>3 DEF Lives

LEMMA AuthenticateEffect ==
  ASSUME TypeOK, NEW r \in Requests, Authenticate(r)
  PROVE  /\ req[r].stage = "limited"
         /\ \/ req'[r].stage = "401"
            \/ req'[r].stage = "handler" /\ req'[r].ext = Owner(r) /\ Recognised(r)
         /\ UNCHANGED <<req[r].api, req[r].key, req[r].named, req[r].under,
                        req[r].snap, req[r].tier, req[r].header, req[r].fresh>>
<1>1. req[r] \in Lives
  BY DEF TypeOK
<1>2. CASE DOMAIN Boot.clients # {} /\ Owner(r) = None
  <2>1. Goes(r, "401")
    BY <1>2 DEF Authenticate, Owner
  <2>. QED  BY <2>1, GoesOnly DEF Authenticate
<1>3. CASE ~(DOMAIN Boot.clients # {} /\ Owner(r) = None)
  <2>1. req' = [req EXCEPT ![r].stage = "handler", ![r].ext = Owner(r)]
    BY <1>3 DEF Authenticate, Owner
  <2>2. req'[r] = [req[r] EXCEPT !.stage = "handler", !.ext = Owner(r)]
    BY <2>1 DEF TypeOK
  <2>3. Recognised(r)
    BY <1>3 DEF Recognised, Owner
  <2>. HIDE DEF Owner
  <2>. QED  BY <1>1, <2>2, <2>3 DEF Lives, Authenticate
<1>. QED  BY <1>2, <1>3

LEMMA CheckQuotaEffect ==
  ASSUME TypeOK, NEW r \in Requests, CheckQuota(r)
  PROVE  /\ req[r].stage = "handler" /\ req[r].api = "openai"
         /\ \/ req'[r].stage = "429"
            \/ req'[r].stage = "route"
         /\ UNCHANGED <<req[r].api, req[r].key, req[r].ext, req[r].named, req[r].under,
                        req[r].snap, req[r].tier, req[r].header, req[r].fresh>>
<1>1. Goes(r, "429") \/ Goes(r, "route")
  BY DEF CheckQuota
<1>. QED  BY <1>1, GoesOnly DEF CheckQuota

LEMMA NameProfileEffect ==
  ASSUME TypeOK, NEW r \in Requests, NameProfile(r)
  PROVE  /\ req[r].stage = "handler" /\ req[r].api = "ollama" /\ req'[r].stage = "route"
         /\ req'[r].named \in {None} \union DOMAIN Live.profiles
         /\ UNCHANGED <<req[r].api, req[r].key, req[r].ext, req[r].under,
                        req[r].snap, req[r].tier, req[r].header, req[r].fresh>>
<1>. DEFINE n == IF req[r].model \in DOMAIN Live.profiles THEN req[r].model ELSE None
            m == IF req[r].model \in DOMAIN Live.profiles
                 THEN Live.profiles[req[r].model].classifier ELSE req[r].model
<1>1. req[r] \in Lives
  BY DEF TypeOK
<1>2. req'[r] = [req[r] EXCEPT !.stage = "route", !.named = n, !.model = m]
  BY <1>1 DEF TypeOK, NameProfile
<1>3. n \in {None} \union DOMAIN Live.profiles
  OBVIOUS
<1>. HIDE DEF n, m
<1>4. req[r].stage = "handler" /\ req[r].api = "ollama"
  BY DEF NameProfile
<1>. QED  BY <1>1, <1>2, <1>3, <1>4 DEF Lives

LEMMA RouteEffect ==
  ASSUME TypeOK, NEW r \in Requests, Route(r)
  PROVE  /\ req[r].stage = "route"
         /\ \/ req'[r].stage = "error" /\ UNCHANGED <<req[r].under, req[r].snap>>
            \/ /\ req'[r].stage = "routing" /\ req'[r].snap = live
               /\ \/ req'[r].under = Wanted(r) /\ Wanted(r) \in DOMAIN Live.profiles
                  \/ req'[r].under = "default" /\ Wanted(r) \notin DOMAIN Live.profiles
         /\ UNCHANGED <<req[r].api, req[r].key, req[r].ext, req[r].named,
                        req[r].tier, req[r].header, req[r].fresh>>
<1>. DEFINE u == IF Wanted(r) \in DOMAIN Live.profiles THEN Wanted(r)
                 ELSE IF "default" \in DOMAIN Live.profiles THEN "default" ELSE None
<1>1. req[r] \in Lives
  BY DEF TypeOK
<1>2. CASE u = None
  <2>1. Goes(r, "error")
    BY <1>2 DEF Route
  <2>. QED  BY <2>1, GoesOnly DEF Route
<1>3. CASE u # None
  <2>1. req'[r] = [req[r] EXCEPT !.stage = "routing", !.snap = live, !.under = u]
    BY <1>3 DEF Route, TypeOK
  <2>2. \/ u = Wanted(r) /\ Wanted(r) \in DOMAIN Live.profiles
        \/ u = "default" /\ Wanted(r) \notin DOMAIN Live.profiles
    BY <1>3
  <2>. HIDE DEF u
  <2>. QED  BY <1>1, <2>1, <2>2 DEF Lives, Route
<1>. QED  BY <1>2, <1>3

LEMMA AnswersEffect ==
  ASSUME TypeOK, NEW r \in Requests, NEW t, Answers(r, t)
  PROVE  /\ req[r].stage = "routing" /\ req'[r].stage = "answered"
         /\ req'[r].tier = t /\ t \in DOMAIN Snap(r).model
         /\ UNCHANGED <<req[r].api, req[r].key, req[r].ext, req[r].named, req[r].under,
                        req[r].snap, req[r].header, req[r].fresh>>
<1>1. req[r] \in Lives
  BY DEF TypeOK
<1>2. req'[r] = [req[r] EXCEPT !.stage = "answered", !.tier = t]
  BY DEF TypeOK, Answers
<1>3. req[r].stage = "routing" /\ t \in DOMAIN Snap(r).model
  BY DEF Answers
<1>. QED  BY <1>1, <1>2, <1>3 DEF Lives

LEMMA RespondEffect ==
  ASSUME TypeOK, NEW r \in Requests, Respond(r)
  PROVE  /\ req[r].stage = "answered" /\ req'[r].stage = "done"
         /\ req[r].tier \in DOMAIN Live.model => req'[r].header = Live.model[req[r].tier]
         /\ UNCHANGED <<req[r].api, req[r].key, req[r].ext, req[r].named, req[r].under,
                        req[r].snap, req[r].tier, req[r].fresh>>
<1>. DEFINE h == IF req[r].tier \in DOMAIN Live.model THEN Live.model[req[r].tier] ELSE None
<1>1. req[r] \in Lives
  BY DEF TypeOK
<1>2. req'[r] = [req[r] EXCEPT !.stage = "done", !.header = h]
  BY DEF TypeOK, Respond
<1>3. req[r].tier \in DOMAIN Live.model => h = Live.model[req[r].tier]
  OBVIOUS
<1>. HIDE DEF h
<1>4. req[r].stage = "answered"
  BY DEF Respond
<1>. QED  BY <1>1, <1>2, <1>3, <1>4 DEF Lives

\* The steps before the routing: nothing is known yet but who the request is.
LEMMA EarlySteps ==
  ASSUME TypeOK, NEW r \in Requests, Known(r), Fresh(r), UNCHANGED <<boot, live>>,
         \/ \E ip \in Ips, api \in {"openai", "ollama"}, key \in Keys \union {None}, m \in Models :
                Arrive(r, ip, api, key, m)
         \/ LimitIp(r) \/ Authenticate(r) \/ CheckQuota(r) \/ NameProfile(r)
  PROVE  Known(r)' /\ Fresh(r)'
<1>. USE DEF Known, Fresh, Began, Stages
<1>1. Boot' = Boot /\ Live' = Live /\ req[r].fresh \in BOOLEAN
  BY DEF Boot, Live, TypeOK, Lives
<1>2. CASE \E ip \in Ips, api \in {"openai", "ollama"}, key \in Keys \union {None}, m \in Models :
              Arrive(r, ip, api, key, m)
  BY <1>1, <1>2, ArriveEffect
<1>3. CASE LimitIp(r)
  <2>1. req[r].stage = "arrived" /\ (Goes(r, "429") \/ Goes(r, "limited"))
    BY <1>3 DEF LimitIp
  <2>. QED  BY <1>1, <2>1, GoesOnly
<1>4. CASE Authenticate(r)
  BY <1>1, <1>4, AuthenticateEffect DEF Owner, Recognised
<1>5. CASE CheckQuota(r)
  BY <1>1, <1>5, CheckQuotaEffect DEF Owner, Recognised
<1>6. CASE NameProfile(r)
  BY <1>1, <1>6, NameProfileEffect DEF Owner, Recognised
<1>. QED  BY <1>2, <1>3, <1>4, <1>5, <1>6

\* Route and what follows it: the request has a profile and a snapshot.
LEMMA LateSteps ==
  ASSUME TypeOK, NEW r \in Requests, Known(r), Fresh(r), UNCHANGED <<boot, live>>,
         \/ Route(r) \/ (\E t \in Tiers : Answers(r, t)) \/ Fails(r) \/ Respond(r) \/ Leave(r)
  PROVE  Known(r)' /\ Fresh(r)'
<1>. USE DEF Known, Fresh, Began, Stages, Owner, Recognised, Ran, Wanted, ProfileOr
<1>1. /\ Boot' = Boot /\ Live' = Live /\ req[r].fresh \in BOOLEAN
      /\ live \in Versions /\ Live = Config[live] /\ Snap(r) = Config[req[r].snap]
      /\ Snap(r)' = Config[req'[r].snap] /\ live' = live
  BY DEF Boot, Live, TypeOK, Lives, Snap
<1>2. CASE Route(r)
  BY <1>1, <1>2, RouteEffect
<1>3. CASE \E t \in Tiers : Answers(r, t)
  BY <1>1, <1>3, AnswersEffect
<1>4. CASE Fails(r) \/ Leave(r)
  <2>1. req[r].stage = "routing" /\ (Goes(r, "error") \/ Goes(r, "gone"))
    BY <1>4 DEF Fails, Leave
  <2>. QED  BY <1>1, <2>1, GoesOnly
<1>5. CASE Respond(r)
  BY <1>1, <1>5, RespondEffect
<1>. QED  BY <1>2, <1>3, <1>4, <1>5

LEMMA RequestStep == TypeOK /\ RequestInv /\ [Next]_vars => RequestInv'
<1>. SUFFICES ASSUME TypeOK, RequestInv, [Next]_vars, NEW q \in Requests
              PROVE  Known(q)' /\ Fresh(q)'
  BY DEF RequestInv
<1>1. Known(q) /\ Fresh(q)
  BY DEF RequestInv
<1>2. ASSUME NEW r \in Requests, Step(r) PROVE Known(q)' /\ Fresh(q)'
  <2>1. UNCHANGED <<boot, live>> /\ (q # r => req'[q] = req[q])
    BY <1>2, StepFrame
  <2>2. CASE q # r
    BY <1>1, <2>1, <2>2, OthersKeep
  <2>3. CASE q = r
    BY <1>1, <1>2, <2>1, <2>3, EarlySteps, LateSteps DEF Step
  <2>. QED  BY <2>2, <2>3
<1>3. ASSUME NEW v \in Versions, Reload(v) PROVE Known(q)' /\ Fresh(q)'
  BY <1>1, <1>3 DEF Reload, TypeOK, Lives, Known, Fresh, Recognised, Owner, Ran, Wanted, Snap, Boot, Live
<1>4. ASSUME NEW b \in DOMAIN refills, Refill(b) PROVE Known(q)' /\ Fresh(q)'
  BY <1>1, <1>4, OthersKeep DEF Refill
<1>5. CASE UNCHANGED vars
  BY <1>1, <1>5, OthersKeep DEF vars
<1>. QED  BY <1>2, <1>3, <1>4, <1>5 DEF Next, Step

LEMMA RequestHolds == Spec => [](TypeOK /\ RequestInv)
<1>. QED  BY InitType, InitRequest, TypeStep, RequestStep, PTL DEF Spec

\* Nobody is routed under a profile that neither the key, the public setting,
\* the model an Ollama client names nor the fallback gives.
THEOREM RoutedAsEntitled == Spec => []KeyProfile
<1>1. ASSUME TypeOK, RequestInv, NEW r \in Requests, req[r].stage \in Began
      PROVE  Recognised(r) /\ (req[r].under # None => Entitled(r))
  <2>1. Known(r) /\ boot \in Versions /\ ConfigOK(Boot)
    BY <1>1, AdmissionAssumption DEF RequestInv, TypeOK, Versions, Boot
  <2>2. Recognised(r) /\ req[r].ext = Owner(r)
    BY <1>1, <2>1 DEF Known
  <2>3. ASSUME req[r].under # None PROVE Entitled(r)
    <3>1. Ran(r)
      BY <2>1, <2>3 DEF Known
    <3>2. CASE req[r].named # None /\ req[r].under = Wanted(r)
      BY <2>1, <3>2 DEF Known, Entitled, Wanted, ProfileOr
    <3>3. CASE req[r].named = None /\ req[r].under = Wanted(r)
      BY <2>1, <2>2, <2>3, <3>3, AdmissionAssumption
         DEF Entitled, Wanted, ProfileOr, Owner, Recognised, ConfigOK
    <3>. QED  BY <3>1, <3>2, <3>3 DEF Ran, Entitled
  <2>. QED  BY <2>2, <2>3
<1>2. TypeOK /\ RequestInv => KeyProfile
  BY <1>1 DEF KeyProfile
<1>. QED  BY <1>2, RequestHolds, PTL

\* Between two reloads a request runs under the profile it named, and its
\* header tells the model of the tier that answered.
THEOREM SeesOneConfig == Spec => []OneConfig
<1>1. RequestInv => OneConfig
  BY DEF RequestInv, Fresh, OneConfig
<1>. QED  BY <1>1, RequestHolds, PTL

-----------------------------------------------------------------------------
\* What the code does: the OpenAI requests alone pay, one token each.
ExactlyCharged ==
    \A p \in DOMAIN quota :
        Cardinality(Charged(p)) = Boot.profiles[p].rpm + refills[p] - quota[p]

\* A step that takes no token moves no request into or out of a quota.
LEMMA ChargedSame ==
  ASSUME NEW p, \A q \in Requests :
             (req'[q].stage \in Began /\ req'[q].api = "openai" /\ ProfileOr(req'[q].ext) = p)
             <=> (req[q].stage \in Began /\ req[q].api = "openai" /\ ProfileOr(req[q].ext) = p)
  PROVE  Charged(p)' = Charged(p)
<1>. QED  BY DEF Charged, ProfileOr

LEMMA QuotaInit == Init => ExactlyCharged
<1>. SUFFICES ASSUME Init, NEW p \in DOMAIN quota
              PROVE  Cardinality(Charged(p)) = Boot.profiles[p].rpm + refills[p] - quota[p]
  BY DEF ExactlyCharged
<1>1. Charged(p) = {}
  BY DEF Init, New, Charged, Began
<1>2. p \in Limited(Boot) /\ quota[p] = Boot.profiles[p].rpm /\ refills[p] = 0
  BY DEF Init, Boot
<1>3. Boot.profiles[p].rpm \in Nat
  BY <1>2, AdmissionAssumption DEF Init, Versions, Boot, Limited, ConfigOK
<1>. QED  BY <1>1, <1>2, <1>3, FS_EmptySet

LEMMA QuotaStep == TypeOK /\ ExactlyCharged /\ [Next]_vars => ExactlyCharged'
<1>. SUFFICES ASSUME TypeOK, ExactlyCharged, [Next]_vars, NEW p \in DOMAIN quota'
              PROVE  Cardinality(Charged(p)') = Boot'.profiles[p].rpm + refills'[p] - quota'[p]
  BY DEF ExactlyCharged
<1>1. boot' = boot /\ DOMAIN quota' = DOMAIN quota /\ p \in Limited(Boot)
  <2>1. boot' = boot
    <3>1. ASSUME NEW r \in Requests, Step(r) PROVE boot' = boot
      BY <3>1, StepFrame
    <3>. QED  BY <3>1 DEF Next, Step, Reload, Refill, vars
  <2>. QED  BY <2>1, TypeStep DEF TypeOK, Limited, Boot
<1>2. Boot' = Boot /\ Boot.profiles[p].rpm \in Nat /\ quota[p] \in Nat /\ refills[p] \in Nat
  BY <1>1, AdmissionAssumption DEF TypeOK, Versions, Boot, Limited, ConfigOK
<1>3. Cardinality(Charged(p)) = Boot.profiles[p].rpm + refills[p] - quota[p]
  BY <1>1 DEF ExactlyCharged
<1>4. IsFiniteSet(Charged(p))
  BY AdmissionAssumption, FS_Subset DEF Charged
<1>5. ASSUME UNCHANGED <<quota, refills>>, Charged(p)' = Charged(p)
      PROVE  Cardinality(Charged(p)') = Boot'.profiles[p].rpm + refills'[p] - quota'[p]
  BY <1>2, <1>3, <1>5
<1>6. ASSUME NEW r \in Requests, Step(r)
      PROVE  Cardinality(Charged(p)') = Boot'.profiles[p].rpm + refills'[p] - quota'[p]
  <2>1. UNCHANGED <<boot, live, refills>> /\ (\A q \in Requests \ {r} : req'[q] = req[q])
    BY <1>6, StepFrame
  <2>2. ASSUME CheckQuota(r), ProfileOr(req[r].ext) = p, quota[p] # 0
        PROVE  Cardinality(Charged(p)') = Boot'.profiles[p].rpm + refills'[p] - quota'[p]
    <3>1. quota' = [quota EXCEPT ![p] = @ - 1] /\ req' = [req EXCEPT ![r].stage = "route"]
      BY <2>2, <1>1 DEF CheckQuota, Goes
    <3>2. req'[r].stage = "route" /\ req'[r].api = "openai" /\ req'[r].ext = req[r].ext
          /\ req[r].stage = "handler"
      BY <2>2, <3>1 DEF TypeOK, CheckQuota, Lives
    <3>3. Charged(p)' = Charged(p) \union {r} /\ r \notin Charged(p)
      BY <2>1, <2>2, <3>2 DEF Charged, Began, ProfileOr
    <3>4. Cardinality(Charged(p)') = Cardinality(Charged(p)) + 1
      BY <3>3, <1>4, FS_AddElement
    <3>5. quota'[p] = quota[p] - 1
      BY <3>1, <1>1
    <3>. QED  BY <2>1, <3>4, <3>5, <1>2, <1>3
  <2>3. ASSUME ~(CheckQuota(r) /\ ProfileOr(req[r].ext) = p /\ quota[p] # 0)
        PROVE  quota'[p] = quota[p] /\ Charged(p)' = Charged(p)
    <3>. USE DEF TypeOK, Began, Goes
    <3>1. CASE CheckQuota(r)
      <4>1. quota'[p] = quota[p]
        BY <2>3, <3>1, <1>1 DEF CheckQuota
      <4>2. req'[r].stage \in {"429", "route"} /\ req'[r].ext = req[r].ext
            /\ req[r].stage = "handler" /\ (req'[r].stage = "route" => ProfileOr(req[r].ext) # p)
        <5>1. (ProfileOr(req[r].ext) = p => Goes(r, "429"))
          BY <2>3, <3>1, <1>1 DEF CheckQuota
        <5>. QED  BY <5>1, <3>1, CheckQuotaEffect, GoesOnly
      <4>3. Charged(p)' = Charged(p)
        BY <2>1, <4>2 DEF Charged, ProfileOr
      <4>. QED  BY <4>1, <4>3
    <3>2. CASE ~CheckQuota(r)
      <4>1. UNCHANGED quota
        BY <1>6, <3>2 DEF Step, Arrive, LimitIp, Authenticate, NameProfile, Route, Answers,
                          Fails, Respond, Leave
      <4>2. \/ req[r].stage \notin Began /\ req'[r].stage \notin Began
            \/ req[r].api = "ollama" /\ req'[r].api = "ollama"
            \/ /\ req[r].stage \in Began /\ req'[r].stage \in Began
               /\ req'[r].api = req[r].api /\ req'[r].ext = req[r].ext
        <5>1. CASE LimitIp(r) \/ Fails(r) \/ Leave(r)
          <6>1. \/ req[r].stage = "arrived" /\ (Goes(r, "429") \/ Goes(r, "limited"))
                \/ req[r].stage = "routing" /\ (Goes(r, "error") \/ Goes(r, "gone"))
            BY <5>1 DEF LimitIp, Fails, Leave
          <6>. QED  BY <6>1, GoesOnly
        <5>. QED  BY <5>1, <1>6, <3>2, ArriveEffect, AuthenticateEffect, NameProfileEffect,
                     RouteEffect, AnswersEffect, RespondEffect DEF Step
      <4>3. Charged(p)' = Charged(p)
        BY <2>1, <4>2, ChargedSame
      <4>. QED  BY <4>1, <4>3
    <3>. QED  BY <3>1, <3>2
  <2>4. CASE CheckQuota(r) /\ ProfileOr(req[r].ext) = p /\ quota[p] # 0
    BY <2>2, <2>4
  <2>5. CASE ~(CheckQuota(r) /\ ProfileOr(req[r].ext) = p /\ quota[p] # 0)
    BY <2>1, <2>3, <2>5, <1>2, <1>3
  <2>. QED  BY <2>4, <2>5
<1>7. ASSUME NEW v \in Versions, Reload(v)
      PROVE  UNCHANGED <<quota, refills>> /\ Charged(p)' = Charged(p)
  <2>1. \A q \in Requests : req'[q].stage = req[q].stage /\ req'[q].api = req[q].api
                            /\ req'[q].ext = req[q].ext
    BY <1>7 DEF Reload, TypeOK, Lives
  <2>. QED  BY <1>7, <2>1, ChargedSame DEF Reload
<1>8. ASSUME NEW b \in DOMAIN refills, Refill(b)
      PROVE  refills'[p] - quota'[p] = refills[p] - quota[p] /\ Charged(p)' = Charged(p)
  <2>1. Charged(p)' = Charged(p)
    BY <1>8 DEF Refill, Charged, ProfileOr
  <2>2. refills'[p] - quota'[p] = refills[p] - quota[p]
    <3>1. p \in Profiles /\ p \in DOMAIN refills /\ p \in DOMAIN quota
      BY <1>1, AdmissionAssumption DEF TypeOK, Limited, Boot, Versions, ConfigOK
    <3>2. CASE b = p
      <4>1. b \notin Ips
        BY <3>1, <3>2, AdmissionAssumption
      <4>. QED  BY <1>8, <3>1, <3>2, <4>1, <1>2 DEF Refill, TypeOK
    <3>3. CASE b # p
      BY <1>8, <3>1, <3>3 DEF Refill, TypeOK
    <3>. QED  BY <3>2, <3>3
  <2>. QED  BY <2>1, <2>2
<1>9. CASE UNCHANGED vars
  <2>1. Charged(p)' = Charged(p)
    BY <1>9 DEF vars, Charged, ProfileOr
  <2>. QED  BY <1>9, <2>1, <1>5 DEF vars
<1>10. ASSUME NEW b \in DOMAIN refills, Refill(b)
       PROVE  Cardinality(Charged(p)') = Boot'.profiles[p].rpm + refills'[p] - quota'[p]
  <2>1. quota'[p] \in Nat /\ refills'[p] \in Nat
    BY TypeStep, <1>1, <1>2 DEF TypeOK, Limited, Boot
  <2>. QED  BY <1>8, <1>10, <2>1, <1>2, <1>3
<1>. QED  BY <1>5, <1>6, <1>7, <1>9, <1>10 DEF Next, Step

\* For any configs, clients and reloads every OpenAI request that went on as a
\* profile's has taken one token of its quota, and nobody else has.
THEOREM QuotaSpentByRouted == Spec => []QuotaAccounted
<1>1. ASSUME TypeOK, RequestInv, ExactlyCharged, NEW p \in DOMAIN quota
      PROVE  Cardinality(Charged(p)) <= Spent(p) /\ Spent(p) <= Cardinality(Routed(p))
  <2>1. p \in Limited(Boot) /\ Boot.profiles[p].rpm \in Nat
    BY <1>1, AdmissionAssumption DEF TypeOK, Versions, Boot, Limited, ConfigOK
  <2>2. refills[p] \in Nat /\ quota[p] \in Nat
    BY <1>1, <2>1 DEF TypeOK
  <2>3. Cardinality(Charged(p)) = Spent(p) /\ Spent(p) \in Int
    BY <1>1, <2>1, <2>2 DEF ExactlyCharged, Spent
  <2>4. IsFiniteSet(Routed(p)) /\ IsFiniteSet(Charged(p))
    BY AdmissionAssumption, FS_Subset DEF Routed, Charged
  <2>5. Charged(p) \subseteq Routed(p)
    <3>. SUFFICES ASSUME NEW r \in Charged(p) PROVE Wanted(r) = p
      BY DEF Charged, Routed
    <3>1. Known(r) /\ req[r].api = "openai" /\ ProfileOr(req[r].ext) = p
      BY <1>1 DEF Charged, RequestInv
    <3>2. req[r].named = None
      BY <3>1 DEF Known
    <3>. QED  BY <3>1, <3>2 DEF Wanted
  <2>6. Cardinality(Charged(p)) <= Cardinality(Routed(p))
    BY <2>4, <2>5, FS_Subset
  <2>. QED  BY <2>3, <2>6
<1>2. TypeOK /\ RequestInv /\ ExactlyCharged => QuotaAccounted
  BY <1>1 DEF QuotaAccounted
<1>. QED  BY <1>2, RequestHolds, InitType, TypeStep, QuotaInit, QuotaStep, PTL DEF Spec

-----------------------------------------------------------------------------
(* The traffic log.                                                        *)

\* The part of the type invariant the buffer depends on, and who holds the lock.
LogType ==
    /\ entries \in Seq(Entry) /\ accepted \in Seq(Entry)
    /\ hand \in [Handlers -> Hands]
    /\ \A h \in Handlers : lock = h => hand[h] # <<>>

\* Room makes room: at most the oldest entry goes, and only if it must.
LEMMA RoomLength ==
  ASSUME entries \in Seq(Entry), Len(entries) <= LogCapacity, LogCapacity > 0
  PROVE  /\ Room \in Seq(Entry)
         /\ Len(Room) < LogCapacity
         /\ Len(entries) < LogCapacity => Room = entries
         /\ Len(entries) = LogCapacity => Room = Tail(entries)
BY TrafficAssumption DEF Room

\* An entry in a handler's hand is an entry.
LEMMA HandType ==
  ASSUME LogType, NEW h \in Handlers, lock = h
  PROVE  hand[h][1] \in Entry
BY DEF LogType, Hands

LEMMA RoomType == entries \in Seq(Entry) => Room \in Seq(Entry)
BY DEF Room

LEMMA LogTypeStep == LogType /\ [LogNext]_logVars => LogType'
<1> SUFFICES ASSUME LogType, [LogNext]_logVars PROVE LogType'
  OBVIOUS
<1>0. ASSUME NEW h \in Handlers, NEW b \in Backends \union {NoBackend}, NEW x \in BOOLEAN,
             Holds(h, b, x), UNCHANGED <<entries, lock, accepted>>
      PROVE  LogType'
  <2>1. <<[backend |-> b, success |-> TRUE, escalated |-> x]>> \in Hands
    BY DEF Hands, Entry
  <2>. QED  BY <1>0, <2>1 DEF Holds, LogType
<1>1. ASSUME NEW h \in Handlers, NEW b \in Backends, NEW x \in BOOLEAN, CallSucceeds(h, b, x)
      PROVE  LogType'
  BY <1>0, <1>1 DEF CallSucceeds
<1>9. ASSUME NEW h \in Handlers, Replies(h) PROVE LogType'
  BY <1>0, <1>9 DEF Replies
<1>2. ASSUME NEW h \in Handlers, NEW b \in Backends, CallFails(h, b) PROVE LogType'
  BY <1>2 DEF CallFails, LogType
<1>3. ASSUME NEW h \in Handlers, TryLock(h) PROVE LogType'
  BY <1>3 DEF TryLock, LogType
<1>4. ASSUME NEW h \in Handlers, Drop(h) PROVE LogType'
  <2>1. <<>> \in Hands
    BY DEF Hands
  <2>. QED  BY <1>4, <2>1 DEF Drop, LogType
<1>5. ASSUME NEW h \in Handlers, Store(h) PROVE LogType'
  <2>1. <<>> \in Hands
    BY DEF Hands
  <2>2. entries' \in Seq(Entry) /\ accepted' \in Seq(Entry)
    BY <1>5, HandType, RoomType DEF Store, LogType
  <2>3. \A g \in Handlers : lock' # g
    BY <1>5, TrafficAssumption DEF Store
  <2>. QED  BY <1>5, <2>1, <2>2, <2>3 DEF Store, LogType
<1>6. ASSUME NEW r \in Readers, Lock(r) PROVE LogType'
  BY <1>6, TrafficAssumption DEF Lock, LogType
<1>10. ASSUME NEW r \in Readers, NEW report \in DOMAIN Sections, Ask(r, report) PROVE LogType'
  BY <1>10 DEF Ask, LogType
<1>11. ASSUME NEW r \in Readers, NEW name, NEW listed, NEW totals, Section(r, name, listed, totals)
       PROVE  LogType'
  BY <1>11, TrafficAssumption DEF Section, LogType
<1>7. ASSUME NEW r \in Readers, Judge(r) \/ Recent(r) \/ Stats(r) PROVE LogType'
  BY <1>7, <1>11 DEF Judge, Recent, Stats
<1>8. CASE UNCHANGED logVars
  BY <1>8 DEF logVars, LogType
<1>. QED
  BY <1>1, <1>2, <1>3, <1>4, <1>5, <1>6, <1>7, <1>8, <1>9, <1>10 DEF LogNext

LEMMA TypeAlways == LogSpec => []LogType
<1>1. LogInit => LogType
  <2>1. <<>> \in Hands
    BY DEF Hands
  <2>. QED  BY <2>1, TrafficAssumption DEF LogInit, LogType
<1>. QED  BY <1>1, LogTypeStep, PTL DEF LogSpec

\* The rest of the types.
LEMMA RestStep == LogType /\ LogTypeOK /\ [LogNext]_logVars => LogTypeOK'
<1> SUFFICES ASSUME LogType, LogTypeOK, [LogNext]_logVars PROVE LogTypeOK'
  OBVIOUS
<1>1. entries' \in Seq(Entry) /\ accepted' \in Seq(Entry) /\ hand' \in [Handlers -> Hands]
  BY LogTypeStep DEF LogType
<1>2. lock' \in Handlers => hand'[lock'] # <<>>
  BY LogTypeStep DEF LogType
<1>3. lock' \in {Free} \union Handlers \union Readers
  BY DEF LogTypeOK, LogNext, CallSucceeds, CallFails, Replies, TryLock, Drop, Store, Ask, Lock,
         Section, Judge, Recent, Stats, logVars
<1>4. outcomes' \in Seq(Outcome) /\ contended' \in Nat
  <2>1. ASSUME NEW b \in Backends, NEW x \in BOOLEAN, Called(b, x) PROVE outcomes' \in Seq(Outcome)
    BY <2>1 DEF Called, Outcome, LogTypeOK
  <2>2. \/ outcomes' = outcomes
        \/ \E b \in Backends, x \in BOOLEAN : Called(b, x)
    BY DEF LogNext, CallSucceeds, CallFails, Replies, TryLock, Drop, Store, Ask, Lock,
           Section, Judge, Recent, Stats, logVars
  <2>3. contended' = contended \/ contended' = contended + 1
    BY DEF LogNext, CallSucceeds, CallFails, Replies, TryLock, Drop, Store, Ask, Lock,
           Section, Judge, Recent, Stats, logVars
  <2>. QED  BY <2>1, <2>2, <2>3 DEF LogTypeOK
<1>5. unhealthy' \in [Readers -> SUBSET Backends]
  <2>1. ASSUME NEW r \in Readers, Judge(r) PROVE unhealthy' \in [Readers -> SUBSET Backends]
    <3>1. Judged(entries) \in SUBSET Backends
      BY DEF Judged
    <3>. QED  BY <2>1, <3>1 DEF Judge, LogTypeOK
  <2>2. unhealthy' = unhealthy \/ \E r \in Readers : Judge(r)
    BY DEF LogNext, CallSucceeds, CallFails, Replies, TryLock, Drop, Store, Ask, Lock,
           Recent, Stats, logVars
  <2>. QED  BY <2>1, <2>2 DEF LogTypeOK
<1>6. /\ DOMAIN page' = Readers
      /\ \A r \in Readers : page'[r].report \in DOMAIN Sections \union {"none"}
  <2>1. ASSUME NEW s \in Readers, NEW name, NEW listed, NEW totals, Section(s, name, listed, totals)
        PROVE  /\ DOMAIN page' = Readers
               /\ \A r \in Readers : page'[r].report \in DOMAIN Sections \union {"none"}
    BY <2>1 DEF Section, Page, LogTypeOK
  <2>2. ASSUME NEW s \in Readers, NEW report \in DOMAIN Sections, Ask(s, report)
        PROVE  /\ DOMAIN page' = Readers
               /\ \A r \in Readers : page'[r].report \in DOMAIN Sections \union {"none"}
    BY <2>2 DEF Ask, Page, LogTypeOK
  <2>3. CASE page' = page
    BY <2>3 DEF LogTypeOK
  <2>. QED
    BY <2>1, <2>2, <2>3 DEF LogNext, CallSucceeds, CallFails, Replies, TryLock, Drop, Store, Lock,
           Judge, Recent, Stats, logVars
<1>. QED  BY <1>1, <1>2, <1>3, <1>4, <1>5, <1>6 DEF LogTypeOK

\* For any handlers, readers, backends and settings the log and its pages keep
\* their types, and a handler holds the lock only with an entry to push.
THEOREM LogTypeCorrect == LogSpec => []LogTypeOK
<1>1. LogInit => LogTypeOK
  <2>1. <<>> \in Hands
    BY DEF Hands
  <2>. QED  BY <2>1, TrafficAssumption DEF LogInit, LogTypeOK, NoPage, Page
<1>. QED  BY <1>1, TypeAlways, RestStep, PTL DEF LogSpec

-----------------------------------------------------------------------------
\* The buffer is a window on the accepted entries: Room, then the new entry.
RingInv == Len(entries) <= LogCapacity /\ entries = Newest(accepted, LogCapacity)

\* One more entry moves the window of a sequence on by one.
LEMMA WindowMoves ==
  ASSUME NEW s \in Seq(Entry), NEW e \in Entry, LogCapacity > 0,
         entries = Newest(s, LogCapacity)
  PROVE  /\ Append(Room, e) = Newest(Append(s, e), LogCapacity)
         /\ Len(Append(Room, e)) <= LogCapacity
<1>0. /\ Append(s, e) \in Seq(Entry)
      /\ Len(Append(s, e)) = Len(s) + 1 /\ Len(s) \in Nat /\ LogCapacity \in Nat
  BY TrafficAssumption
<1>1. CASE Len(s) < LogCapacity
  <2>1. entries = s
    <3>1. (IF Len(s) > LogCapacity THEN Len(s) - LogCapacity + 1 ELSE 1) = 1
      BY <1>0, <1>1
    <3>2. entries = SubSeq(s, 1, Len(s))
      BY <3>1, Zenon DEF Newest
    <3>. QED  BY <3>2, SubSeqFull, Zenon
  <2>2. Room = s
    BY <1>1, <2>1, TrafficAssumption DEF Room
  <2>3. Newest(Append(s, e), LogCapacity) = Append(s, e)
    <3>1. (IF Len(Append(s, e)) > LogCapacity THEN Len(Append(s, e)) - LogCapacity + 1 ELSE 1) = 1
      BY <1>0, <1>1
    <3>2. Newest(Append(s, e), LogCapacity) = SubSeq(Append(s, e), 1, Len(Append(s, e)))
      BY <3>1, Zenon DEF Newest
    <3>. QED  BY <1>0, <3>2, SubSeqFull, Zenon
  <2>. QED  BY <1>1, <2>2, <2>3, TrafficAssumption
<1>2. CASE Len(s) >= LogCapacity
  <2>1. entries = SubSeq(s, Len(s) - LogCapacity + 1, Len(s))
    <3>1. CASE Len(s) = LogCapacity
      BY <3>1, TrafficAssumption DEF Newest
    <3>2. CASE Len(s) > LogCapacity
      BY <3>2, TrafficAssumption DEF Newest
    <3>. QED  BY <1>2, <3>1, <3>2, TrafficAssumption
  <2>2. Len(entries) = LogCapacity /\ entries \in Seq(Entry)
    BY <1>2, <2>1, TrafficAssumption
  <2>3. Room = Tail(entries)
    BY <2>2, TrafficAssumption DEF Room
  <2>4. Room = SubSeq(s, Len(s) - LogCapacity + 2, Len(s))
    BY <1>2, <2>1, <2>2, <2>3, TrafficAssumption
  <2>5. Newest(Append(s, e), LogCapacity) = SubSeq(Append(s, e), Len(s) - LogCapacity + 2, Len(s) + 1)
    <3>1. Len(s) + 1 > LogCapacity /\ (Len(s) + 1) - LogCapacity + 1 = Len(s) - LogCapacity + 2
      BY <1>0, <1>2
    <3>. QED  BY <1>0, <3>1 DEF Newest
  <2>6. Append(SubSeq(s, Len(s) - LogCapacity + 2, Len(s)), e)
          = SubSeq(Append(s, e), Len(s) - LogCapacity + 2, Len(s) + 1)
    BY <1>2, TrafficAssumption
  <2>7. Append(Room, e) = Newest(Append(s, e), LogCapacity)
    BY <2>4, <2>5, <2>6
  <2>8. Len(Append(Room, e)) <= LogCapacity
    BY <1>0, <2>2, <2>3
  <2>. QED  BY <2>7, <2>8
<1>. QED  BY <1>1, <1>2, TrafficAssumption

LEMMA RingStep ==
  ASSUME LogCapacity > 0
  PROVE  LogType /\ RingInv /\ [LogNext]_logVars => RingInv'
<1> SUFFICES ASSUME LogType, RingInv, [LogNext]_logVars PROVE RingInv'
  OBVIOUS
<1>1. ASSUME NEW h \in Handlers, Store(h) PROVE RingInv'
  <2>1. hand[h][1] \in Entry
    BY <1>1, HandType DEF Store
  <2>. QED  BY <1>1, <2>1, WindowMoves DEF Store, RingInv, LogType
<1>2. CASE UNCHANGED <<entries, accepted>>
  BY <1>2 DEF RingInv, Newest
<1>. QED
  BY <1>1, <1>2 DEF LogNext, CallSucceeds, CallFails, Replies, TryLock, Drop, Ask, Lock,
                    Section, Judge, Recent, Stats, logVars

LEMMA RingAlways ==
  ASSUME LogCapacity > 0
  PROVE  LogSpec => []RingInv
<1>1. LogInit => RingInv
  BY TrafficAssumption DEF LogInit, RingInv, Newest
<1>. QED  BY <1>1, RingStep, TypeAlways, PTL DEF LogSpec

\* With a capacity above zero the log never holds more entries than that.
THEOREM BoundedMemory ==
  ASSUME LogCapacity > 0
  PROVE  LogSpec => []Bounded
<1>1. RingInv => Bounded
  BY DEF RingInv, Bounded
<1>. QED  BY <1>1, RingAlways, PTL

\* And it holds exactly the newest of the entries ever stored, in order,
\* whatever handlers and readers contend for the mutex.
THEOREM RingBuffer ==
  ASSUME LogCapacity > 0
  PROVE  LogSpec => []NewestKept
<1>1. RingInv => NewestKept
  BY DEF RingInv, NewestKept
<1>. QED  BY <1>1, RingAlways, PTL

-----------------------------------------------------------------------------
\* Read backwards, a set of positions has as many members.
LEMMA MirrorCount ==
  ASSUME NEW n \in Nat, NEW A \in SUBSET (1..n)
  PROVE  Cardinality({i \in 1..n : n + 1 - i \in A}) = Cardinality(A)
<1> DEFINE B == {i \in 1..n : n + 1 - i \in A}
           f == [i \in A |-> n + 1 - i]
<1>1. f \in [A -> B]
  <2>1. \A i \in A : n + 1 - i \in 1..n /\ n + 1 - (n + 1 - i) = i
    OBVIOUS
  <2>. QED  BY <2>1
<1>2. \A a, b \in A : f[a] = f[b] => a = b
  OBVIOUS
<1>3. \A b \in B : \E a \in A : f[a] = b
  <2>. SUFFICES ASSUME NEW b \in B PROVE \E a \in A : f[a] = b
    OBVIOUS
  <2>1. n + 1 - b \in A /\ n + 1 - (n + 1 - b) = b
    OBVIOUS
  <2>. QED  BY <2>1
<1>4. ExistsBijection(A, B)
  BY <1>1, <1>2, <1>3 DEF ExistsBijection, Bijection, Injection, Surjection, IsInjective
<1>5. IsFiniteSet(A)
  <2>1. IsFiniteSet(1..n)
    BY FS_Interval
  <2>. QED  BY <2>1, FS_Subset
<1>. QED  BY <1>4, <1>5, FS_Bijection

\* What metrics counts is what stats would count: the order does not matter.
LEMMA TotalsMirror ==
  ASSUME NEW s \in Seq(Entry)
  PROVE  Totals(NewestFirst(s)) = Totals(s)
<1> DEFINE n == Len(s)
           t == NewestFirst(s)
           Bad == {i \in 1..n : ~s[i].success}
           Up == {i \in 1..n : s[i].escalated}
<1>1. n \in Nat /\ DOMAIN s = 1..n
  OBVIOUS
<1>2. t = [i \in 1..n |-> s[n + 1 - i]]
  BY <1>1 DEF NewestFirst
<1>3. \A i \in 1..n : n + 1 - i \in 1..n
  BY <1>1
<1>4. DOMAIN t = 1..n /\ Len(t) = n
  <2>1. t \in Seq(Entry)
    BY <1>1, <1>2, <1>3
  <2>. QED  BY <1>1, <1>2, <2>1
<1>5. {i \in DOMAIN t : ~t[i].success} = {i \in 1..n : n + 1 - i \in Bad}
  BY <1>2, <1>3, <1>4
<1>6. {i \in DOMAIN t : t[i].escalated} = {i \in 1..n : n + 1 - i \in Up}
  BY <1>2, <1>3, <1>4
<1>7. /\ Cardinality({i \in DOMAIN t : ~t[i].success}) = Cardinality(Bad)
      /\ Cardinality({i \in DOMAIN t : t[i].escalated}) = Cardinality(Up)
  BY <1>1, <1>5, <1>6, MirrorCount
<1>. QED  BY <1>1, <1>4, <1>7 DEF Totals

-----------------------------------------------------------------------------
\* What a page owes and what it has shown so far.
Shows(r) ==
    LET p == page[r] IN
    \/ p.report = "none" /\ p.due = <<>>
    \/ p.report \in DOMAIN Sections /\ p.due = Sections[p.report]
    \/ /\ p.report = "traffic" /\ p.due = <<"stats">>
       /\ \E i \in p.since .. Len(accepted) : p.listed = NewestFirst(Newest(BufferAt(i), Limit))
    \/ /\ p.report \in DOMAIN Sections /\ p.due = <<>>
       /\ \E i \in p.since .. Len(accepted) : \E j \in i .. Len(accepted) :
             Fits(p, unhealthy[r], BufferAt(i), BufferAt(j))

PageInv ==
    /\ DOMAIN page = Readers /\ DOMAIN unhealthy = Readers
    /\ \A r \in Readers : page[r].since \in 0 .. Len(accepted) /\ Shows(r)

\* The present buffer is the buffer after all the entries stored.
LEMMA Present == LogType /\ RingInv => entries = BufferAt(Len(accepted))
<1> SUFFICES ASSUME LogType, RingInv PROVE entries = BufferAt(Len(accepted))
  OBVIOUS
<1>1. SubSeq(accepted, 1, Len(accepted)) = accepted
  BY SubSeqFull DEF LogType
<1>. QED  BY <1>1, Zenon DEF RingInv, BufferAt

\* What is stored stays stored: a step changes no buffer of the past.
LEMMA PastStays ==
  ASSUME LogType, [LogNext]_logVars
  PROVE  /\ Len(accepted) \in Nat /\ Len(accepted') \in Nat /\ Len(accepted') >= Len(accepted)
         /\ \A n \in 0 .. Len(accepted) : BufferAt(n)' = BufferAt(n)
<1>1. CASE accepted' = accepted
  BY <1>1 DEF LogType, BufferAt, Newest
<1>2. ASSUME NEW h \in Handlers, Store(h) PROVE accepted' = Append(accepted, hand[h][1]) /\ hand[h][1] \in Entry
  BY <1>2, HandType DEF Store
<1>3. ASSUME NEW e \in Entry, accepted' = Append(accepted, e)
      PROVE  /\ Len(accepted) \in Nat /\ Len(accepted') = Len(accepted) + 1
             /\ \A n \in 0 .. Len(accepted) : BufferAt(n)' = BufferAt(n)
  <2>1. Len(accepted) \in Nat /\ Len(accepted') = Len(accepted) + 1
    BY <1>3 DEF LogType
  <2>2. ASSUME NEW n \in 0 .. Len(accepted) PROVE SubSeq(accepted', 1, n) = SubSeq(accepted, 1, n)
    BY <1>3, <2>1, <2>2 DEF LogType
  <2>. QED  BY <2>1, <2>2 DEF BufferAt, Newest
<1>4. accepted' = accepted \/ \E h \in Handlers : Store(h)
  BY DEF LogNext, CallSucceeds, CallFails, Replies, TryLock, Drop, Ask, Lock,
         Section, Judge, Recent, Stats, logVars
<1>. QED  BY <1>1, <1>2, <1>3, <1>4

\* A page nobody touches keeps showing what it showed.
LEMMA PageStays ==
  ASSUME LogType, [LogNext]_logVars, NEW r \in Readers, page[r].since \in 0 .. Len(accepted), Shows(r),
         page'[r] = page[r], unhealthy'[r] = unhealthy[r]
  PROVE  page'[r].since \in 0 .. Len(accepted') /\ Shows(r)'
<1>1. page'[r].since \in 0 .. Len(accepted')
  BY PastStays
<1>2. ASSUME NEW i \in page[r].since .. Len(accepted)
      PROVE  /\ i \in page'[r].since .. Len(accepted') /\ BufferAt(i)' = BufferAt(i)
  BY PastStays
<1>3. CASE page[r].due = <<"stats">> /\ page[r].report = "traffic" /\
           \E i \in page[r].since .. Len(accepted) : page[r].listed = NewestFirst(Newest(BufferAt(i), Limit))
  <2>1. PICK i \in page[r].since .. Len(accepted) : page[r].listed = NewestFirst(Newest(BufferAt(i), Limit))
    BY <1>3
  <2>. QED  BY <1>2, <1>3, <2>1 DEF Shows
<1>4. CASE /\ page[r].report \in DOMAIN Sections /\ page[r].due = <<>>
           /\ \E i \in page[r].since .. Len(accepted) : \E j \in i .. Len(accepted) :
                 Fits(page[r], unhealthy[r], BufferAt(i), BufferAt(j))
  <2>1. PICK i \in page[r].since .. Len(accepted) : \E j \in i .. Len(accepted) :
                 Fits(page[r], unhealthy[r], BufferAt(i), BufferAt(j))
    BY <1>4
  <2>2. PICK j \in i .. Len(accepted) : Fits(page[r], unhealthy[r], BufferAt(i), BufferAt(j))
    BY <2>1
  <2>3. j \in page[r].since .. Len(accepted) /\ j \in i .. Len(accepted')
    BY PastStays
  <2>4. BufferAt(i)' = BufferAt(i) /\ BufferAt(j)' = BufferAt(j)
    BY <1>2, <2>3
  <2>5. Fits(page[r], unhealthy[r], BufferAt(i), BufferAt(j))'
    BY <2>2, <2>4 DEF Fits
  <2>. QED  BY <1>2, <1>4, <2>3, <2>5 DEF Shows
<1>. QED  BY <1>1, <1>3, <1>4 DEF Shows

\* The pages that still owe a section.
LEMMA Owing ==
  ASSUME NEW r \in Readers, Shows(r), page[r].due # <<>>
  PROVE  \/ page[r].report = "health" /\ page[r].due = <<"judge">>
         \/ page[r].report = "traffic" /\ page[r].due = <<"recent", "stats">>
         \/ page[r].report = "metrics" /\ page[r].due = <<"recent">>
         \/ page[r].report = "status" /\ page[r].due = <<"stats">>
         \/ /\ page[r].report = "traffic" /\ page[r].due = <<"stats">>
            /\ \E i \in page[r].since .. Len(accepted) :
                  page[r].listed = NewestFirst(Newest(BufferAt(i), Limit))
BY DEF Shows, Sections

\* A section shows the present buffer.
LEMMA PageMoves ==
  ASSUME LogType, RingInv, PageInv, NEW r \in Readers, Judge(r) \/ Recent(r) \/ Stats(r)
  PROVE  page'[r].since \in 0 .. Len(accepted') /\ Shows(r)'
<1> DEFINE p == page[r]
           q == page'[r]
           newest == Len(accepted)
<1>1. /\ p.since \in 0 .. newest /\ Shows(r) /\ newest \in Nat
      /\ newest \in p.since .. newest /\ newest \in newest .. newest
      /\ entries = BufferAt(newest) /\ entries \in Seq(Entry)
      /\ DOMAIN page = Readers /\ DOMAIN unhealthy = Readers
  BY Present DEF PageInv, LogType
<1>2. ASSUME NEW name, NEW listed, NEW totals, Section(r, name, listed, totals)
      PROVE  /\ q = Page(p.report, Tail(p.due), listed, totals, p.since)
             /\ q.report = p.report /\ q.due = Tail(p.due) /\ q.since = p.since
             /\ q.listed = listed /\ q.totals = totals
             /\ accepted' = accepted /\ p.due # <<>> /\ Head(p.due) = name
             /\ \A n : BufferAt(n)' = BufferAt(n)
  BY <1>1, <1>2 DEF Section, Page, BufferAt, Newest
<1>3. ASSUME accepted' = accepted, q.since = p.since, q.report = p.report,
             p.report \in DOMAIN Sections, q.due = <<>>, \A n : BufferAt(n)' = BufferAt(n),
             NEW i \in p.since .. newest, Fits(q, unhealthy'[r], BufferAt(i), entries)
      PROVE  q.since \in 0 .. Len(accepted') /\ Shows(r)'
  <2>1. newest \in i .. newest
    BY <1>1
  <2>2. Fits(q, unhealthy'[r], BufferAt(i)', BufferAt(newest)')
    BY <1>1, <1>3
  <2>. QED  BY <1>1, <1>3, <2>1, <2>2 DEF Shows
<1>4. CASE Judge(r)
  <2>1. Section(r, "judge", p.listed, p.totals) /\ unhealthy'[r] = Judged(entries)
    BY <1>1, <1>4 DEF Judge
  <2>2. p.report = "health" /\ p.due = <<"judge">>
    BY <1>1, <1>2, <2>1, Owing
  <2>3. Tail(p.due) = <<>> /\ "health" \in DOMAIN Sections
    BY <2>2 DEF Sections
  <2>4. Fits(q, unhealthy'[r], BufferAt(newest), entries)
    BY <1>2, <2>1, <2>2 DEF Fits
  <2>. QED  BY <1>1, <1>2, <1>3, <2>1, <2>2, <2>3, <2>4
<1>5. CASE Recent(r) /\ p.report = "metrics"
  <2>1. Section(r, "recent", NewestFirst(entries), Totals(NewestFirst(entries)))
    <3>1. Newest(entries, Len(entries)) = entries
      BY <1>1, SubSeqFull DEF Newest
    <3>. QED  BY <1>5, <3>1 DEF Recent
  <2>2. p.due = <<"recent">>
    BY <1>1, <1>2, <1>5, <2>1, Owing
  <2>3. Tail(p.due) = <<>> /\ "metrics" \in DOMAIN Sections
    BY <2>2 DEF Sections
  <2>4. Fits(q, unhealthy'[r], BufferAt(newest), entries)
    BY <1>1, <1>2, <1>5, <2>1, TotalsMirror DEF Fits
  <2>. QED  BY <1>1, <1>2, <1>3, <1>5, <2>1, <2>2, <2>3, <2>4
<1>6. CASE Recent(r) /\ p.report # "metrics"
  <2>1. Section(r, "recent", NewestFirst(Newest(entries, Limit)), p.totals)
    BY <1>6 DEF Recent
  <2>2. p.report = "traffic" /\ p.due = <<"recent", "stats">>
    BY <1>1, <1>2, <1>6, <2>1, Owing
  <2>3. Tail(p.due) = <<"stats">>
    BY <2>2
  <2>4. q.listed = NewestFirst(Newest(BufferAt(newest)', Limit))
    BY <1>1, <1>2, <2>1
  <2>. QED  BY <1>1, <1>2, <2>1, <2>2, <2>3, <2>4 DEF Shows
<1>7. CASE Stats(r)
  <2>1. Section(r, "stats", p.listed, Totals(entries)) /\ unhealthy' = unhealthy
    BY <1>7 DEF Stats
  <2>2. \/ p.report = "status" /\ p.due = <<"stats">>
        \/ /\ p.report = "traffic" /\ p.due = <<"stats">>
           /\ \E i \in p.since .. newest : p.listed = NewestFirst(Newest(BufferAt(i), Limit))
    BY <1>1, <1>2, <2>1, Owing
  <2>3. Tail(<<"stats">>) = <<>> /\ "status" \in DOMAIN Sections /\ "traffic" \in DOMAIN Sections
    BY DEF Sections
  <2>4. CASE p.report = "status" /\ p.due = <<"stats">>
    <3>1. Fits(q, unhealthy'[r], BufferAt(newest), entries)
      BY <1>2, <2>1, <2>4 DEF Fits
    <3>. QED  BY <1>1, <1>2, <1>3, <2>1, <2>3, <2>4, <3>1
  <2>5. CASE /\ p.report = "traffic" /\ p.due = <<"stats">>
             /\ \E i \in p.since .. newest : p.listed = NewestFirst(Newest(BufferAt(i), Limit))
    <3>1. PICK i \in p.since .. newest : p.listed = NewestFirst(Newest(BufferAt(i), Limit))
      BY <2>5
    <3>2. Fits(q, unhealthy'[r], BufferAt(i), entries)
      BY <1>2, <2>1, <2>5, <3>1 DEF Fits
    <3>. QED  BY <1>1, <1>2, <1>3, <2>1, <2>3, <2>5, <3>2
  <2>. QED  BY <2>2, <2>4, <2>5
<1>. QED  BY <1>4, <1>5, <1>6, <1>7

LEMMA PageStep == LogType /\ RingInv /\ PageInv /\ [LogNext]_logVars => PageInv'
<1> SUFFICES ASSUME LogType, RingInv, PageInv, [LogNext]_logVars PROVE PageInv'
  OBVIOUS
<1>1. DOMAIN page' = Readers /\ DOMAIN unhealthy' = Readers
  BY DEF PageInv, LogNext, CallSucceeds, CallFails, Replies, TryLock, Drop, Store, Ask, Lock,
         Section, Judge, Recent, Stats, logVars
<1>2. ASSUME NEW r \in Readers PROVE page'[r].since \in 0 .. Len(accepted') /\ Shows(r)'
  <2>0. page[r].since \in 0 .. Len(accepted) /\ Shows(r)
    BY DEF PageInv
  <2>1. CASE page'[r] = page[r] /\ unhealthy'[r] = unhealthy[r]
    BY <2>0, <2>1, PageStays
  <2>2. CASE Judge(r) \/ Recent(r) \/ Stats(r)
    BY <2>2, PageMoves
  <2>3. ASSUME NEW report \in DOMAIN Sections, Ask(r, report)
        PROVE  page'[r].since \in 0 .. Len(accepted') /\ Shows(r)'
    <3>1. /\ page'[r] = Page(report, Sections[report], <<>>, Totals(<<>>), Len(accepted))
          /\ accepted' = accepted /\ Len(accepted) \in Nat
      BY <2>3 DEF Ask, PageInv, LogType
    <3>2. /\ page'[r].report = report /\ page'[r].due = Sections[report]
          /\ page'[r].since = Len(accepted)
      BY <3>1 DEF Page
    <3>. QED  BY <3>1, <3>2 DEF Shows
  <2>4. ASSUME NEW s \in Readers, s # r,
               Judge(s) \/ Recent(s) \/ Stats(s) \/ \E report \in DOMAIN Sections : Ask(s, report)
        PROVE  page'[r] = page[r] /\ unhealthy'[r] = unhealthy[r]
    BY <2>4 DEF PageInv, Ask, Section, Judge, Recent, Stats
  <2>5. CASE page' = page /\ unhealthy' = unhealthy
    BY <2>1, <2>5
  <2>6. \/ page' = page /\ unhealthy' = unhealthy
        \/ \E s \in Readers : Judge(s) \/ Recent(s) \/ Stats(s) \/ \E report \in DOMAIN Sections : Ask(s, report)
    BY DEF LogNext, CallSucceeds, CallFails, Replies, TryLock, Drop, Store, Lock, logVars
  <2>. QED  BY <2>1, <2>2, <2>3, <2>4, <2>5, <2>6
<1>. QED  BY <1>1, <1>2 DEF PageInv

\* With a capacity above zero every page shows, section by section, the log as
\* it was at one moment between the request for the page and its answer, for any
\* number of handlers that push in between and readers that ask at once.
THEOREM PagesShowTheLog ==
  ASSUME LogCapacity > 0
  PROVE  LogSpec => []PagesInOrder
<1>1. LogInit => PageInv
  BY DEF LogInit, PageInv, Shows, NoPage, Page
<1>2. LogType /\ PageInv => PagesInOrder
  <2> SUFFICES ASSUME PageInv, NEW r \in Readers, page[r].report # "none", page[r].due = <<>>
               PROVE  \E i \in page[r].since .. Len(accepted) : \E j \in i .. Len(accepted) :
                         Fits(page[r], unhealthy[r], BufferAt(i), BufferAt(j))
    BY DEF PagesInOrder
  <2>1. Shows(r)
    BY DEF PageInv
  <2>2. \A report \in DOMAIN Sections : Sections[report] # <<>>
    BY DEF Sections
  <2>. QED  BY <2>1, <2>2 DEF Shows
<1>. QED  BY <1>1, <1>2, PageStep, TypeAlways, RingAlways, PTL DEF LogSpec
=============================================================================
