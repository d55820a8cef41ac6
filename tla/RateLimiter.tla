------------------------------ MODULE RateLimiter ------------------------------
(***************************************************************************)
(* One token bucket of api/rate_limit.rs: the bucket of a client IP, or    *)
(* the single bucket of a per-profile limiter.  Tokens are fractional in   *)
(* the code; here they are counted in units, Window units to the token, so *)
(* that RPM units arrive per tick of the clock when Window ticks make up   *)
(* the minute of "requests per minute".  Callers are the handlers running  *)
(* on the runtime's threads: each samples the clock, then takes the lock   *)
(* of the bucket's map entry, in that order.                               *)
(***************************************************************************)
EXTENDS Integers, Sequences

CONSTANTS Callers,
          RPM,        \* rate_limit_rpm; a limiter exists only when it is positive
          Window,     \* ticks per minute: 60 when a tick is a second
          MaxClock    \* bound on the clock

ASSUME RateAssumption ==
    /\ RPM \in Nat \ {0}
    /\ Window \in Nat \ {0}
    /\ MaxClock \in Nat

\* Burst capacity: ceil(rpm / 2) tokens.
Capacity == ((RPM + 1) \div 2) * Window

VARIABLES
    clock,      \* the monotonic clock Instant reads
    present,    \* whether the map has an entry for this bucket
    tokens,     \* Bucket.tokens, in units
    last,       \* Bucket.last_refill
    sampled,    \* the callers that have sampled the clock and not yet the bucket
    now,        \* the instant each caller sampled
    log,        \* history: the instant each admission was granted for, in order
    created,    \* history: the instant the bucket started from
    backwards   \* history: how far admissions have moved last_refill back in all

bucketVars == <<clock, present, tokens, last, sampled, now, log, created, backwards>>

BucketInit ==
    /\ clock = 0
    /\ present = FALSE
    /\ tokens = Capacity
    /\ last = 0
    /\ sampled = {}
    /\ now = [c \in Callers |-> 0]
    /\ log = <<>>
    /\ created = 0
    /\ backwards = 0

-----------------------------------------------------------------------------
\* duration_since saturates: an instant before last_refill has elapsed nothing.
Elapsed(n) == IF present /\ n > last THEN n - last ELSE 0

\* Seeded fault: the burst cap is forgotten.
AvailableUncapped(n) == tokens + Elapsed(n) * RPM

\* new_tokens: what the bucket holds for a caller whose instant is n.
Available(n) ==
    LET refilled == tokens + Elapsed(n) * RPM
    IN IF refilled <= Capacity THEN refilled ELSE Capacity

\* Seeded fault: the wait is rounded down.
RetryAfterFloor(n) == (Window - Available(n)) \div RPM

\* The Retry-After of a rejection: the missing units over the rate, rounded up.
RetryAfter(n) == (Window - Available(n) + RPM - 1) \div RPM

\* Seeded fault: last_refill is not advanced, so an interval is credited again.
AdmitKeepsRefill(n) ==
    /\ Available(n) >= Window
    /\ present' = TRUE
    /\ tokens' = Available(n) - Window
    /\ last' = IF present THEN last ELSE n
    /\ log' = Append(log, n)
    /\ created' = IF present THEN created ELSE n
    /\ backwards' = backwards

\* check, under the entry lock, when a full token is available.
Admit(n) ==
    /\ Available(n) >= Window
    /\ present' = TRUE
    /\ tokens' = Available(n) - Window
    /\ last' = n
    /\ log' = Append(log, n)
    /\ created' = IF present THEN created ELSE n
    /\ backwards' = backwards + (IF present /\ n < last THEN last - n ELSE 0)

\* check, under the entry lock, when it is not: the bucket keeps its old values.
Reject(n) ==
    /\ Available(n) < Window
    /\ UNCHANGED <<present, tokens, last, log, created, backwards>>

-----------------------------------------------------------------------------
Tick ==
    /\ clock < MaxClock
    /\ clock' = clock + 1
    /\ UNCHANGED <<present, tokens, last, sampled, now, log, created, backwards>>

\* let now = Instant::now(), before the entry is locked.
Sample(c) ==
    /\ c \notin sampled
    /\ now' = [now EXCEPT ![c] = clock]
    /\ sampled' = sampled \union {c}
    /\ UNCHANGED <<clock, present, tokens, last, log, created, backwards>>

Check(c) ==
    /\ c \in sampled
    /\ Admit(now[c]) \/ Reject(now[c])
    /\ sampled' = sampled \ {c}
    /\ UNCHANGED <<clock, now>>

BucketNext == Tick \/ \E c \in Callers : Sample(c) \/ Check(c)

BucketSpec == BucketInit /\ [][BucketNext]_bucketVars

-----------------------------------------------------------------------------
\* The bucket is never overdrawn and never holds more than the burst capacity,
\* and no instant lies in the future.
BucketTypeOK ==
    /\ clock \in 0 .. MaxClock
    /\ present \in BOOLEAN
    /\ tokens \in 0 .. Capacity
    /\ last \in 0 .. clock
    /\ sampled \in SUBSET Callers
    /\ now \in [Callers -> 0 .. clock]
    /\ log \in Seq(Nat)
    /\ created \in Nat
    /\ backwards \in Nat

\* Every unit ever spent or still held was in the first burst or arrived at RPM
\* per tick; a caller that comes late to the lock re-credits exactly the time
\* by which it moves last_refill back, and nothing else does.
CreditBound ==
    present => Len(log) * Window + tokens <= Capacity + RPM * (last - created + backwards)

\* "Tokens refill steadily at rpm / 60 tokens/second": between any two
\* admissions no more than a burst and the refill of that time are granted,
\* unless a caller came late to the lock.
SteadyRate ==
    backwards = 0 =>
        \A i, j \in DOMAIN log : i <= j =>
            (j - i + 1) * Window <= Capacity + RPM * (log[j] - log[i])

\* Retry-After is "the exact wait before the bucket has a token again": after it
\* a check succeeds if nobody else was admitted, and a tick earlier it does not.
RetryExact ==
    \A n \in last .. MaxClock : Available(n) < Window =>
        LET wait == RetryAfter(n)
        IN Available(n + wait) >= Window /\ Available(n + wait - 1) < Window
=============================================================================
