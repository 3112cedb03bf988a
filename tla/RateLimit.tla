------------------------------ MODULE RateLimit ------------------------------
(* The token buckets of one API process (apps/api/app/ratelimit.py): request  *)
(* threads read the clock, then take the lock and spend a token.              *)
(*                                                                            *)
(* Time passes in ticks and a token is divided into Token parts, so that a    *)
(* refill rate of less than a token a second is exact; the code's floats are  *)
(* not modelled.                                                              *)
EXTENDS Integers, FiniteSets

CONSTANTS
    Threads,
    BucketKeys,      \* (organisation, route)
    Token,           \* parts of one token
    RefillRate,      \* parts a tick adds (qps)
    Burst,           \* capacity in parts, at least one token
    TicksPerSecond,
    EvictFrom,       \* number of buckets from which idle ones are dropped (1024)
    IdleTicks,       \* ticks a bucket must be idle for that (an hour)
    MaxTicks,        \* bound: the clock
    Unset

ASSUME LimiterAssumption ==
    /\ Token \in Nat \ {0} /\ RefillRate \in Nat \ {0} /\ Burst \in Nat
    /\ Burst >= Token                       \* max(burst, 1.0)
    /\ TicksPerSecond \in Nat \ {0} /\ EvictFrom \in Nat
    /\ IdleTicks \in Nat
    /\ Unset \notin Int \cup [tokens : Int, updatedAt : Int] \cup [key : BucketKeys, now : Int]

VARIABLES
    ticks,      \* time.monotonic()
    thread,     \* per thread: Unset, or the key it checks and the time it read
    buckets,    \* per key: Unset, or tokens and updated_at
    promise     \* history: when the last refusal of a key said to come back

limiterVars == <<ticks, thread, buckets, promise>>

LimiterInit ==
    /\ ticks = 0
    /\ thread = [t \in Threads |-> Unset]
    /\ buckets = [k \in BucketKeys |-> Unset]
    /\ promise = [k \in BucketKeys |-> Unset]

AtMost(a, b) == IF a <= b THEN a ELSE b
AtLeast(a, b) == IF a >= b THEN a ELSE b

\* check reads the clock before it waits for the lock.
ReadClock(t, k) ==
    /\ thread[t] = Unset
    /\ thread' = [thread EXCEPT ![t] = [key |-> k, now |-> ticks]]
    /\ UNCHANGED <<ticks, buckets, promise>>

\* _evict_idle
Kept(now) ==
    LET present == {k \in BucketKeys : buckets[k] # Unset}
    IN  [k \in BucketKeys |->
            IF /\ k \in present /\ Cardinality(present) >= EvictFrom
               /\ now - buckets[k].updatedAt > IdleTicks
              THEN Unset ELSE buckets[k]]

\* The bucket of a key at a time: full when new, refilled up to its capacity.
Refilled(b, now) ==
    IF b = Unset THEN Burst
    ELSE AtMost(Burst, b.tokens + AtLeast(0, now - b.updatedAt) * RefillRate)

RoundedDownMutant(tokens) ==
    AtLeast(1, (Token - tokens) \div (RefillRate * TicksPerSecond))

\* Retry-After in whole seconds, rounded up and never 0.
RetryAfter(tokens) ==
    LET perSecond == RefillRate * TicksPerSecond
    IN  AtLeast(1, (Token - tokens + perSecond - 1) \div perSecond)

\* The rest of check, under the lock.
SpendToken(t) ==
    /\ thread[t] # Unset
    /\ LET k == thread[t].key
           now == thread[t].now
           kept == Kept(now)
           tokens == Refilled(kept[k], now)
           ok == tokens >= Token
       IN  /\ buckets' = [kept EXCEPT ![k] =
                             [tokens |-> IF ok THEN tokens - Token ELSE tokens,
                              updatedAt |-> now]]
           /\ promise' = [promise EXCEPT ![k] =
                             IF ok THEN Unset ELSE ticks + RetryAfter(tokens) * TicksPerSecond]
    /\ thread' = [thread EXCEPT ![t] = Unset]
    /\ UNCHANGED ticks

ClockTick ==
    /\ ticks < MaxTicks
    /\ ticks' = ticks + 1
    /\ UNCHANGED <<thread, buckets, promise>>

LimiterNext ==
    \/ \E t \in Threads : SpendToken(t) \/ \E k \in BucketKeys : ReadClock(t, k)
    \/ ClockTick

(* ------------------------------- properties ------------------------------- *)
\* A client that was refused and comes back no sooner than Retry-After says is
\* admitted, unless another request of its organisation spent a token meanwhile:
\* whatever the threads' stale clock readings and evictions, the bucket then
\* holds a token (RateLimiter.check).
RetryAfterSuffices ==
    \A k \in BucketKeys :
        promise[k] # Unset /\ ticks >= promise[k] => Refilled(buckets[k], ticks) >= Token
=============================================================================
