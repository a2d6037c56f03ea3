------------------------------ MODULE RateLimits ------------------------------
(***************************************************************************)
(* The rate limits of the API and of the tools: the middleware asks a      *)
(* stricter limiter for the path and then the general one, both token      *)
(* buckets in memory or fixed windows in Redis, and the tool registry a    *)
(* sliding window (apps/api/rate_limit_middleware.py,                      *)
(* packages/common/rate_limit.py, packages/data/adapters/redis_rate_limit, *)
(* packages/agent/registry.py).  One client; time in ticks.                *)
(***************************************************************************)
EXTENDS Naturals, Sequences, FiniteSets

CONSTANTS
    Limiters,          \* the limiters a request passes, in order: path, general
    MaxRequests,       \* limiter -> requests per window
    Burst,             \* burst_multiplier
    WindowTicks,       \* window_seconds, and Redis' expiry
    BucketTtl, PurgeInterval,
    MaxToolCalls,      \* a tool's calls per window
    MaxCount,          \* bound on a Redis counter, above every limit
    LastTick            \* bound on the clock

ASSUME RateAssumption == {Burst, WindowTicks, MaxToolCalls} \subseteq Nat \ {0} /\ BucketTtl >= WindowTicks

VARIABLES
    backend,     \* what this instance uses: "memory", "redis", or a tool's limiter
    clock,
    bucket,      \* limiter -> its bucket in memory
    lastPurge,   \* limiter -> the last purge
    window,      \* limiter -> its counter in Redis and when it expires
    toolCalls,   \* the registry's list of calls
    admitted     \* the times of the requests let through

rateVars == <<backend, clock, bucket, lastPurge, window, toolCalls, admitted>>

Places == 1..Len(Limiters)
\* Tokens are counted in parts of WindowTicks, so that a tick refills
\* MaxRequests parts.
Full(l) == MaxRequests[l] * Burst * WindowTicks
NoBucket == [on |-> FALSE, tokens |-> 0, refill |-> 0, access |-> 0]
NoWindow == [count |-> 0, expires |-> 0]

\* A bucket holds between nothing and its burst, a counted window ends within
\* one window length from now, and no tool call is in the future.
RateTypeOK ==
    /\ \A l \in Places : bucket[l].tokens \in 0..Full(l) /\ bucket[l].refill <= clock /\ window[l].count \in Nat
    /\ \A l \in Places : window[l].count > 0 => window[l].expires \in clock..clock + WindowTicks
    /\ \A i \in DOMAIN toolCalls : toolCalls[i] <= clock

RateInit ==
    /\ backend = "none" /\ clock = 0 /\ toolCalls = <<>>
    /\ bucket = [l \in Places |-> NoBucket] /\ window = [l \in Places |-> NoWindow]
    /\ lastPurge = [l \in Places |-> 0]
    /\ admitted = <<>>

\* _build_limiter: Redis when it has a URL, memory in local and test.
BuildLimiter ==
    /\ backend = "none" /\ backend' \in {"memory", "redis", "tool"}
    /\ UNCHANGED <<clock, bucket, lastPurge, window, toolCalls, admitted>>

\* Redis drops a counter when its time has come.
TickRate ==
    /\ backend # "none" /\ clock < LastTick /\ clock' = clock + 1
    /\ window' = [l \in Places |-> IF window[l].expires = clock' THEN NoWindow ELSE window[l]]
    /\ UNCHANGED <<backend, bucket, lastPurge, toolCalls, admitted>>

-----------------------------------------------------------------------------
Refilled(b, l) ==
    LET sum == b.tokens + (clock - b.refill) * MaxRequests[l]
    IN IF sum < Full(l) THEN sum ELSE Full(l)

\* A bucket idle for longer than the window starts full again.
Touched(l) ==
    LET b == bucket[l]
    IN [on |-> TRUE, refill |-> clock, access |-> clock,
        tokens |-> IF ~b.on \/ clock - b.refill > WindowTicks THEN Full(l) ELSE Refilled(b, l)]

Charged(l) == LET b == Touched(l) IN IF b.tokens >= WindowTicks THEN [b EXCEPT !.tokens = @ - WindowTicks] ELSE b

\* is_allowed ends with the purge, which drops the idle buckets of every
\* client.
PurgesAll(l, b) == IF clock - lastPurge[l] < PurgeInterval THEN b ELSE NoBucket   \* seeded fault
Purged(l, b) == IF clock - lastPurge[l] >= PurgeInterval /\ b.access + BucketTtl < clock THEN NoBucket ELSE b

\* The limiters a request reaches: it stops at the first that refuses.
Reached(allowing) == {l \in Places : 1..l - 1 \subseteq allowing}

MemoryAllows(l) == Touched(l).tokens >= WindowTicks
ReachedMemory == Reached({l \in Places : MemoryAllows(l)})
MemoryRequest ==
    /\ backend = "memory"
    /\ bucket' = [l \in Places |-> IF l \in ReachedMemory THEN Purged(l, Charged(l)) ELSE bucket[l]]
    /\ lastPurge' = [l \in Places |->
         IF l \in ReachedMemory /\ clock - lastPurge[l] >= PurgeInterval THEN clock ELSE lastPurge[l]]
    /\ admitted' = IF \A l \in Places : MemoryAllows(l) THEN Append(admitted, clock) ELSE admitted
    /\ UNCHANGED <<backend, clock, window, toolCalls>>

\* Another client's request reaches limiter l and purges.
OtherRequest(l) ==
    /\ backend = "memory" /\ clock - lastPurge[l] >= PurgeInterval
    /\ bucket' = [bucket EXCEPT ![l] = Purged(l, @)]
    /\ lastPurge' = [lastPurge EXCEPT ![l] = clock]
    /\ UNCHANGED <<backend, clock, window, toolCalls, admitted>>

-----------------------------------------------------------------------------
\* The script: the first increment of a window sets its expiry.
Incremented(w) == [count |-> w.count + 1, expires |-> IF w.count = 0 THEN clock + WindowTicks ELSE w.expires]

RedisLimit(l) == MaxRequests[l] * Burst
RedisAllows(l) == window[l].count + 1 <= RedisLimit(l)
ReachedRedis == Reached({l \in Places : RedisAllows(l)})

RedisRequest ==
    /\ backend = "redis" /\ \A l \in Places : window[l].count < MaxCount
    /\ window' = [l \in Places |-> IF l \in ReachedRedis THEN Incremented(window[l]) ELSE window[l]]
    /\ admitted' = IF \A l \in Places : RedisAllows(l) THEN Append(admitted, clock) ELSE admitted
    /\ UNCHANGED <<backend, clock, bucket, lastPurge, toolCalls>>

\* A timeout is answered 503; the increment may have been made.
RedisTimeout ==
    /\ backend = "redis" /\ \A l \in Places : window[l].count < MaxCount
    /\ \E l \in Places : \E done \in BOOLEAN :
        /\ l \in ReachedRedis
        /\ window' = [i \in Places |-> IF i < l \/ (i = l /\ done) THEN Incremented(window[i]) ELSE window[i]]
    /\ UNCHANGED <<backend, clock, bucket, lastPurge, toolCalls, admitted>>

-----------------------------------------------------------------------------
InWindow(t) == t + WindowTicks > clock

AcquireToolCall ==
    /\ backend = "tool"
    /\ LET calls == SelectSeq(toolCalls, InWindow)
       IN IF Len(calls) >= MaxToolCalls THEN toolCalls' = calls /\ UNCHANGED admitted
          ELSE toolCalls' = Append(calls, clock) /\ admitted' = Append(admitted, clock)
    /\ UNCHANGED <<backend, clock, bucket, lastPurge, window>>

RateNext == BuildLimiter \/ TickRate \/ MemoryRequest \/ (\E l \in Places : OtherRequest(l)) \/ RedisRequest \/ RedisTimeout \/ AcquireToolCall

-----------------------------------------------------------------------------
\* Requests of a log within the window that ends at its i-th.
InLastWindow(log, i) == {j \in 1..i : log[j] + WindowTicks > log[i]}

\* In no window of window_seconds does a bucket let more through than its
\* burst and the refill of one window, resets and purges included.
MemoryBounded ==
    \A i \in DOMAIN admitted : backend = "memory" =>
        \A l \in Places : Cardinality(InLastWindow(admitted, i)) <= MaxRequests[l] * (Burst + 1)

\* In no window of the expiry's length does Redis let more than two windows'
\* limits through: the boundary of fixed windows costs one limit, a timed
\* out increment costs nothing.
RedisBounded ==
    \A i \in DOMAIN admitted : backend = "redis" =>
        \A l \in Places : Cardinality(InLastWindow(admitted, i)) <= 2 * RedisLimit(l)

\* A client that Redis refuses is let in again when the window it exhausted
\* has passed: requests made meanwhile do not put off the expiry.
RedisReopens == [][\A l \in Places : window[l].count > 0 /\ window'[l].count > 0 => window'[l].expires = window[l].expires]_rateVars

\* A tool is called at most its limit in every sliding window.
ToolBounded ==
    \A i \in DOMAIN admitted : backend = "tool" => Cardinality(InLastWindow(admitted, i)) <= MaxToolCalls
=============================================================================
