---------------------------- MODULE RateLimiters ----------------------------
(***************************************************************************)
(* The rate limiters of the gateway: TokenBucket of limiter.go, in the     *)
(* memory of one process, and the token bucket, sliding window and fixed   *)
(* window of rate_limiter.go, each one a script Redis runs at once.  All   *)
(* the requests have one key; `limiter` says which limiter guards them.    *)
(*                                                                         *)
(* Time passes in seconds, the resolution of time.Now().Unix().          *)
(* TokenBucket adds rate tokens a second: `tokens` is in units of 1/Part   *)
(* of a token and one unit is added a second.                              *)
(***************************************************************************)
EXTENDS Integers, FiniteSets, FiniteSetsExt

CONSTANTS
    capacity, refillRate, refillPeriod,  \* of the token buckets
    limit, window,                       \* of the windows
    KeyTTL,                              \* the 3600 seconds of EXPIRE
    Part,
    MaxTime, MaxCalls                    \* bounds: the clock, calls in one second

VARIABLES
    limiter,
    now, calls,
    tokens, last,   \* tokens and lastRefill (lastToken); last = -1: no such key
    stamps,         \* sliding window: the members of the sorted set
    count,          \* fixed window: window start -> its counter
    admitted        \* second -> requests the limiter admitted up to its end

store == <<tokens, last, stamps, count>>
vars == <<limiter, now, calls, store, admitted>>

\* AdaptiveRateLimiter answers as the limiter under it does, at a load that is always 0.5.
Limiters == {"local", "bucket", "sliding", "fixed", "missing"}
Time == 0 .. MaxTime
TruncateToWindow(t) == window * (t \div window)

\* LimiterHandler starts its bucket empty with the zero time: the first call fills it.
Init ==
    /\ limiter \in Limiters
    /\ now = 0 /\ calls = 0
    /\ tokens = 0 /\ last = -1 /\ stamps = {}
    /\ count = [w \in {TruncateToWindow(t) : t \in Time} |-> 0]
    /\ admitted = [t \in Time |-> 0]

Admits(yes) ==
    admitted' = IF yes THEN [t \in Time |-> IF t < now THEN admitted[t] ELSE admitted[t] + 1]
                ELSE admitted

\* TokenBucket.Allow: what has passed since the last admission is added by every call.
LocalAllow ==
    LET credited == IF last = -1 THEN capacity * Part
                    ELSE Min({tokens + (now - last), capacity * Part})
        yes == credited >= Part
    IN  /\ limiter = "local"
        /\ tokens' = IF yes THEN credited - Part ELSE credited
        /\ last' = IF yes THEN now ELSE last
        /\ Admits(yes)
        /\ UNCHANGED <<stamps, count>>

\* Mutant: the bucket is filled beyond its capacity.
FilledUnbounded(t, passed) == t + (passed \div refillPeriod) * refillRate

Filled(t, passed) == Min({capacity, t + (passed \div refillPeriod) * refillRate})

\* The script of TokenBucketRateLimiter.Allow; lastRefill moves at every call.
BucketAllow ==
    LET t == IF last = -1 THEN Filled(capacity, 0) ELSE Filled(tokens, now - last)
    IN  /\ limiter = "bucket"
        /\ tokens' = IF t >= 1 THEN t - 1 ELSE t
        /\ last' = now
        /\ Admits(t >= 1)
        /\ UNCHANGED <<stamps, count>>

\* Mutant: the requests at the start of the window are kept out of the count.
RecentShort == {s \in stamps : s > now - window + 1}

Recent == {s \in stamps : s > now - window}

\* The script of SlidingWindowRateLimiter.Allow: score and member are the second, so the
\* requests of one second are one member.
SlidingAllow ==
    LET yes == Cardinality(Recent) < limit
    IN  /\ limiter = "sliding"
        /\ stamps' = IF yes THEN Recent \cup {now} ELSE Recent
        /\ last' = IF yes THEN now ELSE last
        /\ Admits(yes)
        /\ UNCHANGED <<tokens, count>>

\* The script of FixedWindowRateLimiter.Allow: a counter for each aligned window.
FixedAllow ==
    LET w == TruncateToWindow(now)
        yes == count[w] < limit
    IN  /\ limiter = "fixed"
        /\ count' = IF yes THEN [count EXCEPT ![w] = @ + 1] ELSE count
        /\ Admits(yes)
        /\ UNCHANGED <<tokens, last, stamps>>

\* RateLimitMiddleware: a limiter nobody registered, and a script Redis did not run, let the
\* request through past any limit.  When the script ran and only its reply is lost, the
\* request passes too, whatever the script decided: the step is the script's own.
Unlimited ==
    /\ limiter # "local"
    /\ UNCHANGED <<store, admitted>>

RateLimitMiddleware ==
    /\ calls < MaxCalls /\ calls' = calls + 1
    /\ LocalAllow \/ BucketAllow \/ SlidingAllow \/ FixedAllow \/ Unlimited
    /\ UNCHANGED <<limiter, now>>

\* A second passes; Redis drops a key whose time has come.  The counter of a fixed window
\* lives for a window after its last increment, and is not read by then.
Tick ==
    LET expires == limiter \in {"bucket", "sliding"} /\ last # -1 /\ now + 1 - last >= KeyTTL
    IN  /\ now < MaxTime
        /\ now' = now + 1 /\ calls' = 0
        /\ last' = IF expires THEN -1 ELSE last
        /\ stamps' = IF expires THEN {} ELSE stamps
        /\ tokens' = IF expires THEN 0 ELSE tokens
        /\ UNCHANGED <<limiter, count, admitted>>

Next == RateLimitMiddleware \/ Tick

Spec == Init /\ [][Next]_vars

-----------------------------------------------------------------------------
\* The requests let through up to the end of a second, and in those of a span of time.
AdmittedBy(t) ==
    IF t < 0 THEN 0 ELSE IF t > MaxTime THEN admitted[MaxTime] ELSE admitted[t]

Admitted(from, to) == AdmittedBy(to) - AdmittedBy(from - 1)

\* The type invariant of the limiters.
TypeOK ==
    /\ limiter \in Limiters /\ now \in Time /\ calls \in 0 .. MaxCalls
    /\ tokens \in Nat /\ last \in Time \cup {-1} /\ stamps \subseteq Time
    /\ admitted \in [Time -> Nat]

\* A fixed window lets through `limit` requests in each window of its own, and up to twice
\* as many in a window that lies across two of them.
FixedBound ==
    limiter = "fixed" =>
        \A t \in Time :
            /\ Admitted(TruncateToWindow(t), TruncateToWindow(t) + window - 1) <= limit
            /\ Admitted(t, t + window - 1) <= 2 * limit

\* A sliding window lets requests through in at most `limit` different seconds of any
\* window, however many requests each of these seconds had.
SlidingBound ==
    limiter = "sliding" =>
        \A t \in Time :
            Cardinality({s \in Time : t <= s /\ s < t + window /\ Admitted(s, s) > 0}) <= limit

\* From any second on the bucket lets through its capacity and what was refilled since.
\* KeyTTL is long enough to fill an empty bucket.
BucketBound ==
    limiter = "bucket" =>
        \A t \in 0 .. now :
            Admitted(t, now) <= capacity + refillRate * ((now - t) \div refillPeriod)

\* "limit": no more than limit requests of any window pass the sliding window.
SlidingIsExact ==
    limiter = "sliding" => \A t \in Time : Admitted(t, t + window - 1) <= limit

\* rate: TokenBucket lets through its capacity and one request a Part seconds.
LocalBound == limiter = "local" => Part * Admitted(0, now) <= capacity * Part + now

\* refillPeriod: a bucket that was asked all the time has a token again after a period.
BucketRefills ==
    limiter = "bucket" /\ calls > 0 /\ now >= refillPeriod /\ Admitted(0, now) = capacity
    => Admitted(now - refillPeriod, now) > 0
=============================================================================
