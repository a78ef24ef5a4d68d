--------------------------- MODULE AdaptiveLimiter ---------------------------
(***************************************************************************)
(* AdaptiveRateLimiter over RateLimiter over Semaphore                     *)
(* (app/common/performance/semaphore.go).  A RateLimiter is a channel in   *)
(* which requests put a mark and from which a goroutine takes one mark a   *)
(* tick.  adjustRate replaces the limiter: generation g is the g-th one,   *)
(* and a request works on the generation it read, without the mutex.       *)
(***************************************************************************)
EXTENDS Naturals, FiniteSets

CONSTANTS
    Request,                      \* callers of Wait, WaitWithTimeout or Allow
    baseRate, minRate, maxRate,   \* minRate <= baseRate <= maxRate
    MaxGen,                       \* bound on replacements
    MaxRecords                    \* bound on outcomes between two adjustments

Gen == 1 .. MaxGen

VARIABLES
    currentRate,
    rateLimiter,    \* the generation in use
    capacity, marks,  \* generation -> size of its channel, marks in it
    bucket,         \* generation -> its goroutine: none, running or gone
    successCount, errorCount,
    mutex,          \* who holds it: none, adjust or a request
    adjust,         \* adaptiveAdjust: idle, stopping or replacing
    stopper,        \* Stop of the adaptive limiter: no, sending or done
    pc, on          \* request -> its point, the generation it works on

vars == <<currentRate, rateLimiter, capacity, marks, bucket, successCount, errorCount, mutex,
          adjust, stopper, pc, on>>
limiterVars == <<rateLimiter, capacity, marks, bucket>>
countVars == <<currentRate, successCount, errorCount>>

Init ==
    /\ currentRate = baseRate /\ rateLimiter = 1
    /\ capacity = [g \in Gen |-> IF g = 1 THEN baseRate ELSE 0]
    /\ marks = [g \in Gen |-> 0]
    /\ bucket = [g \in Gen |-> IF g = 1 THEN "running" ELSE "none"]
    /\ successCount = 0 /\ errorCount = 0
    /\ mutex = "none" /\ adjust = "idle" /\ stopper = "no"
    /\ pc = [r \in Request |-> "idle"] /\ on = [r \in Request |-> 0]

\* Allow, Wait and WaitWithTimeout read the limiter in use.
Call(r, p) ==
    /\ pc[r] = "idle" /\ p \in {"allow", "wait", "waitTimeout"}
    /\ pc' = [pc EXCEPT ![r] = p] /\ on' = [on EXCEPT ![r] = rateLimiter]
    /\ UNCHANGED <<limiterVars, countVars, mutex, adjust, stopper>>

\* The send into the channel, when there is room.
Acquire(r) ==
    /\ pc[r] \in {"allow", "wait", "waitTimeout"} /\ marks[on[r]] < capacity[on[r]]
    /\ marks' = [marks EXCEPT ![on[r]] = @ + 1]
    /\ pc' = [pc EXCEPT ![r] = "through"]
    /\ UNCHANGED <<rateLimiter, capacity, bucket, countVars, mutex, adjust, stopper, on>>

\* TryAcquire without room, AcquireWithTimeout when the time is over.
Refused(r) ==
    /\ \/ pc[r] = "allow" /\ marks[on[r]] = capacity[on[r]]
       \/ pc[r] = "waitTimeout"
    /\ pc' = [pc EXCEPT ![r] = "refused"]
    /\ UNCHANGED <<limiterVars, countVars, mutex, adjust, stopper, on>>

\* RecordSuccess and RecordError of a request that was let through.
Record(r) ==
    /\ pc[r] = "through" /\ mutex = "none" /\ successCount + errorCount < MaxRecords
    /\ \/ successCount' = successCount + 1 /\ UNCHANGED errorCount
       \/ errorCount' = errorCount + 1 /\ UNCHANGED successCount
    /\ pc' = [pc EXCEPT ![r] = "idle"]
    /\ UNCHANGED <<limiterVars, currentRate, mutex, adjust, stopper, on>>

\* Mutant: the goroutine of a limiter outlives its Stop.
TickForever(g) ==
    /\ bucket[g] \in {"running", "gone"} /\ marks[g] > 0
    /\ marks' = [marks EXCEPT ![g] = @ - 1]
    /\ UNCHANGED <<rateLimiter, capacity, bucket, countVars, mutex, adjust, stopper, pc, on>>

\* A tick of the token bucket takes a mark out; Stop of the ticker ends the ticks before
\* the goroutine is told to leave.
Tick(g) ==
    /\ bucket[g] = "running" /\ marks[g] > 0
    /\ marks' = [marks EXCEPT ![g] = @ - 1]
    /\ UNCHANGED <<rateLimiter, capacity, bucket, countVars, mutex, adjust, stopper, pc, on>>

\* The rate for the outcomes seen: one up over 90%, one down below 70%, within the limits.
AdjustedRate ==
    LET total == successCount + errorCount IN
    CASE 10 * successCount > 9 * total ->
            IF currentRate + 1 < maxRate THEN currentRate + 1 ELSE maxRate
      [] 10 * successCount < 7 * total ->
            IF currentRate > minRate + 1 THEN currentRate - 1 ELSE minRate
      [] OTHER -> currentRate

\* adjustRate up to Stop of the old limiter; nothing to do without outcomes.
AdjustRate ==
    /\ adjust = "idle" /\ mutex = "none" /\ successCount + errorCount > 0
    /\ rateLimiter < MaxGen
    /\ mutex' = "adjust" /\ adjust' = "stopping"
    /\ currentRate' = AdjustedRate
    /\ UNCHANGED <<limiterVars, successCount, errorCount, stopper, pc, on>>

\* The rendezvous of quit: the goroutine of the limiter leaves.
StopOld ==
    /\ adjust = "stopping" /\ bucket[rateLimiter] = "running"
    /\ bucket' = [bucket EXCEPT ![rateLimiter] = "gone"]
    /\ adjust' = "replacing"
    /\ UNCHANGED <<rateLimiter, capacity, marks, countVars, mutex, stopper, pc, on>>

Replace ==
    /\ adjust = "replacing"
    /\ rateLimiter' = rateLimiter + 1
    /\ capacity' = [capacity EXCEPT ![rateLimiter + 1] = currentRate]
    /\ bucket' = [bucket EXCEPT ![rateLimiter + 1] = "running"]
    /\ successCount' = 0 /\ errorCount' = 0
    /\ mutex' = "none" /\ adjust' = "idle"
    /\ UNCHANGED <<marks, currentRate, stopper, pc, on>>

\* AdaptiveRateLimiter.Stop stops the limiter in use, without the mutex; adaptiveAdjust
\* goes on.
Stop ==
    /\ stopper = "no" /\ bucket[rateLimiter] = "running"
    /\ bucket' = [bucket EXCEPT ![rateLimiter] = "gone"]
    /\ stopper' = "done"
    /\ UNCHANGED <<rateLimiter, capacity, marks, countVars, mutex, adjust, pc, on>>

Next ==
    \/ \E r \in Request :
          \/ \E p \in {"allow", "wait", "waitTimeout"} : Call(r, p)
          \/ Acquire(r) \/ Refused(r) \/ Record(r)
    \/ \E g \in Gen : Tick(g)
    \/ AdjustRate \/ StopOld \/ Replace \/ Stop

\* Tickers fire, goroutines run; nobody has to call.
Fairness ==
    /\ \A g \in Gen : WF_vars(Tick(g))
    /\ \A r \in Request : SF_vars(Acquire(r))
    /\ WF_vars(StopOld) /\ WF_vars(Replace)

Spec == Init /\ [][Next]_vars /\ Fairness

-----------------------------------------------------------------------------
\* The type invariant of the limiter.
TypeOK ==
    /\ currentRate \in minRate .. maxRate /\ rateLimiter \in Gen
    /\ capacity \in [Gen -> Nat] /\ marks \in [Gen -> Nat]
    /\ bucket \in [Gen -> {"none", "running", "gone"}]
    /\ successCount \in 0 .. MaxRecords /\ errorCount \in 0 .. MaxRecords
    /\ mutex \in {"none", "adjust"} /\ adjust \in {"idle", "stopping", "replacing"}
    /\ stopper \in {"no", "done"} /\ on \in [Request -> Gen \cup {0}]
    /\ pc \in [Request -> {"idle", "allow", "wait", "waitTimeout", "through", "refused"}]

\* At most one token goroutine runs, that of the limiter in use, and the limiter in use has
\* the rate adjustRate last computed unless it is about to be replaced.
OneBucket ==
    /\ \A g \in Gen : bucket[g] = "running" => g = rateLimiter
    /\ \A g \in Gen : marks[g] <= capacity[g]
    /\ adjust = "idle" => capacity[rateLimiter] = currentRate

Stuck(r) == pc[r] = "wait" /\ bucket[on[r]] = "gone" /\ marks[on[r]] >= capacity[on[r]]

\* Of a step: a Wait on a limiter that was replaced, or stopped, with its channel full waits for ever:
\* nothing takes a mark out of that channel again.
StuckIsForever == \A r \in Request : Stuck(r) => Stuck(r)'

\* Of a step: after Stop, the next adjustment blocks on the second Stop of the same limiter with the
\* mutex held, and from then on no outcome is recorded and no limiter replaced.
StoppedAdjustHangs ==
    adjust = "stopping" /\ bucket[rateLimiter] = "gone"
    => UNCHANGED <<adjust, mutex, rateLimiter, successCount, errorCount>>

\* A Wait is served, unless the limiter it waits on is stopped meanwhile.
Waiting(r) == pc[r] = "wait" /\ capacity[on[r]] > 0
Served(r) == pc[r] # "wait" \/ bucket[on[r]] = "gone"
WaitIsServed == \A r \in Request : Waiting(r) ~> Served(r)

\* "Wait 等待获取令牌": a request that waits gets its token.
EveryWaitIsServed == \A r \in Request : pc[r] = "wait" ~> pc[r] # "wait"
=============================================================================
