---------------------------- MODULE MCResilience ----------------------------
(***************************************************************************)
(* The breakers, pools, limiters, guards and retries on small instances.   *)
(* They share nothing: a behaviour is one of the part `part`.  The breaker *)
(* of the discovery package, which the proofs are about, is extended with  *)
(* its own variables; the other parts take their variables from the slots  *)
(* s1, s2, ..., which mean nothing beyond the part that runs.  Slots a     *)
(* part does not need hold 0.                                              *)
(***************************************************************************)
EXTENDS CircuitBreaker, Sequences

VARIABLES part, s1, s2, s3, s4, s5, s6, s7, s8, s9, s10, s11, s12

slots == <<s1, s2, s3, s4, s5, s6, s7, s8, s9, s10, s11, s12>>
allVars == <<part, vars, slots>>

\* Slots n + 1, n + 2, ... are not used.
Blank(x, i, n) == IF i > n THEN x = 0 ELSE TRUE
Unused(n) ==
    /\ Blank(s1, 1, n) /\ Blank(s2, 2, n) /\ Blank(s3, 3, n) /\ Blank(s4, 4, n)
    /\ Blank(s5, 5, n) /\ Blank(s6, 6, n) /\ Blank(s7, 7, n) /\ Blank(s8, 8, n)
    /\ Blank(s9, 9, n) /\ Blank(s10, 10, n) /\ Blank(s11, 11, n) /\ Blank(s12, 12, n)

Same(x, i, n) == IF i > n THEN UNCHANGED x ELSE TRUE
Kept(n) ==
    /\ Same(s1, 1, n) /\ Same(s2, 2, n) /\ Same(s3, 3, n) /\ Same(s4, 4, n)
    /\ Same(s5, 5, n) /\ Same(s6, 6, n) /\ Same(s7, 7, n) /\ Same(s8, 8, n)
    /\ Same(s9, 9, n) /\ Same(s10, 10, n) /\ Same(s11, 11, n) /\ Same(s12, 12, n)

-----------------------------------------------------------------------------
Gateway == INSTANCE GatewayBreaker WITH
    Callers <- {"a", "b", "c"}, Middleware <- {"a", "b"}, MaxAdmitted <- 3,
    cb <- s1, running <- s2, answer <- s3

Pool == INSTANCE WorkerPool WITH
    N <- 2, Cap <- 2, Job <- {"a", "b", "c"},
    jobQueue <- s1, workerPool <- s2, ctxDone <- s3, dpc <- s4, djob <- s5, dworker <- s6,
    wpc <- s7, wjob <- s8, wctxDone <- s9, spc <- s10, answer <- s11, executed <- s12

Urgency == INSTANCE PriorityPool WITH
    Job <- {"a", "b", "c", "d"}, Cap <- 2, Priority <- [a |-> 1, b |-> 2, c |-> 2, d |-> 3],
    jobs <- s1, jobQueue <- s2, pc <- s3, popped <- s4, answer <- s5, taken <- s6

Merger == INSTANCE RequestMerger WITH
    Request <- {"a", "b"}, KeyOf <- [a |-> "x", b |-> "y"],
    BatchSize <- 2, Nil <- "nil", MaxCloses <- 2,
    pc <- s1, requests <- s2, closed <- s3, closes <- s4, proc <- s5, batch <- s6, next <- s7,
    found <- s8, response <- s9, answered <- s10, panic <- s11

Batch == INSTANCE BatchProcessor WITH
    Item <- {"a", "b", "c", "d"}, BatchSize <- 2, Nil <- "nil", MaxNil <- 2,
    pc <- s1, items <- s2, closed <- s3, batch <- s4, handed <- s5, accepted <- s6,
    nils <- s7, panic <- s8

\* Few enough places for the queue to be full.
Full == INSTANCE BatchProcessor WITH
    Item <- {"a", "b", "c"}, BatchSize <- 1, Nil <- "nil", MaxNil <- 1,
    pc <- s1, items <- s2, closed <- s3, batch <- s4, handed <- s5, accepted <- s6,
    nils <- s7, panic <- s8

Adaptive == INSTANCE AdaptiveLimiter WITH
    Request <- {"a", "b"}, baseRate <- 1, minRate <- 1, maxRate <- 2, MaxGen <- 2,
    MaxRecords <- 1,
    currentRate <- s1, rateLimiter <- s2, capacity <- s3, marks <- s4, bucket <- s5,
    successCount <- s6, errorCount <- s7, mutex <- s8, adjust <- s9, stopper <- s10,
    pc <- s11, on <- s12

Permits == INSTANCE Permits WITH
    Client <- {"a", "b", "c"}, maxConcurrency <- 2, MaxTotal <- 4,
    kind <- s1, semaphore <- s2, Active <- s3, Total <- s4, Rejected <- s5, at <- s6

Rate == INSTANCE RateLimiters WITH
    capacity <- 2, refillRate <- 1, refillPeriod <- 2, limit <- 2, window <- 3, KeyTTL <- 5,
    Part <- 2, MaxTime <- 6, MaxCalls <- 4,
    limiter <- s1, now <- s2, calls <- s3, tokens <- s4, last <- s5, stamps <- s6,
    count <- s7, admitted <- s8

Recovery == INSTANCE Recovery WITH
    BaseDelays <- {5, 10}, increment <- 120, customDelays <- <<40, 140>>, RetryLimit <- {0, 2},
    Errors <- {"unreachable", "mixed", "other"}, RetryableLists <- {{}, {"mixed", "other"}},
    Text <- [e \in {"unreachable", "mixed", "other"} |->
                CASE e = "unreachable" -> {"network"}
                  [] e = "mixed"       -> {"network", "validation"}
                  [] e = "other"       -> {}],
    policy <- s1, ctx <- s2, at <- s3, attempt <- s4, calls <- s5, err <- s6, delay <- s7,
    strategies <- s8, todo <- s9

Guards == INSTANCE CacheGuards WITH
    Key <- {"k", "l"}, Caller <- {"a", "b"}, blockTime <- 1, threshold <- 1, window <- 1,
    timeout <- 1, failureThreshold <- 2, size <- 3, hashes <- 2,
    Hash <- [x \in {"k", "l"} \X {0, 1} |-> IF x[1] = "k" THEN 4 + x[2] ELSE 5 + 3 * x[2]],
    MaxTime <- 2, MaxFailures <- 3,
    now <- s1, blockedKeys <- s2, erasing <- s3, keyOf <- s4, missCount <- s5, lastCheck <- s6,
    breaker <- s7, bitset <- s8, added <- s9

Jobs == INSTANCE Scheduler WITH
    JobId <- {"i", "j"}, Caller <- {"a", "b"}, NoCaller <- "nobody", Strategy <- {"x", "y"},
    Priority <- [x |-> 1, y |-> 2],
    jobs <- s1, alive <- s2, todo <- s3, enabled <- s4, holder <- s5, at <- s6, victims <- s7

Scaled == INSTANCE AdaptivePool WITH
    minWorkers <- 1, maxWorkers <- 2, queueSize <- 1, Submitter <- {"a"}, MaxSpawned <- 3,
    MaxStarts <- 2,
    workers <- s1, currentWorkers <- s2, starts <- s3, balancer <- s4, lastIndex <- s5,
    chosen <- s6, crashed <- s7

-----------------------------------------------------------------------------
InitSlots ==
    \/ part = "discovery" /\ Unused(0)
    \/ part = "gateway" /\ Gateway!Init /\ Unused(3)
    \/ part = "pool" /\ Pool!Init /\ Unused(12)
    \/ part = "priority" /\ Urgency!Init /\ Unused(6)
    \/ part = "merger" /\ Merger!Init /\ Unused(11)
    \/ part = "batch" /\ Batch!Init /\ Unused(8)
    \/ part = "full" /\ Full!Init /\ Unused(8)
    \/ part = "adaptive" /\ Adaptive!Init /\ Unused(12)
    \/ part = "permits" /\ Permits!Init /\ Unused(6)
    \/ part = "rate" /\ Rate!Init /\ Unused(8)
    \/ part = "recovery" /\ Recovery!Init /\ Unused(9)
    \/ part = "guards" /\ Guards!Init /\ Unused(9)
    \/ part = "jobs" /\ Jobs!Init /\ Unused(7)
    \/ part = "scaled" /\ Scaled!Init /\ Unused(7)

InitPart == Init /\ InitSlots

\* A step of the part p that is not the extended breaker.
In(p, n) == part = p /\ Kept(n) /\ UNCHANGED <<part, vars>>

NextPart ==
    \/ part = "discovery" /\ Next /\ UNCHANGED <<part, slots>>
    \/ In("gateway", 3) /\ Gateway!Next
    \/ In("pool", 12) /\ Pool!Next
    \/ In("priority", 6) /\ Urgency!Next
    \/ In("merger", 11) /\ Merger!Next
    \/ In("batch", 8) /\ Batch!Next
    \/ In("full", 8) /\ Full!Next
    \/ In("adaptive", 12) /\ Adaptive!Next
    \/ In("permits", 6) /\ Permits!Next
    \/ In("rate", 8) /\ Rate!Next
    \/ In("recovery", 9) /\ Recovery!Next
    \/ In("guards", 9) /\ Guards!Next
    \/ In("jobs", 7) /\ Jobs!Next
    \/ In("scaled", 7) /\ Scaled!Next

\* What has to go on, as the modules say in Fairness: goroutines that can move do, tickers
\* fire, handlers and operations return.  Nobody has to submit, to close or to stop
\* anything.  A part has at most six such steps; those of different parts share a number,
\* since no behaviour has steps of two parts.
Who == <<"a", "b", "c">>

Goes(n) ==
    \/ n \in 1 .. 3 /\ In("gateway", 3) /\ Gateway!Admit(Who[n])
    \/ n \in 4 .. 6 /\ In("gateway", 3)
       /\ \E outcome \in Gateway!Outcomes : Gateway!AfterRequest(Who[n - 3], outcome)
    \/ n \in 1 .. 2 /\ In("pool", 12) /\ Pool!WorkerStep(n)
    \/ n = 3 /\ In("pool", 12) /\ Pool!Dispatch
    \/ n \in 1 .. 2 /\ In("merger", 11) /\ s11 = "none" /\ Merger!Receive(Who[n])
    \/ n = 4 /\ In("merger", 11) /\ s11 = "none" /\ Merger!Collect
    \/ n = 5 /\ In("merger", 11) /\ s11 = "none" /\ Merger!Tick
    \/ n = 6 /\ In("merger", 11) /\ s11 = "none" /\ (Merger!Merge \/ Merger!Respond)
    \/ n \in 1 .. 2 /\ In("adaptive", 12) /\ Adaptive!Tick(n)
    \/ n = 3 /\ In("adaptive", 12) /\ Adaptive!StopOld
    \/ n = 4 /\ In("adaptive", 12) /\ Adaptive!Replace
    \/ n = 1 /\ In("recovery", 9) /\ Recovery!LoopStep
    \/ n \in 1 .. 2 /\ In("jobs", 7) /\ Jobs!Warmup(<<"i", "j">>[n])
    \/ n \in 3 .. 4 /\ In("jobs", 7) /\ (Jobs!Start(Who[n - 2]) \/ Jobs!Stopped(Who[n - 2]))

Offered(n) ==
    \/ In("adaptive", 12) /\ Adaptive!Acquire(Who[n])
    \/ n = 1 /\ In("jobs", 7)
       /\ \E c \in {"a", "b"}, i \in {"i", "j"} : Jobs!Handshake(c, i)

SpecPart ==
    /\ InitPart /\ [][NextPart]_allVars
    /\ \A n \in 1 .. 6 : WF_allVars(Goes(n))
    /\ \A n \in 1 .. 2 : SF_allVars(Offered(n))

-----------------------------------------------------------------------------
\* In the pools a job is in one place from Submit to Execute, the dispatcher hands jobs to
\* live workers only and Stop is complete; the priority pool answers each push with one pop
\* and reports what it drops; a merged request is in one place until its caller has the
\* answer; the batch processor is handed the accepted items in order; the counter of the
\* adaptive pool counts its workers, and only ScaleDown can make a Submit panic.
PoolSafety ==
    /\ part = "pool" => /\ Pool!TypeOK /\ Pool!OnePlace
                        /\ Pool!HandedToALiveWorker /\ Pool!StopIsComplete
    /\ part = "priority" =>
          Urgency!TypeOK /\ Urgency!PopsMatchPushes /\ Urgency!DropsAreReported
    /\ part = "merger" => Merger!OnePlace
    /\ part = "batch" => Batch!HandedInOrder
    /\ part = "full" => Full!HandedInOrder
    /\ part = "scaled" => Scaled!TypeOK /\ Scaled!ActiveCounted /\ Scaled!CrashNeedsScaleDown

\* Each limiter keeps the bound its code really has, across replacements, windows, refills
\* and releases without an acquire.
LimiterSafety ==
    /\ part = "adaptive" => Adaptive!TypeOK /\ Adaptive!OneBucket
    /\ part = "permits" => /\ Permits!TypeOK /\ Permits!StatisticsLag
                           /\ Permits!AtMostMaxRun /\ Permits!LetThroughWithinTokens
    /\ part = "rate" => /\ Rate!TypeOK /\ Rate!FixedBound
                        /\ Rate!SlidingBound /\ Rate!BucketBound

\* The gateway's breaker accounts for its probes, and one in flight decides whenever it
\* refuses; the
\* cache's breaker is out of "closed" exactly while the failures in a row reach the
\* threshold, and its filter denies no added key; a retry policy calls and waits within its
\* bounds; who stops a job of the scheduler has a receiver.
GuardSafety ==
    /\ part = "gateway" =>
          Gateway!TypeOK /\ Gateway!ProbesAccounted /\ Gateway!RefusalHasProbe
    /\ part = "guards" => Guards!TypeOK /\ Guards!BreakerCounts /\ Guards!NoFalseNegative
    /\ part = "recovery" =>
          Recovery!TypeOK /\ Recovery!AttemptsBounded /\ Recovery!DelayBounded
    /\ part = "jobs" => Jobs!TypeOK /\ Jobs!StopHasReceiver /\ Jobs!OneGoroutine

\* The gateway's breaker closes with the last of its probes only, and behind the middleware
\* only a panic trips it; the priority pool pops one of the most urgent jobs and keeps equals
\* in order; a Wait on a limiter that was replaced with its channel full waits for ever, and
\* an adjustment after Stop never ends.
ResilienceSteps ==
    [][/\ part = "gateway" => Gateway!ClosesWhenAllSucceeded /\ Gateway!ErrorStatusNeverTrips
       /\ part = "priority" => Urgency!FrontIsMostUrgent /\ Urgency!SortIsStable
       /\ part = "adaptive" => Adaptive!StuckIsForever /\ Adaptive!StoppedAdjustHangs]_allVars

\* What the parts owe to x (Gateway!HalfOpenIsDecided, Pool!AcceptedIsExecuted,
\* Merger!SentIsAnswered, Adaptive!WaitIsServed, Recovery!ExecutionEnds, Jobs!CallsReturn).
Owed(x) ==
    \/ part = "gateway" /\ Gateway!Undecided
    \/ part = "pool" /\ Pool!Accepted(x)
    \/ part = "merger" /\ x # "c" /\ Merger!Sent(x)
    \/ part = "adaptive" /\ x # "c" /\ Adaptive!Waiting(x)
    \/ part = "recovery" /\ Recovery!Begun
    \/ part = "jobs" /\ Jobs!Holding(x)

Paid(x) ==
    \/ part = "gateway" /\ ~Gateway!Undecided
    \/ part = "pool" /\ Pool!Served(x)
    \/ part = "merger" /\ x # "c" /\ Merger!Answered(x)
    \/ part = "adaptive" /\ x # "c" /\ Adaptive!Served(x)
    \/ part = "recovery" /\ Recovery!Ended
    \/ part = "jobs" /\ ~Jobs!Holding(x)

\* An accepted job is executed, a request that was sent is answered, a Wait is served, a
\* half-open breaker is decided, a retry ends and the scheduler's lock is given back, unless
\* somebody stops or closes the part.
ResilienceLiveness == \A x \in {"a", "b", "c"} : Owed(x) ~> Paid(x)
=============================================================================
