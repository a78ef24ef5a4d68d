------------------------------ MODULE Recovery ------------------------------
(***************************************************************************)
(* Retry policies, the error classifier and the recovery manager           *)
(* (app/common/errors/retry_policy.go, error_recovery.go), for one         *)
(* execution of an operation.  The text of an error holds a set of         *)
(* patterns; the classifier walks its rules in the order of a Go map, so   *)
(* that an error with several patterns has, at each classification, any of *)
(* their types.  The strategies of the manager have the policy's retries,  *)
(* base delay and jitter.                                                  *)
(***************************************************************************)
EXTENDS Integers, FiniteSets, Sequences

CONSTANTS
    BaseDelays, increment,  \* the BaseDelay that are tried, the Increment of LinearBackoff
    customDelays,           \* the Delays of CustomBackoff, a sequence
    RetryLimit,             \* the MaxRetries that are tried
    Errors, Text,           \* the errors the operation returns, the patterns in each
    RetryableLists          \* the RetryableErrors that are tried: sets of errors

VARIABLES
    policy,        \* [maxRetries, baseDelay, backoff, jitter, retryable]
    ctx,           \* whether the context was cancelled
    at, attempt,   \* the loop's point and counter
    calls, err,    \* operations executed, the last error
    delay,         \* the delay before the next attempt
    strategies,    \* the strategies registered with the recovery manager
    todo           \* those Recover has still to try, -1 outside

vars == <<policy, ctx, at, attempt, calls, err, delay, strategies, todo>>

retryTypes ==
    {"network", "timeout", "rateLimit", "circuitBreaker", "database", "cache", "external"}
breakerTypes == {"external", "network", "timeout"}

maxDelay == 10 * policy.baseDelay

Init ==
    /\ policy \in [maxRetries : RetryLimit, baseDelay : BaseDelays, jitter : BOOLEAN,
                   backoff : {"newPolicy", "exponential", "linear", "fixed", "custom"},
                   retryable : RetryableLists]
    /\ ctx = FALSE /\ at = "idle" /\ attempt = 0 /\ calls = 0 /\ err = "nil" /\ delay = 0
    /\ strategies = {} /\ todo = -1

-----------------------------------------------------------------------------
\* ClassifyError.
Classes(e) == IF Text[e] = {} THEN {"unknown"} ELSE Text[e]

\* IsRetryable, given the type of this classification: by the type, or by the list.
IsRetryable(e, type) == type \in retryTypes \/ e \in policy.retryable

\* CalculateDelay.  NewRetryPolicy leaves the Factor of its ExponentialBackoff zero.
CalculateDelay(a) ==
    CASE policy.backoff = "newPolicy"   -> IF a = 0 THEN policy.baseDelay ELSE 0
      [] policy.backoff = "exponential" -> policy.baseDelay * 2 ^ a
      [] policy.backoff = "linear"      -> policy.baseDelay + a * increment
      [] policy.backoff = "fixed"       -> policy.baseDelay
      [] policy.backoff = "custom"      -> IF a < Len(customDelays) THEN customDelays[a + 1]
                                           ELSE policy.baseDelay

Limited(a) == IF CalculateDelay(a) > maxDelay THEN maxDelay ELSE CalculateDelay(a)

\* The delays with the jitter: rand.Int63n of the tenth of it.
Delays(a) ==
    IF policy.jitter THEN {Limited(a) + x : x \in 0 .. (Limited(a) \div 10) - 1}
    ELSE {Limited(a)}

-----------------------------------------------------------------------------
Execute ==
    /\ at = "idle" /\ at' = "check" /\ attempt' = 0 /\ calls' = 0
    /\ UNCHANGED <<policy, ctx, err, delay, strategies, todo>>

\* The context is looked at before every attempt.
CheckContext ==
    /\ at = "check" /\ at' = IF ctx THEN "cancelled" ELSE "call"
    /\ UNCHANGED <<policy, ctx, attempt, calls, err, delay, strategies, todo>>

More == attempt < policy.maxRetries

Operation ==
    /\ at = "call" /\ calls' = calls + 1
    /\ \/ at' = "ok" /\ UNCHANGED err
       \/ \E e \in Errors : \E type \in Classes(e) :
             /\ err' = e
             /\ at' = IF ~ IsRetryable(e, type) THEN "notRetryable"
                      ELSE IF More THEN "delay" ELSE "exhausted"
    /\ UNCHANGED <<policy, ctx, attempt, delay, strategies, todo>>

\* calculateDelay: a jitter of less than one is a panic of rand.Int63n.
calculateDelay ==
    /\ at = "delay"
    /\ IF Delays(attempt) = {} THEN at' = "panic" /\ UNCHANGED delay
       ELSE at' = "wait" /\ delay' \in Delays(attempt)
    /\ UNCHANGED <<policy, ctx, attempt, calls, err, strategies, todo>>

Wait ==
    /\ at = "wait"
    /\ \/ at' = "check" /\ attempt' = attempt + 1
       \/ ctx /\ at' = "cancelled" /\ UNCHANGED attempt
    /\ UNCHANGED <<policy, ctx, calls, err, delay, strategies, todo>>

Cancel ==
    /\ at # "idle" /\ ~ ctx /\ ctx' = TRUE
    /\ UNCHANGED <<policy, at, attempt, calls, err, delay, strategies, todo>>

-----------------------------------------------------------------------------
RegisterStrategy(s) ==
    /\ at = "idle" /\ s \notin strategies /\ strategies' = strategies \cup {s}
    /\ UNCHANGED <<policy, ctx, at, attempt, calls, err, delay, todo>>

\* CanRecover classifies the error again, each time.
RetryStrategy(e) == retryTypes \cap Classes(e) # {}
BreakerStrategy(e) == breakerTypes \cap Classes(e) # {}
NotClassified(e, types) == Classes(e) \ types # {}

\* ErrorRecovery.Recover on the error of the execution, the priorities 1, 2, 3 in turn.
Recover ==
    /\ at \in {"notRetryable", "exhausted"} /\ todo = -1 /\ todo' = 1
    /\ UNCHANGED <<policy, ctx, at, attempt, calls, err, delay, strategies>>

\* RetryStrategy.calculateDelay: UnixNano() % 0 when the tenth of the delay is zero.
NoJitter == policy.jitter /\ policy.baseDelay \div 10 = 0

\* The strategy of priority todo recovers, or is passed over.  The retry waits once and says
\* yes, without calling the operation, unless it has no retries or is cancelled; the
\* breaker says yes; the fallback is the caller's function.
TryStrategy ==
    /\ todo \in 1 .. 3
    /\ \/ /\ \/ /\ todo = 1 /\ "retry" \in strategies /\ RetryStrategy(err)
                /\ policy.maxRetries > 0 /\ at' = IF NoJitter THEN "panic" ELSE "recovered"
             \/ /\ \/ todo = 2 /\ "circuit_breaker" \in strategies /\ BreakerStrategy(err)
                   \/ todo = 3 /\ "fallback" \in strategies
                /\ at' = "recovered"
          /\ UNCHANGED todo
       \/ /\ \/ todo = 1 /\ ("retry" \in strategies =>
                                \/ NotClassified(err, retryTypes) \/ policy.maxRetries = 0
                                \/ ctx /\ ~ NoJitter)
             \/ todo = 2 /\ ("circuit_breaker" \in strategies => NotClassified(err, breakerTypes))
             \/ todo = 3
          /\ todo' = todo + 1 /\ UNCHANGED at
    /\ UNCHANGED <<policy, ctx, attempt, calls, err, delay, strategies>>

Next ==
    \/ Execute \/ CheckContext \/ Operation \/ calculateDelay \/ Wait \/ Cancel
    \/ Recover \/ (at \in {"notRetryable", "exhausted"} /\ TryStrategy)
    \/ \E s \in {"retry", "circuit_breaker", "fallback"} : RegisterStrategy(s)

\* The loop goes on by itself.
LoopStep == CheckContext \/ Operation \/ calculateDelay \/ Wait

Fairness == WF_vars(LoopStep)

Spec == Init /\ [][Next]_vars /\ Fairness

-----------------------------------------------------------------------------
Finals == {"ok", "notRetryable", "exhausted", "cancelled", "panic", "recovered"}

\* The type invariant of the execution.
TypeOK ==
    /\ at \in {"idle", "check", "call", "delay", "wait"} \cup Finals
    /\ ctx \in BOOLEAN /\ attempt \in Nat /\ calls \in Nat /\ delay \in Nat
    /\ todo \in -1 .. 4

\* The operation is called at most MaxRetries + 1 times, exactly so many times when the
\* retries are said to be exhausted.  The loop goes on after an error only if a rule of the
\* classifier retries it or the caller listed it, and gives up before that only on an error
\* that is not listed and that some classification does not retry.
AttemptsBounded ==
    /\ calls <= policy.maxRetries + 1
    /\ at = "exhausted" => calls = policy.maxRetries + 1
    /\ at \in {"delay", "wait", "exhausted"} =>
          Text[err] \cap retryTypes # {} \/ err \in policy.retryable
    /\ at = "notRetryable" =>
          err \notin policy.retryable /\ (Text[err] \ retryTypes # {} \/ Text[err] = {})

\* No wait is longer than MaxDelay and its tenth, for every strategy and attempt.
DelayBounded == delay <= maxDelay + (maxDelay \div 10)

\* A policy that has begun comes to an end, without or with a cancelled context.
Begun == at = "check"
Ended == at \in Finals
ExecutionEnds == Begun ~> Ended

\* Execute returns an error or nothing: it does not panic.
NeverPanics == at # "panic"

\* "恢复成功": an error that is recovered has had its operation called again.
RecoveredIsDone == at = "recovered" => calls > policy.maxRetries + 1
=============================================================================
