--------------------------- MODULE GatewayBreaker ---------------------------
(***************************************************************************)
(* The gateway's circuit breaker and the middleware around it              *)
(* (app/gateway/middlewares/circuit_breaker.go).  It differs from the one  *)
(* of the discovery package in what ends a state: toNewGeneration sets no  *)
(* expiry, a half-open breaker opens on its first failure and closes when  *)
(* all its probes succeeded.  The clock is left out: expiry is always the  *)
(* zero time, so a closed generation never ends by itself and an open      *)
(* breaker is past its expiry at any instant.  The generation number is    *)
(* only ever compared with the current one, so it is kept as 1 or 2, and   *)
(* a request of an earlier generation is marked stale when the number      *)
(* changes.                                                                *)
(***************************************************************************)
EXTENDS Integers, FiniteSets

CONSTANTS
    Callers,       \* requests being handled
    Middleware,    \* those that come through CircuitBreakerMiddleware; the others call Execute
    MaxRequests,   \* Settings.MaxRequests after the default
    TripAfter,     \* readyToTrip is ConsecutiveFailures >= TripAfter; 5 by default
    MaxAdmitted    \* bound: requests one generation admits

VARIABLES
    cb,        \* the breaker, everything cb.mutex guards
    running,   \* the generation a caller's request was admitted under; Idle: none in flight
    answer     \* how the caller's last request ended

vars == <<cb, running, answer>>

Idle == 0
Stale == 3

Outcomes == {"ok", "error", "panic"}

Counts == [Requests : Nat, TotalSuccesses : Nat, TotalFailures : Nat,
           ConsecutiveSuccesses : Nat, ConsecutiveFailures : Nat]

NoCounts == [Requests |-> 0, TotalSuccesses |-> 0, TotalFailures |-> 0,
             ConsecutiveSuccesses |-> 0, ConsecutiveFailures |-> 0]

CountRequest(n) == [n EXCEPT !.Requests = @ + 1]

CountSuccess(n) ==
    [Requests |-> n.Requests,
     TotalSuccesses |-> n.TotalSuccesses + 1, TotalFailures |-> n.TotalFailures,
     ConsecutiveSuccesses |-> n.ConsecutiveSuccesses + 1, ConsecutiveFailures |-> 0]

CountFailure(n) ==
    [Requests |-> n.Requests,
     TotalSuccesses |-> n.TotalSuccesses, TotalFailures |-> n.TotalFailures + 1,
     ConsecutiveSuccesses |-> 0, ConsecutiveFailures |-> n.ConsecutiveFailures + 1]

ReadyToTrip(n) == n.ConsecutiveFailures >= TripAfter

-----------------------------------------------------------------------------
(* The state machine. *)

ToNewGeneration(b) == [b EXCEPT !.generation = 3 - @, !.counts = NoCounts]

SetState(b, s) == IF b.state = s THEN b ELSE ToNewGeneration([b EXCEPT !.state = s])

CurrentState(b) == IF b.state = "open" THEN SetState(b, "half-open") ELSE b

\* Mutant: the first probe that succeeds closes the breaker.
OnSuccessEarly(b) ==
    LET counted == [b EXCEPT !.counts = CountSuccess(@)]
    IN  IF b.state = "half-open" THEN SetState(counted, "closed") ELSE counted

\* Mutant: a success more than there are probes is waited for.
OnSuccessLate(b) ==
    LET counted == [b EXCEPT !.counts = CountSuccess(@)]
    IN  IF b.state = "half-open" /\ counted.counts.ConsecutiveSuccesses > MaxRequests
        THEN SetState(counted, "closed") ELSE counted

OnSuccess(b) ==
    LET counted == [b EXCEPT !.counts = CountSuccess(@)]
    IN  CASE b.state = "closed"    -> counted
          [] b.state = "half-open" -> IF counted.counts.ConsecutiveSuccesses >= MaxRequests
                                      THEN SetState(counted, "closed") ELSE counted
          [] OTHER                 -> b

OnFailure(b) ==
    LET counted == [b EXCEPT !.counts = CountFailure(@)]
    IN  CASE b.state = "closed"    -> IF ReadyToTrip(counted.counts)
                                      THEN SetState(counted, "open") ELSE counted
          [] b.state = "half-open" -> SetState(b, "open")
          [] OTHER                 -> b

\* Mutant: one probe too many.
RefusesLate(b) ==
    \/ b.state = "open"
    \/ b.state = "half-open" /\ b.counts.Requests > MaxRequests

Refuses(b) ==
    \/ b.state = "open"
    \/ b.state = "half-open" /\ b.counts.Requests >= MaxRequests

\* What afterRequest does to the breaker: nothing under another generation
Settle(b, before, success) ==
    IF b.generation # before THEN b
    ELSE IF success THEN OnSuccess(b) ELSE OnFailure(b)

\* Execute's err == nil.  The middleware's function returns nil whatever status the
\* handlers have written; a panic goes through the deferred afterRequest.
Succeeds(c, outcome) ==
    outcome = "ok" \/ (outcome = "error" /\ c \in Middleware)

-----------------------------------------------------------------------------

\* NewCircuitBreaker
Init ==
    /\ cb = ToNewGeneration([state |-> "closed", generation |-> 2, counts |-> NoCounts])
    /\ running = [c \in Callers |-> Idle]
    /\ answer = [c \in Callers |-> "none"]

\* The caller's request is now under generation g; a change of the breaker's
\* generation leaves the requests in flight behind.
Mark(c, g) ==
    running' = [x \in Callers |->
                   IF x = c THEN g
                   ELSE IF running[x] # Idle /\ cb'.generation # cb.generation THEN Stale
                   ELSE running[x]]

\* beforeRequest lets the request through
Admit(c) ==
    LET cur == CurrentState(cb) IN
    /\ running[c] = Idle
    /\ ~Refuses(cur)
    /\ cur.counts.Requests < MaxAdmitted
    /\ cb' = [cur EXCEPT !.counts = CountRequest(@)]
    /\ Mark(c, cur.generation)
    /\ UNCHANGED answer

\* beforeRequest returns an error, which the middleware answers with 503
Refuse(c) ==
    LET cur == CurrentState(cb) IN
    /\ running[c] = Idle
    /\ Refuses(cur)
    /\ cb' = cur
    /\ answer' = [answer EXCEPT ![c] = IF cur.state = "open" THEN "refusedOpen"
                                       ELSE "refusedHalfOpen"]
    /\ Mark(c, Idle)

AfterRequest(c, outcome) ==
    /\ running[c] # Idle
    /\ cb' = Settle(CurrentState(cb), running[c], Succeeds(c, outcome))
    /\ Mark(c, Idle)
    /\ answer' = [answer EXCEPT ![c] = outcome]

Next ==
    \E c \in Callers :
        \/ Admit(c)
        \/ Refuse(c)
        \/ \E outcome \in Outcomes : AfterRequest(c, outcome)

Spec == Init /\ [][Next]_vars

\* Handlers return, and requests keep arriving.
Fairness ==
    \A c \in Callers :
        /\ WF_vars(Admit(c))
        /\ WF_vars(\E outcome \in Outcomes : AfterRequest(c, outcome))

FairSpec == Spec /\ Fairness

-----------------------------------------------------------------------------

\* The requests in flight that belong to the current generation
InFlight == {c \in Callers : running[c] = cb.generation}

\* The type invariant of the breaker.
TypeOK ==
    /\ cb \in [state : {"closed", "open", "half-open"}, generation : {1, 2}, counts : Counts]
    /\ running \in [Callers -> {Idle, 1, 2, Stale}]
    /\ answer \in [Callers -> Outcomes \cup {"none", "refusedOpen", "refusedHalfOpen"}]

\* What a generation admitted is what succeeded, failed or is in flight, and a
\* half-open one has admitted at most MaxRequests: requests of earlier generations
\* that are still running take no part (beforeRequest, afterRequest).
ProbesAccounted ==
    /\ cb.counts.Requests =
          cb.counts.TotalSuccesses + cb.counts.TotalFailures + Cardinality(InFlight)
    /\ cb.state = "half-open" => cb.counts.Requests <= MaxRequests

\* Of a step: a half-open breaker closes with the last of its probes, when all the others have
\* succeeded before: never with a probe still out, never on the answer of an older request.
ClosesWhenAllSucceeded ==
    cb.state = "half-open" /\ cb'.state = "closed"
    => /\ cb.counts.TotalSuccesses = MaxRequests - 1
       /\ \E c \in Callers : InFlight = {c} /\ running'[c] = Idle

\* A half-open breaker that refuses has a probe in flight whose answer decides it: requests
\* of earlier generations neither use up its places nor answer for its probes, so that a
\* refusal is never the last word (beforeRequest, afterRequest, onFailure).
RefusalHasProbe == cb.state = "half-open" /\ Refuses(cb) => InFlight # {}

\* Of a step: behind the middleware only a panic trips the breaker: error statuses, however
\* many in a row, are successes to it (the function CircuitBreakerMiddleware passes to Execute).
ErrorStatusNeverTrips ==
    cb.state # "open" /\ cb'.state = "open"
    => \E c \in Callers : /\ running[c] # Idle /\ running'[c] = Idle
                          /\ answer'[c] = "panic" \/ c \notin Middleware

\* A half-open breaker is decided, whatever MaxRequests is: a failure opens it, and
\* otherwise its probes all succeed.
Undecided == cb.state = "half-open"
HalfOpenIsDecided == Undecided ~> ~Undecided

=============================================================================
