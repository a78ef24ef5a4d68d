--------------------------- MODULE CircuitBreaker ---------------------------
(***************************************************************************)
(* The circuit breaker of app/common/discovery/circuit_breaker.go: one     *)
(* breaker shared by concurrent callers.                                   *)
(*                                                                         *)
(* A call is two critical sections with the protected request between      *)
(* them: beforeRequest admits or refuses it and hands the caller the       *)
(* generation it belongs to, afterRequest reports its outcome under that   *)
(* generation.  Any number of state changes may happen in between, which   *)
(* is what the generation is for.  Time is a clock that ticks on its own;  *)
(* the zero time.Time is 0, before every instant the clock shows.          *)
(***************************************************************************)
EXTENDS Integers, FiniteSets

CONSTANTS
    Callers,       \* goroutines that call Execute
    MaxRequests,   \* Settings.MaxRequests after the default: probes of a half-open breaker
    Interval,      \* Settings.Interval: 0, or how long the counts of a closed breaker live
    Timeout,       \* Settings.Timeout: how long the breaker stays open
    TripAfter,     \* readyToTrip is ConsecutiveFailures > TripAfter; 5 by default
    MaxTime,       \* bound: the last instant of the clock
    MaxAdmitted    \* bound: requests one generation of a closed breaker admits

ASSUME CallersAssumption == IsFiniteSet(Callers)
ASSUME SettingsAssumption ==
    /\ MaxRequests \in Nat \ {0}
    /\ Interval \in Nat
    /\ Timeout \in Nat \ {0}
    /\ TripAfter \in Nat
ASSUME BoundsAssumption == MaxTime \in Nat \ {0} /\ MaxAdmitted \in Nat

VARIABLES
    now,       \* the clock
    cb,        \* the breaker, everything cb.mu guards
    running,   \* the generation a caller's request was admitted under; Idle: none in flight
    openedAt   \* history: when the breaker last became open

vars == <<now, cb, running, openedAt>>

Zero == 0
Idle == 0

States == {"closed", "open", "half-open"}

Counts == [Requests : Nat, TotalSuccesses : Nat, TotalFailures : Nat,
           ConsecutiveSuccesses : Nat, ConsecutiveFailures : Nat]

Breaker == [state : States, generation : Nat \ {0}, counts : Counts, expiry : Nat]

NoCounts == [Requests |-> 0, TotalSuccesses |-> 0, TotalFailures |-> 0,
             ConsecutiveSuccesses |-> 0, ConsecutiveFailures |-> 0]

-----------------------------------------------------------------------------
(* The counters. *)

CountRequest(n) == [n EXCEPT !.Requests = @ + 1]

CountSuccess(n) ==
    [Requests |-> n.Requests,
     TotalSuccesses |-> n.TotalSuccesses + 1, TotalFailures |-> n.TotalFailures,
     ConsecutiveSuccesses |-> n.ConsecutiveSuccesses + 1, ConsecutiveFailures |-> 0]

CountFailure(n) ==
    [Requests |-> n.Requests,
     TotalSuccesses |-> n.TotalSuccesses, TotalFailures |-> n.TotalFailures + 1,
     ConsecutiveSuccesses |-> 0, ConsecutiveFailures |-> n.ConsecutiveFailures + 1]

ReadyToTrip(n) == n.ConsecutiveFailures > TripAfter

-----------------------------------------------------------------------------
(* The state machine, as functions of the breaker b and the instant t. *)

\* Mutant: no generation ever gets an expiry.
ExpiryDropped(s, t) == Zero

\* When the generation that starts at t in state s ends by itself; Zero: never
Expiry(s, t) ==
    CASE s = "closed"    -> IF Interval = 0 THEN Zero ELSE t + Interval
      [] s = "open"      -> t + Timeout
      [] s = "half-open" -> Zero

ToNewGeneration(b, t) ==
    [state |-> b.state, generation |-> b.generation + 1,
     counts |-> NoCounts, expiry |-> Expiry(b.state, t)]

SetState(b, s, t) ==
    IF b.state = s THEN b ELSE ToNewGeneration([b EXCEPT !.state = s], t)

\* Mutant: a half-open breaker that has used up its probes closes.
CurrentStateCloses(b, t) ==
    IF b.state = "half-open" /\ b.counts.Requests >= MaxRequests THEN SetState(b, "closed", t)
    ELSE IF b.state = "open" /\ b.expiry < t THEN SetState(b, "half-open", t)
    ELSE b

\* Mutant: the probes of a half-open breaker are counted anew when they all failed.
CurrentStateRestarts(b, t) ==
    IF b.state = "half-open" /\ b.counts.TotalFailures >= MaxRequests THEN ToNewGeneration(b, t)
    ELSE IF b.state = "open" /\ b.expiry < t THEN SetState(b, "half-open", t)
    ELSE b

CurrentState(b, t) ==
    IF b.state = "closed" /\ b.expiry # Zero /\ b.expiry < t
    THEN ToNewGeneration(b, t)
    ELSE IF b.state = "open" /\ b.expiry < t
    THEN SetState(b, "half-open", t)
    ELSE b

OnSuccess(b, t) ==
    LET counted == [b EXCEPT !.counts = CountSuccess(@)]
    IN  IF b.state = "half-open" THEN SetState(counted, "closed", t) ELSE counted

OnFailure(b, t) ==
    LET counted == [b EXCEPT !.counts = CountFailure(@)]
    IN  IF ReadyToTrip(counted.counts) THEN SetState(counted, "open", t) ELSE counted

\* ErrOpenState and ErrTooManyRequests
Refuses(b) ==
    \/ b.state = "open"
    \/ b.state = "half-open" /\ b.counts.Requests >= MaxRequests

\* Mutant: the generation is not compared.
SettleLate(b, before, success, t) == IF success THEN OnSuccess(b, t) ELSE OnFailure(b, t)

\* What afterRequest does to the breaker: nothing under another generation
Settle(b, before, success, t) ==
    IF b.generation # before THEN b
    ELSE IF success THEN OnSuccess(b, t) ELSE OnFailure(b, t)

-----------------------------------------------------------------------------

\* NewCircuitBreaker at instant 1
Init ==
    /\ now = 1
    /\ cb = ToNewGeneration([state |-> "closed", generation |-> 0,
                             counts |-> NoCounts, expiry |-> Zero], 1)
    /\ running = [c \in Callers |-> Idle]
    /\ openedAt = Zero

Remember == openedAt' = IF cb.state # "open" /\ cb'.state = "open" THEN now ELSE openedAt

\* beforeRequest lets the call through
Admit(c) ==
    LET cur == CurrentState(cb, now) IN
    /\ running[c] = Idle
    /\ ~Refuses(cur)
    /\ cur.counts.Requests < MaxAdmitted
    /\ cb' = [cur EXCEPT !.counts = CountRequest(@)]
    /\ running' = [running EXCEPT ![c] = cur.generation]
    /\ Remember
    /\ UNCHANGED now

\* beforeRequest returns an error: only the passage of time has shown
Refuse(c) ==
    LET cur == CurrentState(cb, now) IN
    /\ running[c] = Idle
    /\ Refuses(cur)
    /\ cb' = cur
    /\ Remember
    /\ UNCHANGED <<now, running>>

\* The request returned, or panicked (success = FALSE): afterRequest
AfterRequest(c, success) ==
    /\ running[c] # Idle
    /\ cb' = Settle(CurrentState(cb, now), running[c], success, now)
    /\ running' = [running EXCEPT ![c] = Idle]
    /\ Remember
    /\ UNCHANGED now

\* State() and Counts(): a reader rolls the breaker forward too
Read ==
    /\ CurrentState(cb, now) # cb
    /\ cb' = CurrentState(cb, now)
    /\ Remember
    /\ UNCHANGED <<now, running>>

Tick ==
    /\ now < MaxTime
    /\ now' = now + 1
    /\ UNCHANGED <<cb, running, openedAt>>

Next ==
    \/ \E c \in Callers :
          \/ Admit(c)
          \/ Refuse(c)
          \/ \E success \in BOOLEAN : AfterRequest(c, success)
    \/ Read
    \/ Tick

Spec == Init /\ [][Next]_vars

\* Protected requests return, and somebody keeps calling.
Fairness ==
    \A c \in Callers :
        /\ WF_vars(Admit(c))
        /\ WF_vars(\E success \in BOOLEAN : AfterRequest(c, success))

FairSpec == Spec /\ Fairness

-----------------------------------------------------------------------------

\* The requests in flight that belong to the current generation
InFlight == {c \in Callers : running[c] = cb.generation}

\* The type invariant of the breaker and its callers.
TypeOK ==
    /\ now \in Nat \ {0}
    /\ cb \in Breaker
    /\ running \in [Callers -> Nat]
    /\ openedAt \in Nat

\* The counters of a generation are the counters of its own requests: what was
\* admitted is what succeeded, what failed and what is still in flight, whatever
\* requests of earlier generations are doing (Counts, beforeRequest, afterRequest).
CountsAddUp ==
    cb.counts.Requests =
        cb.counts.TotalSuccesses + cb.counts.TotalFailures + Cardinality(InFlight)

\* A half-open breaker lets at most MaxRequests probes through at a time, also
\* when requests admitted before it opened are still running beside them.
ProbesBounded ==
    cb.state = "half-open" => Cardinality(InFlight) <= MaxRequests

\* A half-open breaker closes only on the success of one of its own probes: the
\* late answer of a request admitted before the breaker opened closes nothing.
OnlyProbesClose ==
    [][cb.state = "half-open" /\ cb'.state = "closed"
       => \E c \in InFlight : running'[c] = Idle]_vars

\* An open breaker stays open for more than Timeout.
OpenForTimeout ==
    [][cb.state = "open" /\ cb'.state # "open"
       => cb'.state = "half-open" /\ now > openedAt + Timeout]_vars

\* All the probes failed and there were too few of them to trip the breaker.
Wedged ==
    /\ cb.state = "half-open"
    /\ cb.counts.Requests >= MaxRequests
    /\ InFlight = {}

\* A half-open breaker has no expiry, and onFailure opens it only through
\* readyToTrip.  Once as many probes failed as it admits, and they were too few
\* for readyToTrip, it refuses every call for the rest of its life.
WedgedIsForever == [][Wedged => Wedged']_vars

\* With more probes than readyToTrip needs failures, a half-open breaker is
\* decided: it closes or opens again.
HalfOpenIsDecided == cb.state = "half-open" ~> cb.state # "half-open"

=============================================================================
