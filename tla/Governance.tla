----------------------------- MODULE Governance -----------------------------
(***************************************************************************)
(* common/governance/service_governance.go: services registered by name,   *)
(* balancers that hold pointers to them, and calls that a retry policy     *)
(* repeats and a circuit breaker guards.  The breaker runs the call inside *)
(* its own lock.  Clients run RetryWithPolicy with CallService as its fn.  *)
(***************************************************************************)
EXTENDS Integers, Sequences, FiniteSets, SequencesExt

CONSTANTS Client,       \* threads that call the service
          Breaker,      \* breaker objects AddCircuitBreaker may store
          NoBreaker,    \* the service has no breaker
          Threshold, Timeout,                       \* of a breaker
          MaxRetries, BaseDelay, MaxDelay, Multiplier,  \* of the policy
          MaxObjects,   \* bound: Service objects registered
          MaxTime       \* bound on the clock

VARIABLES service,  \* the object registered under the name, 0 if none
          made,     \* objects made so far
          lb,       \* the objects a balancer holds
          breaker,  \* the breaker stored under the name, or NoBreaker
          cb,       \* [Breaker -> [state, count, last, by]]: by holds its lock
          call,     \* [Client -> [pc, i, cb, wake, cancelled]]
          now

vars == <<service, made, lb, breaker, cb, call, now>>

NoClient == "none"

(* The type of every variable. *)
TypeOK ==
    /\ service \in 0 .. MaxObjects /\ made \in 0 .. MaxObjects
    /\ lb \in Seq(1 .. MaxObjects)
    /\ breaker \in Breaker \cup {NoBreaker}
    /\ \A b \in Breaker : /\ cb[b].state \in {"Closed", "Open", "HalfOpen"}
                          /\ cb[b].count \in Nat /\ cb[b].last \in 0 .. MaxTime
                          /\ cb[b].by \in Client \cup {NoClient}
    /\ \A c \in Client : /\ call[c].pc \in {"idle", "check", "get", "lock", "run", "sleep",
                                            "done", "error", "panic"}
                         /\ call[c].i \in 0 .. MaxRetries /\ call[c].wake \in Nat
                         /\ call[c].cb \in Breaker \cup {NoBreaker} /\ call[c].cancelled \in BOOLEAN
    /\ now \in 0 .. MaxTime

Fresh == [state |-> "Closed", count |-> 0, last |-> 0, by |-> NoClient]

Init ==
    /\ service = 0 /\ made = 0 /\ lb = <<>> /\ breaker = NoBreaker
    /\ cb = [b \in Breaker |-> Fresh]
    /\ call = [c \in Client |->
                [pc |-> "idle", i |-> 0, cb |-> NoBreaker, wake |-> 0, cancelled |-> FALSE]]
    /\ now = 0

(***************************************************************************)
(* Services and balancers                                                  *)
(***************************************************************************)
RegisterService ==
    /\ made < MaxObjects
    /\ made' = made + 1 /\ service' = made + 1
    /\ UNCHANGED <<lb, breaker, cb, call, now>>

UnregisterService ==
    /\ service /= 0 /\ service' = 0
    /\ UNCHANGED <<made, lb, breaker, cb, call, now>>

AddLoadBalancer ==
    /\ lb /= <<>> /\ lb' = <<>>
    /\ UNCHANGED <<service, made, breaker, cb, call, now>>

AddServiceToLoadBalancer ==
    /\ service /= 0 /\ Len(lb) < MaxObjects
    /\ lb' = Append(lb, service)
    /\ UNCHANGED <<service, made, breaker, cb, call, now>>

\* Every strategy gives the first object.
SelectService == lb[1]

(***************************************************************************)
(* Breaker                                                                 *)
(***************************************************************************)
\* A new breaker replaces the one a call may be using.
AddCircuitBreaker ==
    /\ \E b \in Breaker : /\ b /= breaker /\ cb[b] = Fresh
                          /\ \A c \in Client : call[c].cb /= b
                          /\ breaker' = b
    /\ UNCHANGED <<service, made, lb, cb, call, now>>

Reset ==
    /\ breaker /= NoBreaker /\ cb[breaker].by = NoClient /\ cb[breaker] /= Fresh
    /\ cb' = [cb EXCEPT ![breaker] = Fresh]
    /\ UNCHANGED <<service, made, lb, breaker, call, now>>

\* An open breaker is tried again after Timeout.
Rejects(b) == cb[b].state = "Open" /\ now - cb[b].last < Timeout

\* After fn failed.
\* Mutant: the count is compared before it is incremented.
FailedLate(r, t) ==
    [r EXCEPT !.count = @ + 1, !.last = t, !.by = NoClient,
              !.state = IF r.count >= Threshold THEN "Open" ELSE @]

Failed(r, t) ==
    [r EXCEPT !.count = @ + 1, !.last = t, !.by = NoClient,
              !.state = IF r.count + 1 >= Threshold THEN "Open" ELSE @]

Succeeded(r) ==
    [r EXCEPT !.count = 0, !.by = NoClient,
              !.state = IF @ = "HalfOpen" THEN "Closed" ELSE @]

(***************************************************************************)
(* RetryWithPolicy around CallService                                      *)
(***************************************************************************)
Goto(c, l) == call' = [call EXCEPT ![c].pc = l]

RetryWithPolicy(c) ==
    /\ call[c].pc = "idle"
    /\ Goto(c, "check")
    /\ UNCHANGED <<service, made, lb, breaker, cb, now>>

Cancel(c) ==
    /\ call[c].pc \notin {"idle", "done", "error", "panic"} /\ ~call[c].cancelled
    /\ call' = [call EXCEPT ![c].cancelled = TRUE]
    /\ UNCHANGED <<service, made, lb, breaker, cb, now>>

\* The context is looked at before each attempt only.
CheckContext(c) ==
    /\ call[c].pc = "check"
    /\ Goto(c, IF call[c].cancelled THEN "error" ELSE "get")
    /\ UNCHANGED <<service, made, lb, breaker, cb, now>>

\* CallService looks the breaker up.
GetCircuitBreaker(c) ==
    /\ call[c].pc = "get"
    /\ call' = [call EXCEPT ![c].cb = breaker,
                            ![c].pc = IF breaker = NoBreaker THEN "run" ELSE "lock"]
    /\ UNCHANGED <<service, made, lb, breaker, cb, now>>

\* The delay before attempt i + 2: the base, multiplied i times and capped each time.
calculateDelay[i \in 0 .. MaxRetries] ==
    IF i = 0 THEN BaseDelay
    ELSE LET d == calculateDelay[i - 1] * Multiplier
         IN IF d > MaxDelay THEN MaxDelay ELSE d

\* An attempt has failed: sleep and try again, or give up.
Attempted(c) ==
    call' = [call EXCEPT ![c].cb = NoBreaker,
                ![c].pc = IF call[c].i < MaxRetries THEN "sleep" ELSE "error",
                ![c].wake = IF call[c].i < MaxRetries THEN now + calculateDelay[call[c].i] ELSE @]

Lock(c) ==
    /\ call[c].pc = "lock" /\ cb[call[c].cb].by = NoClient
    /\ IF Rejects(call[c].cb)
       THEN Attempted(c) /\ UNCHANGED cb
       ELSE /\ cb' = [cb EXCEPT ![call[c].cb].by = c,
                                ![call[c].cb].state = IF @ = "Open" THEN "HalfOpen" ELSE @]
            /\ Goto(c, "run")
    /\ UNCHANGED <<service, made, lb, breaker, now>>

\* fn returns, or panics: the deferred Unlock runs, nothing is counted, a half-open breaker
\* stays half-open.
Run(c) ==
    /\ call[c].pc = "run"
    /\ LET b == call[c].cb IN
       \/ /\ call' = [call EXCEPT ![c].pc = "done", ![c].cb = NoBreaker]
          /\ cb' = IF b = NoBreaker THEN cb ELSE [cb EXCEPT ![b] = Succeeded(@)]
       \/ /\ Attempted(c)
          /\ cb' = IF b = NoBreaker THEN cb ELSE [cb EXCEPT ![b] = Failed(@, now)]
       \/ /\ call' = [call EXCEPT ![c].pc = "panic", ![c].cb = NoBreaker]
          /\ cb' = IF b = NoBreaker THEN cb ELSE [cb EXCEPT ![b].by = NoClient]
    /\ UNCHANGED <<service, made, lb, breaker, now>>

\* The sleep is over, cancelled or not.  (The clock of the instance may end first.)
Wake(c) ==
    /\ call[c].pc = "sleep" /\ (now >= call[c].wake \/ now = MaxTime)
    /\ call' = [call EXCEPT ![c].pc = "check", ![c].i = @ + 1, ![c].wake = 0]
    /\ UNCHANGED <<service, made, lb, breaker, cb, now>>

Tick ==
    /\ now < MaxTime /\ now' = now + 1
    /\ UNCHANGED <<service, made, lb, breaker, cb, call>>

CallStep(c) ==
    CheckContext(c) \/ GetCircuitBreaker(c) \/ Run(c) \/ Wake(c)

Next ==
    \/ RegisterService \/ UnregisterService \/ AddLoadBalancer \/ AddServiceToLoadBalancer
    \/ AddCircuitBreaker \/ Reset \/ Tick
    \/ \E c \in Client : RetryWithPolicy(c) \/ Cancel(c) \/ CallStep(c) \/ Lock(c)

\* fn ends, time passes, and a mutex of Go serves every thread that waits for it.
Fairness ==
    /\ WF_vars(Tick)
    /\ \A c \in Client : WF_vars(CallStep(c)) /\ SF_vars(Lock(c))

Spec == Init /\ [][Next]_vars /\ Fairness

(***************************************************************************)
(* Properties                                                              *)
(***************************************************************************)

(* A closed breaker has counted fewer than Threshold failures since its   *)
(* last success, any other at least that many, also when a call inside    *)
(* panicked, and no call is inside an open one (CircuitBreaker.Call,      *)
(* Reset, with the lock held over fn).                                    *)
BreakerCounts ==
    \A b \in Breaker : /\ cb[b].state = "Closed" => cb[b].count < Threshold
                       /\ cb[b].state /= "Closed" => cb[b].count >= Threshold
                       /\ cb[b].state = "Open" => cb[b].by = NoClient

(* Claim of the state's name: a half-open breaker has its probe inside.   *)
(* A probe that panics leaves it half-open with nobody in it, and every   *)
(* later caller goes in without the timeout.                              *)
HalfOpenIsProbed == \A b \in Breaker : cb[b].state = "HalfOpen" => cb[b].by /= NoClient

(* A lock of a breaker belongs to a client that is inside its fn, also    *)
(* after the breaker was replaced.                                        *)
LockIsUsed ==
    \A b \in Breaker : cb[b].by /= NoClient =>
        call[cb[b].by].pc = "run" /\ call[cb[b].by].cb = b

(* Every RetryWithPolicy ends, with the success, an error or the panic    *)
(* of fn, which takes no lock with it (retryWithPolicy,                   *)
(* CircuitBreaker.Call).                                                  *)
Begun(c) == call[c].pc = "check"
Returned(c) == call[c].pc \in {"done", "error", "panic"}
CallsReturn == \A c \in Client : Begun(c) ~> Returned(c)

(* Claim: a balancer gives a registered service (service_governance.go:194 *)
(* looks it up when it is added).  The pointer outlives UnregisterService  *)
(* and a second RegisterService of the same name.                          *)
SelectedIsRegistered == lb /= <<>> => SelectService = service

(* Claim: one probe at a time.  AddCircuitBreaker stores a new breaker     *)
(* while a call is inside the old one.                                     *)
OneInside == breaker /= NoBreaker =>
    Cardinality({c \in Client : call[c].pc = "run"}) <= 1

(* Claim of the field MaxDelay: no delay is longer.  The cap is applied    *)
(* only after a multiplication, so the first delay is BaseDelay.           *)
DelayIsCapped == \A i \in 0 .. MaxRetries : calculateDelay[i] <= MaxDelay

=============================================================================
