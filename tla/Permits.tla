------------------------------ MODULE Permits ------------------------------
(***************************************************************************)
(* BackpressureController, ConcurrentLimiter and the channel RateLimiter   *)
(* of app/common/performance/request_merger.go.  `kind` says which of them *)
(* the behaviour is one of.                                                *)
(*                                                                         *)
(* The permits are a channel and the statistics are counters behind a lock *)
(* of their own: taking a permit and counting it are two steps.  The       *)
(* controller leaves Release to its caller; ConcurrentLimiter defers it.   *)
(***************************************************************************)
EXTENDS Integers, FiniteSets

CONSTANTS
    Client,          \* callers of Acquire, Execute, Allow or Wait
    maxConcurrency,  \* the size of the channel, or the burst
    MaxTotal         \* bound on the calls counted

VARIABLES
    kind,
    semaphore,   \* marks in the channel; tokens of the rate limiter
    Active, Total, Rejected,
    at           \* client -> where it is

vars == <<kind, semaphore, Active, Total, Rejected, at>>

Clients(point) == Cardinality({c \in Client : at[c] = point})

Init ==
    /\ kind \in {"controller", "limiter", "rate"}
    /\ semaphore = IF kind = "rate" THEN maxConcurrency ELSE 0
    /\ Active = 0 /\ Total = 0 /\ Rejected = 0
    /\ at = [c \in Client |-> "idle"]

Moves(c, point) == at' = [at EXCEPT ![c] = point]

\* The select of Acquire and of Execute, and its two branches.
TakePermit(c) ==
    /\ kind # "rate" /\ at[c] = "idle"
    /\ Total + Rejected + Clients("taken") + Clients("refused") < MaxTotal
    /\ IF semaphore < maxConcurrency
       THEN semaphore' = semaphore + 1 /\ Moves(c, "taken")
       ELSE UNCHANGED semaphore /\ Moves(c, "refused")
    /\ UNCHANGED <<kind, Active, Total, Rejected>>

CountTaken(c) ==
    /\ at[c] = "taken"
    /\ Active' = Active + 1 /\ Total' = Total + 1 /\ Moves(c, "working")
    /\ UNCHANGED <<kind, semaphore, Rejected>>

CountRefused(c) ==
    /\ at[c] = "refused"
    /\ Rejected' = Rejected + 1 /\ Moves(c, "told")
    /\ UNCHANGED <<kind, semaphore, Active, Total>>

GivesUp(c) ==
    /\ at[c] = "told" /\ Moves(c, "idle")
    /\ UNCHANGED <<kind, semaphore, Active, Total, Rejected>>

\* Mutant: the mark is taken out although nothing was found in the channel.
FreedUnchecked == semaphore - 1

Freed == IF semaphore > 0 THEN semaphore - 1 ELSE 0

\* The deferred function of Execute receives and waits if there is nothing; Release of the
\* controller looks and does nothing when there is nothing.  The controller cannot tell
\* who calls: a client that was refused may call Release as well.
FreePermit(c) ==
    /\ \/ at[c] = "working"
       \/ at[c] = "told" /\ kind = "controller"
    /\ kind = "limiter" => semaphore > 0
    /\ semaphore' = Freed
    /\ Moves(c, IF semaphore > 0 THEN "freed" ELSE "idle")
    /\ UNCHANGED <<kind, Active, Total, Rejected>>

CountFreed(c) ==
    /\ at[c] = "freed"
    /\ Active' = Active - 1 /\ Moves(c, "idle")
    /\ UNCHANGED <<kind, semaphore, Total, Rejected>>

\* Allow of the rate limiter answers at once; Wait takes a token or ends with its context.
Allow(c) ==
    /\ kind = "rate" /\ at[c] = "idle" /\ Total + Rejected < MaxTotal
    /\ IF semaphore > 0
       THEN semaphore' = semaphore - 1 /\ Total' = Total + 1 /\ UNCHANGED Rejected
       ELSE Rejected' = Rejected + 1 /\ UNCHANGED <<semaphore, Total>>
    /\ UNCHANGED <<kind, Active, at>>

Wait(c) ==
    /\ kind = "rate" /\ at[c] = "idle" /\ Total + Rejected < MaxTotal
    /\ Moves(c, "waiting")
    /\ UNCHANGED <<kind, semaphore, Active, Total, Rejected>>

Waited(c) ==
    /\ at[c] = "waiting"
    /\ \/ /\ semaphore > 0
          /\ semaphore' = semaphore - 1 /\ Total' = Total + 1
       \/ UNCHANGED <<semaphore, Total>>
    /\ Moves(c, "idle")
    /\ UNCHANGED <<kind, Active, Rejected>>

\* A tick puts one token in, unless the channel is full.  Active counts the ticks here.
refillTokens ==
    /\ kind = "rate" /\ semaphore < maxConcurrency /\ Active < MaxTotal
    /\ semaphore' = semaphore + 1 /\ Active' = Active + 1
    /\ UNCHANGED <<kind, Total, Rejected, at>>

Next ==
    \/ \E c \in Client :
          \/ TakePermit(c) \/ CountTaken(c) \/ CountRefused(c) \/ GivesUp(c)
          \/ FreePermit(c) \/ CountFreed(c) \/ Allow(c) \/ Wait(c) \/ Waited(c)
    \/ refillTokens

Spec == Init /\ [][Next]_vars

-----------------------------------------------------------------------------
\* The type invariant.
TypeOK ==
    /\ kind \in {"controller", "limiter", "rate"}
    /\ semaphore \in 0 .. maxConcurrency /\ Active \in Int
    /\ Total \in Nat /\ Rejected \in Nat
    /\ at \in [Client -> {"idle", "taken", "refused", "told", "working", "freed", "waiting"}]

\* The channel and the statistics differ by the clients between the two, at any moment and
\* also when a client that was refused calls Release.
StatisticsLag ==
    kind # "rate" => semaphore = Active + Clients("taken") - Clients("freed")

\* ConcurrentLimiter never runs more functions than it has permits; Active may be larger
\* for a while, by the clients that have freed a permit and not counted it.
AtMostMaxRun ==
    kind = "limiter" => /\ Clients("working") + Clients("taken") <= maxConcurrency
                        /\ Active <= maxConcurrency + Clients("freed")

\* The rate limiter lets through the burst and what was put back, never more.
LetThroughWithinTokens ==
    kind = "rate" => Total + semaphore = maxConcurrency + Active

\* "maxConcurrency": the controller never has more clients at work than permits.
ControllerBounds == kind = "controller" => Clients("working") <= maxConcurrency
=============================================================================
