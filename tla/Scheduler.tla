----------------------------- MODULE Scheduler -----------------------------
(***************************************************************************)
(* Scheduler and CacheWarmer (app/common/performance/cache_warmer.go).     *)
(* Schedule, StopJob and StopAll send on the unbuffered Stop channel of a  *)
(* job while they hold the scheduler's lock; a job receives only between   *)
(* two runs of its function, here the strategies of the cache warmer.      *)
(***************************************************************************)
EXTENDS Naturals, Sequences, FiniteSetsExt, SequencesExt

CONSTANTS
    JobId, Caller, NoCaller,
    Strategy, Priority   \* the registered strategies, strategy -> its priority

VARIABLES
    jobs,       \* the ids in the map
    alive,      \* id -> the state of its last goroutine: "none", "waits" or "runs"
    todo,       \* id -> the strategies its run has still to do, in order
    enabled,    \* the strategies whose IsEnabled holds
    holder,     \* the caller that has the lock
    at, victims \* caller -> its point, the jobs it still has to stop

vars == <<jobs, alive, todo, enabled, holder, at, victims>>

Init ==
    /\ jobs = {} /\ alive = [i \in JobId |-> "none"] /\ todo = [i \in JobId |-> <<>>]
    /\ enabled = Strategy /\ holder = NoCaller
    /\ at = [c \in Caller |-> "idle"] /\ victims = [c \in Caller |-> {}]

\* A caller takes the lock, with the jobs it has to stop first.
Lock(c, what, ids) ==
    /\ holder = NoCaller /\ at[c] = "idle"
    /\ holder' = c /\ at' = [at EXCEPT ![c] = what]
    /\ victims' = [victims EXCEPT ![c] = ids \cap jobs]
    /\ UNCHANGED <<jobs, alive, todo, enabled>>

Unlock(c) == holder' = NoCaller /\ at' = [at EXCEPT ![c] = "idle"]

Schedule(c, i) == Lock(c, i, {i})

StopJob(c, i) == i \in jobs /\ Lock(c, "stop", {i})

StopAll(c) == Lock(c, "stop", jobs)

\* Mutant: a job that was stopped stays in the map.
DroppedNever(c, i) == jobs

\* StopJob and StopAll take the job out of the map, Schedule puts another in its place.
Dropped(c, i) == IF at[c] = "stop" THEN jobs \ {i} ELSE jobs

\* The job, between two runs, receives what the caller sends, and is gone.  StopAll sends
\* in the order of a map: any.
Handshake(c, i) ==
    /\ i \in victims[c] /\ alive[i] = "waits"
    /\ alive' = [alive EXCEPT ![i] = "none"]
    /\ victims' = [victims EXCEPT ![c] = @ \ {i}]
    /\ jobs' = Dropped(c, i)
    /\ UNCHANGED <<todo, enabled, holder, at>>

Start(c) ==
    /\ at[c] \in JobId /\ victims[c] = {}
    /\ jobs' = jobs \cup {at[c]} /\ alive' = [alive EXCEPT ![at[c]] = "waits"]
    /\ todo' = [todo EXCEPT ![at[c]] = <<>>]
    /\ Unlock(c) /\ UNCHANGED <<enabled, victims>>

Stopped(c) ==
    /\ at[c] = "stop" /\ victims[c] = {} /\ Unlock(c)
    /\ UNCHANGED <<jobs, alive, todo, enabled, victims>>

-----------------------------------------------------------------------------
\* The strategies that are enabled, the smallest priority first.
Sorted(S) == SetToSortSeq(S, LAMBDA x, y : Priority[x] < Priority[y])

\* The ticker: Warmup copies the strategies and runs them.
Tick(i) ==
    /\ alive[i] = "waits" /\ alive' = [alive EXCEPT ![i] = "runs"]
    /\ todo' = [todo EXCEPT ![i] = Sorted(enabled)]
    /\ UNCHANGED <<jobs, enabled, holder, at, victims>>

\* The next strategy; an error ends the run, never the job.
Warmup(i) ==
    /\ alive[i] = "runs"
    /\ IF todo[i] = <<>>
       THEN alive' = [alive EXCEPT ![i] = "waits"] /\ UNCHANGED todo
       ELSE \/ todo' = [todo EXCEPT ![i] = Tail(@)] /\ UNCHANGED alive
            \/ /\ todo' = [todo EXCEPT ![i] = <<>>]
               /\ alive' = [alive EXCEPT ![i] = "waits"]
    /\ UNCHANGED <<jobs, enabled, holder, at, victims>>

Toggle(s) ==
    /\ enabled' = IF s \in enabled THEN enabled \ {s} ELSE enabled \cup {s}
    /\ UNCHANGED <<jobs, alive, todo, holder, at, victims>>

Next ==
    \/ \E c \in Caller :
          \/ StopAll(c) \/ Start(c) \/ Stopped(c)
          \/ \E i \in JobId : Schedule(c, i) \/ StopJob(c, i) \/ Handshake(c, i)
    \/ \E i \in JobId : Tick(i) \/ Warmup(i)
    \/ \E s \in Strategy : Toggle(s)

\* Every strategy returns; a job whose ticker keeps firing still takes the Stop that is
\* offered again and again, since select chooses at random; a call that can go on does.
Fairness ==
    /\ \A i \in JobId : WF_vars(Warmup(i))
    /\ SF_vars(\E c \in Caller, i \in JobId : Handshake(c, i))
    /\ \A c \in Caller : WF_vars(Start(c) \/ Stopped(c))

Spec == Init /\ [][Next]_vars /\ Fairness

-----------------------------------------------------------------------------
\* The type invariant of the scheduler.
TypeOK ==
    /\ jobs \subseteq JobId /\ alive \in [JobId -> {"none", "waits", "runs"}]
    /\ holder \in Caller \cup {NoCaller} /\ victims \in [Caller -> SUBSET JobId]
    /\ \A i \in JobId : todo[i] \in Seq(Strategy)

\* Who waits to send Stop always waits for a goroutine that is there to receive: a job that
\* is in the map, or is about to be stopped, was never stopped before.  Otherwise the lock
\* would be held for ever.
StopHasReceiver ==
    /\ \A i \in jobs : alive[i] # "none" \/ \E c \in Caller : at[c] = i /\ i \notin victims[c]
    /\ \A c \in Caller : \A i \in victims[c] : alive[i] # "none"

\* Only one goroutine per id: a new one is started when the old one is gone.
OneGoroutine ==
    \A c \in Caller : at[c] \in JobId /\ victims[c] = {} => alive[at[c]] = "none"

\* Every call that took the lock gives it back.
Holding(c) == holder = c
CallsReturn == \A c \in Caller : Holding(c) ~> ~Holding(c)
=============================================================================
