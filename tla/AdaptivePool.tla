---------------------------- MODULE AdaptivePool ----------------------------
(***************************************************************************)
(* AdaptiveWorkerPool and its two load balancers                           *)
(* (app/common/performance/cache_warmer.go).  A worker's load is 1 (0.1 in *)
(* the code) while it runs a task.  SubmitTask copies the list, chooses a  *)
(* worker and sends to its queue, without a lock; ScaleDown closes the     *)
(* queue of a worker.                                                      *)
(***************************************************************************)
EXTENDS Naturals, Sequences, FiniteSets

CONSTANTS
    minWorkers, maxWorkers, queueSize,
    Submitter,
    MaxSpawned, MaxStarts   \* bounds: workers ever made, calls of Start

VARIABLES
    workers,         \* the workers made so far: [active, closed, queue, load]
    currentWorkers, starts,
    balancer, lastIndex,
    chosen,          \* submitter -> the position of the worker it sends to, or 0
    crashed          \* a goroutine panicked: the process is gone

vars == <<workers, currentWorkers, starts, balancer, lastIndex, chosen, crashed>>

Init ==
    /\ workers = <<>> /\ currentWorkers = minWorkers /\ starts = 0
    /\ balancer \in {"roundRobin", "leastConnections"} /\ lastIndex = 0
    /\ chosen = [s \in Submitter |-> 0] /\ crashed = FALSE

NewWorker == [active |-> TRUE, closed |-> FALSE, queue |-> 0, load |-> 0]

Active == {i \in DOMAIN workers : workers[i].active}

Start ==
    /\ ~ crashed /\ starts < MaxStarts /\ Len(workers) + minWorkers <= MaxSpawned
    /\ workers' = workers \o [i \in 1 .. minWorkers |-> NewWorker] /\ starts' = starts + 1
    /\ UNCHANGED <<currentWorkers, balancer, lastIndex, chosen, crashed>>

\* The first of the active workers with the smallest load.
LowestLoad ==
    CHOOSE i \in Active :
        \A j \in Active : \/ workers[i].load < workers[j].load
                          \/ workers[i].load = workers[j].load /\ i <= j

\* SelectWorker of RoundRobinLoadBalancer, positions counted from 0, and of
\* LeastConnectionsLoadBalancer.
RoundRobin ==
    CHOOSE i \in Active :
        Cardinality({j \in Active : j < i}) = lastIndex % Cardinality(Active)

SubmitTask(s) ==
    /\ ~ crashed /\ chosen[s] = 0 /\ Active # {}
    /\ IF balancer = "roundRobin"
       THEN /\ chosen' = [chosen EXCEPT ![s] = RoundRobin]
            /\ lastIndex' = (lastIndex % Cardinality(Active)) + 1
       ELSE chosen' = [chosen EXCEPT ![s] = LowestLoad] /\ UNCHANGED lastIndex
    /\ UNCHANGED <<workers, currentWorkers, starts, balancer, crashed>>

\* The send: to a closed queue it panics, to a full one it is refused.
Send(s) ==
    /\ ~ crashed /\ chosen[s] # 0
    /\ LET w == workers[chosen[s]] IN
       /\ crashed' = w.closed
       /\ workers' = IF w.closed \/ w.queue = queueSize THEN workers
                     ELSE [workers EXCEPT ![chosen[s]].queue = @ + 1]
    /\ chosen' = [chosen EXCEPT ![s] = 0]
    /\ UNCHANGED <<currentWorkers, starts, balancer, lastIndex>>

\* A worker takes a task; from a closed and empty queue it takes nil and calls it.
Take(i) ==
    /\ ~ crashed /\ workers[i].load = 0
    /\ \/ /\ workers[i].queue > 0
          /\ workers' = [workers EXCEPT ![i].queue = @ - 1, ![i].load = 1] /\ UNCHANGED crashed
       \/ /\ workers[i].queue = 0 /\ workers[i].closed
          /\ crashed' = TRUE /\ UNCHANGED workers
    /\ UNCHANGED <<currentWorkers, starts, balancer, lastIndex, chosen>>

Execute(i) ==
    /\ ~ crashed /\ workers[i].load = 1 /\ workers' = [workers EXCEPT ![i].load = 0]
    /\ UNCHANGED <<currentWorkers, starts, balancer, lastIndex, chosen, crashed>>

ScaleUp ==
    /\ ~ crashed /\ currentWorkers < maxWorkers /\ Len(workers) < MaxSpawned
    /\ workers' = Append(workers, NewWorker) /\ currentWorkers' = currentWorkers + 1
    /\ UNCHANGED <<starts, balancer, lastIndex, chosen, crashed>>

\* Mutant: the worker stays active.
RetiredOpen(i) == [workers EXCEPT ![i].closed = TRUE]

Retired(i) == [workers EXCEPT ![i].active = FALSE, ![i].closed = TRUE]

ScaleDown ==
    /\ ~ crashed /\ currentWorkers > minWorkers /\ Active # {}
    /\ workers' = Retired(LowestLoad) /\ currentWorkers' = currentWorkers - 1
    /\ UNCHANGED <<starts, balancer, lastIndex, chosen, crashed>>

Next ==
    \/ Start \/ ScaleUp \/ ScaleDown
    \/ \E s \in Submitter : SubmitTask(s) \/ Send(s)
    \/ \E i \in DOMAIN workers : Take(i) \/ Execute(i)

Spec == Init /\ [][Next]_vars

-----------------------------------------------------------------------------
\* The type invariant of the pool.
TypeOK ==
    /\ workers \in Seq([active : BOOLEAN, closed : BOOLEAN, queue : 0 .. queueSize,
                        load : 0 .. 1])
    /\ currentWorkers \in minWorkers .. maxWorkers
    /\ chosen \in [Submitter -> 0 .. Len(workers)] /\ crashed \in BOOLEAN

\* The counter that bounds the scaling counts the active workers, in a pool started once.
ActiveCounted == starts = 1 => Cardinality(Active) = currentWorkers

\* The process only dies after a ScaleDown, and tasks accepted by active workers are safe
\* until then.
CrashNeedsScaleDown == crashed => \E i \in DOMAIN workers : workers[i].closed

\* ScaleDown retires a worker and nothing else: the pool goes on.
PoolSurvives == ~ crashed
=============================================================================
