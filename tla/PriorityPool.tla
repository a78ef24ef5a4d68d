---------------------------- MODULE PriorityPool ----------------------------
(***************************************************************************)
(* PriorityWorkerPool.Submit and its PriorityQueue                         *)
(* (app/common/performance/worker_pool.go) in front of the job queue of a  *)
(* WorkerPool.  Submit pushes its job, pops the first one, and submits     *)
(* that: three critical sections, between which other submitters run.      *)
(***************************************************************************)
EXTENDS Naturals, Sequences, SequencesExt

CONSTANTS
    Job,       \* the jobs, each submitted by a goroutine of its own
    Priority,  \* GetPriority of each job
    Cap        \* capacity of the pool's jobQueue; 1000 in the code

VARIABLES
    jobs,      \* the priority queue
    jobQueue,  \* the pool's channel
    pc,        \* the submitter of each job
    popped,    \* the job its Pop returned
    answer,    \* what Submit returned
    taken      \* jobs the dispatcher took, in order

vars == <<jobs, jobQueue, pc, popped, answer, taken>>

NoJob == "none"

Init ==
    /\ jobs = <<>> /\ jobQueue = <<>> /\ taken = <<>>
    /\ pc = [j \in Job |-> "idle"] /\ popped = [j \in Job |-> NoJob]
    /\ answer = [j \in Job |-> "none"]

-----------------------------------------------------------------------------
(* PriorityQueue.sort *)

Swap(s, k) == [s EXCEPT ![k] = s[k + 1], ![k + 1] = s[k]]

\* Mutant: the smallest priority first.
OutOfOrderReversed(a, b) == Priority[a] > Priority[b]

OutOfOrder(a, b) == Priority[a] < Priority[b]

\* The inner loop: n neighbours are compared from the front on.
Pass(s, n) ==
    FoldLeft(LAMBDA acc, k : IF OutOfOrder(acc[k], acc[k + 1]) THEN Swap(acc, k) ELSE acc,
             s, [k \in 1 .. n |-> k])

\* The outer loop: each pass is one shorter than the one before.
Sort(s) == FoldLeft(LAMBDA acc, i : Pass(acc, Len(s) - i), s, [i \in 1 .. Len(s) - 1 |-> i])

-----------------------------------------------------------------------------
(* Submit *)

Push(j) ==
    /\ pc[j] = "idle"
    /\ jobs' = Sort(Append(jobs, j))
    /\ pc' = [pc EXCEPT ![j] = "pop"]
    /\ UNCHANGED <<jobQueue, popped, answer, taken>>

\* Mutant: the job stays in the queue.
RestOfJobsAll == jobs

RestOfJobs == Tail(jobs)

\* An empty queue ends Submit with nil.
Pop(j) ==
    /\ pc[j] = "pop"
    /\ IF jobs = <<>>
       THEN /\ pc' = [pc EXCEPT ![j] = "done"]
            /\ answer' = [answer EXCEPT ![j] = "nil"]
            /\ UNCHANGED <<jobs, popped>>
       ELSE /\ popped' = [popped EXCEPT ![j] = Head(jobs)]
            /\ jobs' = RestOfJobs
            /\ pc' = [pc EXCEPT ![j] = "submit"]
            /\ UNCHANGED answer
    /\ UNCHANGED <<jobQueue, taken>>

HasRoom == Len(jobQueue) < Cap

\* ErrWorkerPoolFull
PoolFull == "full"

\* WorkerPool.Submit of the job that was popped
Submit(j) ==
    /\ pc[j] = "submit"
    /\ IF HasRoom
       THEN /\ jobQueue' = Append(jobQueue, popped[j])
            /\ answer' = [answer EXCEPT ![j] = "nil"]
       ELSE /\ answer' = [answer EXCEPT ![j] = PoolFull]
            /\ UNCHANGED jobQueue
    /\ pc' = [pc EXCEPT ![j] = "done"]
    /\ UNCHANGED <<jobs, popped, taken>>

\* The dispatcher of the pool
Take ==
    /\ jobQueue # <<>>
    /\ taken' = Append(taken, Head(jobQueue)) /\ jobQueue' = Tail(jobQueue)
    /\ UNCHANGED <<jobs, pc, popped, answer>>

Next == (\E j \in Job : Push(j) \/ Pop(j) \/ Submit(j)) \/ Take

Spec == Init /\ [][Next]_vars

-----------------------------------------------------------------------------

\* The type invariant of the queue and its submitters.
TypeOK ==
    /\ jobs \in BoundedSeq(Job, Cardinality(Job)) /\ jobQueue \in BoundedSeq(Job, Cap)
    /\ taken \in BoundedSeq(Job, Cardinality(Job))
    /\ pc \in [Job -> {"idle", "pop", "submit", "done"}]
    /\ popped \in [Job -> Job \cup {NoJob}] /\ answer \in [Job -> {"none", "nil", "full"}]

\* The queue holds as many jobs as there are submitters between their push and their
\* pop.  So Pop never finds it empty, and no job waits in it once they are all back:
\* the queue orders only jobs of calls that overlap.
PopsMatchPushes == Len(jobs) = Cardinality({j \in Job : pc[j] = "pop"})

\* Of a step: what Pop returns is one of the most urgent jobs in the queue, in whatever order
\* pushes and pops come: one bubble sort after each push keeps all of it in order.
FrontIsMostUrgent ==
    \A j \in Job : pc[j] = "pop" /\ pc'[j] = "submit" =>
        \A k \in DOMAIN jobs : Priority[jobs[k]] <= Priority[popped'[j]]

\* Of a step: jobs of the same priority stay in the order they were pushed in: the job just
\* pushed stands behind its equals (the strict comparison of sort).
SortIsStable ==
    \A j \in Job : pc[j] = "idle" /\ pc'[j] = "pop" =>
        \A i, k \in DOMAIN jobs' :
            i < k /\ Priority[jobs'[i]] = Priority[jobs'[k]] => jobs'[i] # j

\* With all calls back, the jobs the pool has or had are as many as the submitters
\* that were told nil: a job is dropped only when somebody was told the pool is full.
DropsAreReported ==
    (\A j \in Job : pc[j] \in {"idle", "done"}) =>
        Cardinality({j \in Job : answer[j] = "nil"}) = Len(taken) + Len(jobQueue)

\* A submitter that is told nil has its job waiting, on its way or submitted, as "Submit
\* 提交优先级任务" says.
NilIsSubmitted ==
    \A j \in Job : answer[j] = "nil" =>
        \/ \E k \in DOMAIN jobs : jobs[k] = j
        \/ \E i \in Job : popped[i] = j /\ answer[i] # "full"

=============================================================================
