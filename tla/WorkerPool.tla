----------------------------- MODULE WorkerPool -----------------------------
(***************************************************************************)
(* WorkerPool and Worker (app/common/performance/worker_pool.go): workers  *)
(* that put themselves into the pool channel, a dispatcher that matches    *)
(* jobs with them, submitters and one call of Stop.                        *)
(*                                                                         *)
(* Every goroutine is a process; a send and a receive on an unbuffered     *)
(* channel are one step of both.  A select whose cases are ready takes any *)
(* of them.                                                                *)
(***************************************************************************)
EXTENDS Naturals, Sequences, FiniteSets

CONSTANTS
    N,        \* number of workers, at least 1
    Cap,      \* capacity of jobQueue, at least 1; 1000 in the code
    Job       \* the jobs that are submitted, each once

Worker == 1 .. N

VARIABLES
    jobQueue,    \* the buffered channel of accepted jobs
    workerPool,  \* the buffered channel of workers that asked for a job
    ctxDone,     \* the pool's context is cancelled
    dpc, djob, dworker,     \* dispatch: control point, job in hand, worker taken
    wpc, wjob, wctxDone,    \* each worker: control point, job, its own context
    spc,         \* Stop: control point, and the worker it is stopping
    answer,      \* what the submitter of each job was told
    executed     \* jobs whose Execute has returned

pool == <<jobQueue, workerPool>>
dispatcher == <<dpc, djob, dworker>>
workers == <<wpc, wjob, wctxDone>>
vars == <<pool, ctxDone, dispatcher, workers, spc, answer, executed>>

NoJob == "none"

Init ==
    /\ jobQueue = <<>> /\ workerPool = <<>> /\ ctxDone = FALSE
    /\ dpc = "select" /\ djob = NoJob /\ dworker = 1
    /\ wpc = [w \in Worker |-> "register"] /\ wjob = [w \in Worker |-> NoJob]
    /\ wctxDone = [w \in Worker |-> FALSE]
    /\ spc = [at |-> "idle", worker |-> 1]
    /\ answer = [j \in Job |-> "none"] /\ executed = {}

-----------------------------------------------------------------------------
(* Worker.Start *)

Register(w) ==
    /\ wpc[w] = "register" /\ Len(workerPool) < N
    /\ workerPool' = Append(workerPool, w)
    /\ wpc' = [wpc EXCEPT ![w] = "wait"]
    /\ UNCHANGED <<jobQueue, ctxDone, dispatcher, wjob, wctxDone, spc, answer, executed>>

\* job.Execute returns, with or without an error
Finish(w) ==
    /\ wpc[w] = "execute"
    /\ executed' = executed \cup {wjob[w]}
    /\ wjob' = [wjob EXCEPT ![w] = NoJob]
    /\ wpc' = [wpc EXCEPT ![w] = "register"]
    /\ UNCHANGED <<pool, ctxDone, dispatcher, wctxDone, spc, answer>>

\* The worker leaves, but its queue stays in the pool channel.
WorkerDone(w) ==
    /\ wpc[w] = "wait" /\ wctxDone[w]
    /\ wpc' = [wpc EXCEPT ![w] = "gone"]
    /\ UNCHANGED <<pool, ctxDone, dispatcher, wjob, wctxDone, spc, answer, executed>>

-----------------------------------------------------------------------------
(* dispatch *)

\* Mutant: the job stays in the queue.
RestOfQueueAll == jobQueue

RestOfQueue == Tail(jobQueue)

TakeJob ==
    /\ dpc = "select" /\ jobQueue # <<>>
    /\ djob' = Head(jobQueue) /\ jobQueue' = RestOfQueue
    /\ dpc' = "worker"
    /\ UNCHANGED <<workerPool, ctxDone, dworker, workers, spc, answer, executed>>

\* Mutant: the worker is looked at and left in the channel.
RestOfPoolAll == workerPool

RestOfPool == Tail(workerPool)

TakeWorker ==
    /\ dpc = "worker" /\ workerPool # <<>>
    /\ dworker' = Head(workerPool) /\ workerPool' = RestOfPool
    /\ dpc' = "hand"
    /\ UNCHANGED <<jobQueue, ctxDone, djob, workers, spc, answer, executed>>

\* worker <- job meets the worker's select
HandOver ==
    /\ dpc = "hand" /\ wpc[dworker] = "wait"
    /\ wjob' = [wjob EXCEPT ![dworker] = djob]
    /\ wpc' = [wpc EXCEPT ![dworker] = "execute"]
    /\ djob' = NoJob /\ dpc' = "select"
    /\ UNCHANGED <<pool, ctxDone, dworker, wctxDone, spc, answer, executed>>

DispatchDone ==
    /\ dpc = "select" /\ ctxDone
    /\ dpc' = "gone"
    /\ UNCHANGED <<pool, ctxDone, djob, dworker, workers, spc, answer, executed>>

-----------------------------------------------------------------------------
(* Stop *)

StopCancel ==
    /\ spc.at = "idle"
    /\ ctxDone' = TRUE
    /\ spc' = [spc EXCEPT !.at = "quit"]
    /\ UNCHANGED <<pool, dispatcher, workers, answer, executed>>

\* wp.quit <- true meets dispatch's select
StopDispatcher ==
    /\ spc.at = "quit" /\ dpc = "select"
    /\ dpc' = "gone"
    /\ spc' = [spc EXCEPT !.at = "cancel"]
    /\ UNCHANGED <<pool, ctxDone, djob, dworker, workers, answer, executed>>

CancelWorker ==
    /\ spc.at = "cancel"
    /\ wctxDone' = [wctxDone EXCEPT ![spc.worker] = TRUE]
    /\ spc' = [spc EXCEPT !.at = "stop"]
    /\ UNCHANGED <<pool, ctxDone, dispatcher, wpc, wjob, answer, executed>>

\* Mutant: the last worker is forgotten.
NextToStopShort(w) == IF w + 1 >= N THEN [at |-> "returned", worker |-> w]
                      ELSE [at |-> "cancel", worker |-> w + 1]

NextToStop(w) == IF w = N THEN [at |-> "returned", worker |-> w]
                 ELSE [at |-> "cancel", worker |-> w + 1]

\* w.quit <- true meets the worker's select
StopWorker ==
    /\ spc.at = "stop" /\ wpc[spc.worker] = "wait"
    /\ wpc' = [wpc EXCEPT ![spc.worker] = "gone"]
    /\ spc' = NextToStop(spc.worker)
    /\ UNCHANGED <<pool, ctxDone, dispatcher, wjob, wctxDone, answer, executed>>

-----------------------------------------------------------------------------
(* Submit and SubmitWithTimeout *)

HasRoom == Len(jobQueue) < Cap

Accept(j) ==
    /\ answer[j] = "none" /\ HasRoom
    /\ jobQueue' = Append(jobQueue, j)
    /\ answer' = [answer EXCEPT ![j] = "accepted"]
    /\ UNCHANGED <<workerPool, ctxDone, dispatcher, workers, spc, executed>>

\* ErrWorkerPoolFull when neither case of the select is ready; the context's error
\* when it is cancelled, or when the timeout of SubmitWithTimeout has passed.
Reject(j, timeout) ==
    /\ answer[j] = "none"
    /\ ~HasRoom \/ ctxDone \/ timeout
    /\ answer' = [answer EXCEPT ![j] = "rejected"]
    /\ UNCHANGED <<pool, ctxDone, dispatcher, workers, spc, executed>>

-----------------------------------------------------------------------------

WorkerStep(w) == Register(w) \/ Finish(w) \/ WorkerDone(w)
Dispatch == TakeJob \/ TakeWorker \/ HandOver \/ DispatchDone
Stop == StopCancel \/ StopDispatcher \/ CancelWorker \/ StopWorker

Next ==
    \/ \E w \in Worker : WorkerStep(w)
    \/ Dispatch
    \/ Stop
    \/ \E j \in Job : Accept(j) \/ \E timeout \in BOOLEAN : Reject(j, timeout)

Spec == Init /\ [][Next]_vars

\* Go runs every goroutine that can move, and jobs return.  Nobody has to submit
\* or to stop the pool.
Fairness ==
    /\ \A w \in Worker : WF_vars(WorkerStep(w))
    /\ WF_vars(Dispatch)
    /\ WF_vars(spc.at # "idle" /\ Stop)

FairSpec == Spec /\ Fairness

-----------------------------------------------------------------------------

\* The type invariant of the pool.
TypeOK ==
    /\ jobQueue \in Seq(Job) /\ Len(jobQueue) <= Cap
    /\ workerPool \in Seq(Worker) /\ Len(workerPool) <= N
    /\ ctxDone \in BOOLEAN
    /\ dpc \in {"select", "worker", "hand", "gone"} /\ djob \in Job \cup {NoJob}
    /\ dworker \in Worker
    /\ wpc \in [Worker -> {"register", "wait", "execute", "gone"}]
    /\ wjob \in [Worker -> Job \cup {NoJob}] /\ wctxDone \in [Worker -> BOOLEAN]
    /\ spc \in [at : {"idle", "quit", "cancel", "stop", "returned"}, worker : Worker]
    /\ answer \in [Job -> {"none", "accepted", "rejected"}] /\ executed \subseteq Job

\* How many places hold job j: the queue, the dispatcher, a worker, the past.
Places(j) ==
    Cardinality({i \in DOMAIN jobQueue : jobQueue[i] = j})
      + Cardinality({w \in Worker : wjob[w] = j})
      + (IF djob = j THEN 1 ELSE 0) + (IF j \in executed THEN 1 ELSE 0)

\* A job that was accepted is in one place, and one that was not is nowhere: no
\* order of the goroutines runs a job twice or drops it on the way to a worker,
\* also while the pool is being stopped (Submit, dispatch, Worker.Start).
OnePlace == \A j \in Job : Places(j) = IF answer[j] = "accepted" THEN 1 ELSE 0

\* The dispatcher never waits for a worker that has left.  A worker leaves its queue
\* in the pool channel when it quits, so this rests on Stop ending the dispatcher
\* before it stops the first worker.
HandedToALiveWorker == dpc = "hand" => wpc[dworker] = "wait"

\* When Stop returns, the dispatcher and all the workers have left.
StopIsComplete == spc.at = "returned" => dpc = "gone" /\ \A w \in Worker : wpc[w] = "gone"

\* A pool that is not stopped executes every job it accepts.
Accepted(j) == answer[j] = "accepted"
Served(j) == j \in executed \/ spc.at # "idle"
AcceptedIsExecuted == \A j \in Job : Accepted(j) ~> Served(j)

\* Stop stops all the workers, as its comment says.
StopStopsWorkers == spc.at # "idle" ~> \A w \in Worker : wpc[w] = "gone"

=============================================================================
