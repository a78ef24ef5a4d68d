--------------------------- MODULE MCCoordinators ---------------------------
(***************************************************************************)
(* The three other coordinators of the tcc package on small instances:     *)
(* TransactionCoordinator, TCCCoordinator and the saga orchestrator.  They *)
(* share nothing: a behaviour is one of the coordinator `part`, and the    *)
(* others rest.                                                            *)
(***************************************************************************)
EXTENDS TransactionCoordinator

CONSTANTS Caller, Begins, Run, SagaSteps, RetryCount, Compensable

ASSUME SagaAssumption ==
    Begins \in Nat /\ SagaSteps \in Nat /\ RetryCount \in Nat /\ Compensable \subseteq 1 .. SagaSteps

VARIABLES
    part,
    begun, listed, tccStatus, object, held, tccAcked, tccConfirmed, tccCancelled,
    tccPc, tccPos, attempt, failed, successful, result,
    current, state, sagaPc, sagaPos, sagaAttempt, expired, applied, executed, undone,
    failedUndo, sagaResult

TCC == INSTANCE TCCCoordinator WITH
    status <- tccStatus, acked <- tccAcked, confirmed <- tccConfirmed, cancelled <- tccCancelled,
    pc <- tccPc, pos <- tccPos

Saga == INSTANCE Saga WITH
    N <- SagaSteps, pc <- sagaPc, pos <- sagaPos, attempt <- sagaAttempt, result <- sagaResult

tccVars == <<begun, listed, tccStatus, object, held, tccAcked, tccConfirmed, tccCancelled,
             tccPc, tccPos, attempt, failed, successful, result>>
sagaVars == <<current, state, sagaPc, sagaPos, sagaAttempt, expired, applied, executed,
              undone, failedUndo, sagaResult>>
allVars == <<part, vars, tccVars, sagaVars>>

InitPart ==
    /\ part \in {"etcd", "tcc", "saga"}
    /\ Init /\ TCC!Init /\ Saga!Init

EtcdNext == part = "etcd" /\ Next /\ UNCHANGED <<part, tccVars, sagaVars>>

TCCNext == part = "tcc" /\ TCC!Next /\ UNCHANGED <<part, vars, sagaVars>>

SagaNext == part = "saga" /\ Saga!Next /\ UNCHANGED <<part, vars, tccVars>>

\* Calls that have begun run on.
SpecPart ==
    /\ InitPart /\ [][EtcdNext \/ TCCNext \/ SagaNext]_allVars
    /\ \A c \in Caller :
          WF_allVars(part = "tcc" /\ TCC!Execution(c) /\ UNCHANGED <<part, vars, sagaVars>>)
    /\ \A r \in Run :
          WF_allVars(part = "saga" /\ Saga!Execute(r) /\ UNCHANGED <<part, vars, tccVars>>)

\* TCCCoordinator is typed, confirms after all the tries, returns nil only when every
\* component is confirmed, and releases what it cancels, whoever calls it twice.
TCCSafety ==
    /\ TCC!TypeOK /\ TCC!ConfirmNeedsAllTries
    /\ TCC!NilMeansConfirmed /\ TCC!CancelledIsReleased

\* The orchestrator is typed, completes whole sagas only, compensates executed steps
\* only and all of them, and leaves a settled record, also when two calls share it.
SagaSafety ==
    /\ Saga!TypeOK /\ Saga!CompletedIsWhole /\ Saga!UndoOnlyExecuted
    /\ Saga!CompensatedIsUndone /\ Saga!QuietIsSettled

\* Compensation runs backwards (Saga!UndoBackwards).
SagaUndoBackwards == Saga!UndoBackwards

\* A call of ExecuteTransaction, or of the saga's Execute, that x has begun, and its end.
Begun(x) ==
    \/ part = "tcc" /\ x \in Caller /\ tccPc[x] # "idle"
    \/ part = "saga" /\ x \in Run /\ sagaPc[x] = "saved"

Returned(x) ==
    \/ part = "tcc" /\ x \in Caller /\ tccPc[x] = "done"
    \/ part = "saga" /\ x \in Run /\ sagaPc[x] = "done"

\* The calls of ExecuteTransaction and of the saga's Execute return
\* (TCC!EventuallyReturns, Saga!EventuallyReturns).
CallsReturn == \A x \in Caller \cup Run : Begun(x) ~> Returned(x)
=============================================================================
