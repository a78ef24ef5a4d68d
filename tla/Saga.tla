-------------------------------- MODULE Saga --------------------------------
(***************************************************************************)
(* SagaOrchestrator (app/common/tcc/saga_orchestrator.go): concurrent      *)
(* Execute calls for one saga ID.  Each has an execution record of its     *)
(* own; the state manager keeps a pointer to the record that was saved or  *)
(* updated last, so a reader sees every later change of that record.  An   *)
(* action may take effect although it reports an error.                    *)
(***************************************************************************)
EXTENDS Naturals, FiniteSets

CONSTANTS
    N,             \* number of steps
    Run,           \* concurrent Execute calls
    RetryCount,    \* retries of a step
    Compensable    \* the steps that have a compensation, registered or of their own

Step == 1 .. N

VARIABLES
    current,     \* the record the state manager points to
    state,       \* State of each execution record
    pc, pos, attempt,   \* each call's control point, step and attempt
    expired,     \* whether the call's context is done
    applied,     \* per call: steps whose action took effect
    executed,    \* per call: number of steps in executedSteps
    undone,      \* per call: steps whose compensation took effect
    failedUndo,  \* per call: steps whose compensation reported an error
    result       \* what Execute returned

record == <<current, state>>
effects == <<applied, undone, failedUndo>>
vars == <<record, pc, pos, attempt, expired, effects, executed, result>>

NoRun == "none"

Init ==
    /\ current = NoRun /\ state = [r \in Run |-> "pending"]
    /\ pc = [r \in Run |-> "idle"] /\ pos = [r \in Run |-> 1] /\ attempt = [r \in Run |-> 0]
    /\ expired = [r \in Run |-> FALSE]
    /\ applied = [r \in Run |-> {}] /\ executed = [r \in Run |-> 0]
    /\ undone = [r \in Run |-> {}] /\ failedUndo = [r \in Run |-> {}]
    /\ result = [r \in Run |-> "none"]

Goto(r, p) == pc' = [pc EXCEPT ![r] = p]

\* UpdateExecution after State was set.
Update(r, s) == state' = [state EXCEPT ![r] = s] /\ current' = r

\* SaveExecution; the record becomes running with the first update.
SaveExecution(r) ==
    /\ pc[r] = "idle"
    /\ current' = r
    /\ Goto(r, "saved")
    /\ UNCHANGED <<state, pos, attempt, expired, effects, executed, result>>

Running(r) ==
    /\ pc[r] = "saved"
    /\ Update(r, "running")
    /\ Goto(r, "check")
    /\ UNCHANGED <<pos, attempt, expired, effects, executed, result>>

\* The 30 seconds are over, or the caller has cancelled.
Expire(r) ==
    /\ ~expired[r] /\ pc[r] \notin {"idle", "done"}
    /\ expired' = [expired EXCEPT ![r] = TRUE]
    /\ UNCHANGED <<record, pc, pos, attempt, effects, executed, result>>

AllSteps(r) == pos[r] > N

\* The select before each step, and the end of the loop.  A context that is done ends the
\* call with what was executed in place.
CheckContext(r) ==
    /\ pc[r] = "check"
    /\ \/ /\ ~AllSteps(r) /\ expired[r]
          /\ Update(r, "failed")
          /\ Goto(r, "done")
          /\ result' = [result EXCEPT ![r] = "error"]
       \/ /\ ~AllSteps(r) /\ ~expired[r]
          /\ Goto(r, "action")
          /\ UNCHANGED <<record, result>>
       \/ /\ AllSteps(r)
          /\ Update(r, "completed")
          /\ Goto(r, "done")
          /\ result' = [result EXCEPT ![r] = "nil"]
    /\ UNCHANGED <<pos, attempt, expired, effects, executed>>

\* Mutant: the step that failed is taken as executed.
ExecutedUpToInclusive(r) == pos[r]

\* Length of executedSteps when the step at pos fails.
ExecutedUpTo(r) == executed[r]

LastAttempt(r) == attempt[r] = RetryCount

\* executeStep, one attempt.  When the last one fails the record becomes failed and
\* compensation starts from the last executed step.
Action(r) ==
    /\ pc[r] = "action"
    /\ \/ /\ applied' = [applied EXCEPT ![r] = @ \cup {pos[r]}]
          /\ executed' = [executed EXCEPT ![r] = @ + 1]
          /\ pos' = [pos EXCEPT ![r] = @ + 1]
          /\ attempt' = [attempt EXCEPT ![r] = 0]
          /\ Goto(r, "check")
          /\ UNCHANGED record
       \/ /\ applied' \in {applied, [applied EXCEPT ![r] = @ \cup {pos[r]}]}
          /\ \/ /\ ~LastAttempt(r)
                /\ attempt' = [attempt EXCEPT ![r] = @ + 1]
                /\ UNCHANGED <<record, pc, pos>>
             \/ /\ LastAttempt(r)
                /\ Update(r, "failed")
                /\ pos' = [pos EXCEPT ![r] = ExecutedUpTo(r)]
                /\ Goto(r, "compensate")
                /\ UNCHANGED attempt
          /\ UNCHANGED executed
    /\ UNCHANGED <<expired, undone, failedUndo, result>>

\* Mutant: every other step is skipped.
NextToCompensateSkips(r) == IF pos[r] = 3 THEN 1 ELSE pos[r] - 1

\* The index of compensate's loop after the step at pos.
NextToCompensate(r) == pos[r] - 1

\* compensate, one step: errors are dropped, a step without compensation is passed over.
Compensate(r) ==
    /\ pc[r] = "compensate" /\ pos[r] >= 1
    /\ \/ /\ pos[r] \in Compensable
          /\ undone' = [undone EXCEPT ![r] = @ \cup {pos[r]}]
          /\ UNCHANGED failedUndo
       \/ /\ pos[r] \in Compensable
          /\ undone' \in {undone, [undone EXCEPT ![r] = @ \cup {pos[r]}]}
          /\ failedUndo' = [failedUndo EXCEPT ![r] = @ \cup {pos[r]}]
       \/ /\ pos[r] \notin Compensable
          /\ UNCHANGED <<undone, failedUndo>>
    /\ pos' = [pos EXCEPT ![r] = NextToCompensate(r)]
    /\ UNCHANGED <<record, pc, attempt, expired, applied, executed, result>>

Compensated(r) ==
    /\ pc[r] = "compensate" /\ pos[r] = 0
    /\ Update(r, "compensated")
    /\ Goto(r, "done")
    /\ result' = [result EXCEPT ![r] = "error"]
    /\ UNCHANGED <<pos, attempt, expired, effects, executed>>

Execute(r) ==
    \/ Running(r) \/ CheckContext(r) \/ Action(r) \/ Compensate(r) \/ Compensated(r)

Next == \E r \in Run : SaveExecution(r) \/ Expire(r) \/ Execute(r)

Spec == Init /\ [][Next]_vars

\* A call that has begun runs on: no lock is held across a step, and the steps end with
\* their contexts.
FairSpec == Spec /\ \A r \in Run : WF_vars(Execute(r))

-----------------------------------------------------------------------------
\* The type invariant of the orchestrator.
TypeOK ==
    /\ current \in Run \cup {NoRun}
    /\ state \in [Run -> {"pending", "running", "failed", "completed", "compensated"}]
    /\ pc \in [Run -> {"idle", "saved", "check", "action", "compensate", "done"}]
    /\ pos \in [Run -> 0 .. N + 1] /\ attempt \in [Run -> 0 .. RetryCount]
    /\ expired \in [Run -> BOOLEAN] /\ executed \in [Run -> 0 .. N]
    /\ applied \in [Run -> SUBSET Step]
    /\ undone \in [Run -> SUBSET Step] /\ failedUndo \in [Run -> SUBSET Step]
    /\ result \in [Run -> {"none", "nil", "error"}]

\* A call returns nil only when every step took effect and none was compensated, and only
\* then is its record completed.
CompletedIsWhole ==
    \A r \in Run : result[r] = "nil" \/ state[r] = "completed" =>
        applied[r] = Step /\ undone[r] = {}

\* Only steps that were executed are compensated: never the one that failed, although its
\* action may have taken effect, and never a later one (executedSteps is what compensate
\* goes over).
UndoOnlyExecuted == \A r \in Run : undone[r] \cup failedUndo[r] \subseteq 1 .. executed[r]

\* Compensation runs backwards: a step is compensated when the compensations of all later
\* executed steps have run (compensate's loop).
UndoBackwards ==
    [][\A r \in Run : \A i \in undone'[r] \ undone[r] :
          \A j \in Compensable : i < j /\ j <= executed[r] => j \in undone[r] \cup failedUndo[r]
      ]_vars

\* A compensated record has had every executed step with a compensation undone, or the
\* compensation's error dropped.
CompensatedIsUndone ==
    \A r \in Run : state[r] = "compensated" =>
        (1 .. executed[r]) \cap Compensable \subseteq undone[r] \cup failedUndo[r]

\* Once no call is under way, the record GetExecution shows is settled, whichever call
\* updated it last.
QuietIsSettled ==
    current # NoRun /\ (\A r \in Run : pc[r] \in {"idle", "done"}) =>
        state[current] \in {"completed", "compensated", "failed"}

\* Every call returns.
EventuallyReturns == \A r \in Run : pc[r] = "saved" ~> pc[r] = "done"

-----------------------------------------------------------------------------
\* Execute's error "saga failed and compensation failed" and compensate's comment that the
\* error of a compensation is recorded: no record says compensated after such an error.
FailedUndoIsReported == \A r \in Run : state[r] = "compensated" => failedUndo[r] = {}

\* A saga that fails is compensated: once a call has ended with an error, each executed
\* step that can be compensated has had its compensation run.
FailureIsCompensated ==
    \A r \in Run : result[r] = "error" =>
        (1 .. executed[r]) \cap Compensable \subseteq undone[r] \cup failedUndo[r]
=============================================================================
