--------------------------- MODULE TCCCoordinator ---------------------------
(***************************************************************************)
(* TCCCoordinator (app/common/tcc/tcc.go): one transaction over N          *)
(* components, executed by concurrent ExecuteTransaction calls.  Those     *)
(* that find the same transaction object share it; a BeginTransaction with *)
(* an id that is in use replaces the object, and the components see one    *)
(* transaction.  A call of a component is one step: it succeeds, fails, or *)
(* takes effect although the caller sees an error (a lost answer, the      *)
(* deadline).  The ACK of an answer is never looked at.                    *)
(***************************************************************************)
EXTENDS Naturals, FiniteSets

CONSTANTS
    N,           \* number of components
    Caller,      \* concurrent ExecuteTransaction calls
    MaxRetries,  \* retries of a call (3 in the code)
    Begins       \* bound on the BeginTransaction calls

Component == 1 .. N

\* The transaction objects, in the order of their creation, and none.
Object == 0 .. Begins

VARIABLES
    begun,       \* objects created so far
    listed,      \* the object the coordinator's map holds
    status,      \* Status of every object
    object,      \* per caller: the object it executes
    held,        \* components whose Try took effect
    acked,       \* components whose Try returned without an error
    confirmed,   \* components whose Confirm took effect
    cancelled,   \* components whose Cancel took effect
    pc, pos, attempt, failed,   \* per caller: phase, component, attempt of the call,
                                \* whether a call of the phase failed for good
    successful,  \* per caller: length of successfulComponents
    result       \* what the caller was returned

effects == <<held, acked, confirmed, cancelled>>
place == <<pos, attempt, failed>>
local == <<object, pc, place, successful, result>>
vars == <<begun, listed, status, effects, local>>

Init ==
    /\ begun = 0 /\ listed = 0 /\ status = [o \in Object |-> "none"]
    /\ object = [c \in Caller |-> 0]
    /\ held = {} /\ acked = {} /\ confirmed = {} /\ cancelled = {}
    /\ pc = [c \in Caller |-> "idle"]
    /\ pos = [c \in Caller |-> 1]
    /\ attempt = [c \in Caller |-> 0]
    /\ failed = [c \in Caller |-> FALSE]
    /\ successful = [c \in Caller |-> 0]
    /\ result = [c \in Caller |-> "none"]

BeginTransaction ==
    /\ begun < Begins
    /\ begun' = begun + 1 /\ listed' = begun + 1
    /\ status' = [status EXCEPT ![begun + 1] = "pending"]
    /\ UNCHANGED <<effects, local>>

\* Callers that hold the transaction go on with it.
CleanupTransactions ==
    /\ listed # 0
    /\ listed' = 0
    /\ UNCHANGED <<begun, status, effects, local>>

\* Caller c sets the status of its object.
SetStatus(c, s) == status' = [status EXCEPT ![object[c]] = s]

\* Caller c enters a phase at the first component.
Enter(c, phase) ==
    /\ pc' = [pc EXCEPT ![c] = phase]
    /\ pos' = [pos EXCEPT ![c] = 1]
    /\ attempt' = [attempt EXCEPT ![c] = 0]
    /\ failed' = [failed EXCEPT ![c] = FALSE]

Return(c, r) ==
    /\ pc' = [pc EXCEPT ![c] = "done"]
    /\ result' = [result EXCEPT ![c] = r]
    /\ UNCHANGED <<pos, attempt, failed>>

\* Nothing stops a second execution of the same transaction.
ExecuteTransaction(c) ==
    /\ pc[c] = "idle" /\ begun > 0
    /\ object' = [object EXCEPT ![c] = listed]
    /\ \/ /\ listed # 0
          /\ status' = [status EXCEPT ![listed] = "trying"]
          /\ Enter(c, "try")
          /\ UNCHANGED result
       \/ /\ listed = 0
          /\ Return(c, "error")
          /\ UNCHANGED status
    /\ UNCHANGED <<begun, listed, effects, successful>>

-----------------------------------------------------------------------------
RetriesLeft(c) == attempt[c] < MaxRetries

Retry(c) ==
    /\ RetriesLeft(c)
    /\ attempt' = [attempt EXCEPT ![c] = @ + 1]
    /\ UNCHANGED <<pos, failed>>

Advance(c) ==
    /\ pos' = [pos EXCEPT ![c] = @ + 1]
    /\ attempt' = [attempt EXCEPT ![c] = 0]
    /\ UNCHANGED failed

\* The last attempt failed: the phase goes on with the next component.
GiveUp(c) ==
    /\ ~RetriesLeft(c)
    /\ pos' = [pos EXCEPT ![c] = @ + 1]
    /\ attempt' = [attempt EXCEPT ![c] = 0]
    /\ failed' = [failed EXCEPT ![c] = TRUE]

\* A Try that fails for good ends the phase: the components before it are cancelled.
TryCall(c) ==
    /\ pc[c] = "try" /\ pos[c] <= N
    /\ \/ /\ held' = held \cup {pos[c]} /\ acked' = acked \cup {pos[c]}
          /\ successful' = [successful EXCEPT ![c] = pos[c]]
          /\ Advance(c)
          /\ UNCHANGED pc
       \/ /\ held' \in {held, held \cup {pos[c]}}
          /\ \/ Retry(c) /\ UNCHANGED pc
             \/ ~RetriesLeft(c) /\ Enter(c, "undo")
          /\ UNCHANGED <<acked, successful>>
    /\ UNCHANGED <<begun, listed, object, status, confirmed, cancelled, result>>

\* cancelComponent.
CancelComponent(c) ==
    \/ /\ cancelled' = cancelled \cup {pos[c]}
       /\ Advance(c)
    \/ /\ cancelled' \in {cancelled, cancelled \cup {pos[c]}}
       /\ Retry(c) \/ GiveUp(c)

\* The components that had succeeded are cancelled; errors are dropped.
UndoCall(c) ==
    /\ pc[c] = "undo" /\ pos[c] <= successful[c]
    /\ CancelComponent(c)
    /\ UNCHANGED <<begun, listed, object, status, held, acked, confirmed, pc, successful, result>>

TryFailed(c) ==
    /\ pc[c] = "undo" /\ pos[c] > successful[c]
    /\ SetStatus(c, "failed")
    /\ pc' = [pc EXCEPT ![c] = "tryFailed"]
    /\ UNCHANGED <<begun, listed, object, effects, pos, attempt, failed, successful, result>>

StartCancel(c) ==
    /\ pc[c] = "tryFailed"
    /\ SetStatus(c, "cancelled")
    /\ Enter(c, "cancel")
    /\ UNCHANGED <<begun, listed, object, effects, successful, result>>

\* Every component is cancelled, those that failed and those cancelled before included.
CancelCall(c) ==
    /\ pc[c] = "cancel" /\ pos[c] <= N
    /\ CancelComponent(c)
    /\ UNCHANGED <<begun, listed, object, status, held, acked, confirmed, pc, successful, result>>

\* Mutant: the cancel phase is repeated until it succeeds.
EndCancelRepeats(c) ==
    /\ pc[c] = "cancel" /\ pos[c] > N
    /\ \/ failed[c] /\ Enter(c, "cancel") /\ UNCHANGED result
       \/ ~failed[c] /\ Return(c, "error")
    /\ UNCHANGED <<begun, listed, object, status, effects, successful>>

EndCancel(c) ==
    /\ pc[c] = "cancel" /\ pos[c] > N
    /\ IF failed[c] THEN SetStatus(c, "failed") ELSE UNCHANGED status
    /\ Return(c, "error")
    /\ UNCHANGED <<begun, listed, object, effects, successful>>

\* Mutant: the confirm phase starts as soon as one Try has succeeded.
TriedEarly(c) == pos[c] > 1

Tried(c) == pos[c] > N

StartConfirm(c) ==
    /\ pc[c] = "try" /\ Tried(c)
    /\ SetStatus(c, "confirmed")
    /\ Enter(c, "confirm")
    /\ UNCHANGED <<begun, listed, object, effects, successful, result>>

ConfirmCall(c) ==
    /\ pc[c] = "confirm" /\ pos[c] <= N
    /\ \/ /\ confirmed' = confirmed \cup {pos[c]}
          /\ Advance(c)
       \/ /\ confirmed' \in {confirmed, confirmed \cup {pos[c]}}
          /\ Retry(c) \/ GiveUp(c)
    /\ UNCHANGED <<begun, listed, object, status, held, acked, cancelled, pc, successful, result>>

EndConfirm(c) ==
    /\ pc[c] = "confirm" /\ pos[c] > N
    /\ IF failed[c] THEN SetStatus(c, "failed") ELSE UNCHANGED status
    /\ Return(c, IF failed[c] THEN "error" ELSE "nil")
    /\ UNCHANGED <<begun, listed, object, effects, successful>>

Execution(c) ==
    \/ TryCall(c) \/ UndoCall(c) \/ TryFailed(c)
    \/ StartCancel(c) \/ CancelCall(c) \/ EndCancel(c)
    \/ StartConfirm(c) \/ ConfirmCall(c) \/ EndConfirm(c)

Next ==
    \/ BeginTransaction \/ CleanupTransactions
    \/ \E c \in Caller : ExecuteTransaction(c) \/ Execution(c)

Spec == Init /\ [][Next]_vars

\* A call that has begun runs on: it holds no lock across a component call, and every
\* component call ends with its context.
FairSpec == Spec /\ \A c \in Caller : WF_vars(Execution(c))

-----------------------------------------------------------------------------
\* The type invariant of the coordinator.
TypeOK ==
    /\ begun \in Object /\ listed \in 0 .. begun /\ object \in [Caller -> 0 .. begun]
    /\ status \in [Object -> {"none", "pending", "trying", "confirmed", "cancelled", "failed"}]
    /\ held \subseteq Component /\ acked \subseteq Component
    /\ confirmed \subseteq Component /\ cancelled \subseteq Component
    /\ pc \in [Caller -> {"idle", "try", "undo", "tryFailed", "cancel", "confirm", "done"}]
    /\ pos \in [Caller -> 1 .. N + 1] /\ successful \in [Caller -> 0 .. N]
    /\ attempt \in [Caller -> 0 .. MaxRetries]
    /\ failed \in [Caller -> BOOLEAN]
    /\ result \in [Caller -> {"none", "nil", "error"}]

\* No Confirm takes effect before every Try has returned without an error, whatever the
\* number of callers (executeTryPhase before executeConfirmPhase).
ConfirmNeedsAllTries == confirmed # {} => acked = Component

\* A call that returned nil has had every component confirmed.
NilMeansConfirmed ==
    \A c \in Caller : result[c] = "nil" => confirmed = Component

\* A transaction that was executed once and ended cancelled has released every
\* reservation, those of components whose Try reported an error included
\* (executeCancelPhase goes over all components).
CancelledIsReleased ==
    \A c \in Caller :
        pc[c] = "done" /\ (\A d \in Caller \ {c} : pc[d] = "idle")
            /\ status[object[c]] = "cancelled"
            => held \subseteq cancelled

\* Every execution returns.
EventuallyReturns == \A c \in Caller : (pc[c] # "idle") ~> (pc[c] = "done")

-----------------------------------------------------------------------------
\* README.md of the package: a transaction is atomic.  No transaction is both confirmed
\* and cancelled.
AllOrNothing == confirmed = {} \/ cancelled = {}

\* executeTryPhase's comment: the components that had succeeded are cancelled.  No other is.
CancelOnlyTried == cancelled \subseteq acked
=============================================================================
