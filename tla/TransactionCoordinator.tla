----------------------- MODULE TransactionCoordinator -----------------------
(***************************************************************************)
(* TransactionCoordinator (app/common/tcc/transaction_coordinator.go): one *)
(* transaction kept in etcd, the goroutine StartTransaction starts for it, *)
(* and RetryTransaction calls, each of which reads the record from etcd    *)
(* and starts a goroutine on its own copy.  UpdateTransaction writes the   *)
(* whole copy, and its error is always dropped.                            *)
(***************************************************************************)
EXTENDS Naturals, FiniteSets

CONSTANTS
    N,            \* number of components
    Retrier,      \* RetryTransaction calls
    MaxRetries,   \* accepted retries (3 in the code)
    Accepts,      \* the statuses in which the compensator's CanCompensate holds
    Lossy         \* whether writes to etcd may fail

First == "first"
Exec == {First} \cup Retrier
Component == 1 .. N
Status == {"pending", "trying", "confirming", "confirmed", "failed", "cancelling", "cancelled"}
Terminal == {"confirmed", "failed", "cancelled"}

ASSUME NAssumption == N \in Nat \ {0} /\ MaxRetries \in Nat
ASSUME AcceptsAssumption == Accepts \subseteq Status /\ Lossy \in BOOLEAN
ASSUME RetrierAssumption == First \notin Retrier

\* DefaultCompensator.CanCompensate.
DefaultAccepts == {"trying", "confirming"}

Started == [status |-> "pending", retries |-> 0]
NoTX == [status |-> "none", retries |-> 0]

VARIABLES
    store,       \* the record in etcd
    tx,          \* each execution's copy
    pc, pos,     \* each execution's control point and component
    acked,       \* components whose Try was acknowledged
    confirmed,   \* components whose Confirm took effect
    cancelled,   \* components whose Cancel took effect
    accepted,    \* retries accepted so far
    brokenOff,   \* executions whose confirm phase failed
    compensated  \* executions whose compensation has run

effects == <<acked, confirmed, cancelled>>
ghost == <<accepted, brokenOff, compensated>>
vars == <<store, tx, pc, pos, effects, ghost>>

Init ==
    /\ store = NoTX /\ tx = [e \in Exec |-> NoTX]
    /\ pc = [e \in Exec |-> "idle"] /\ pos = [e \in Exec |-> 1]
    /\ acked = {} /\ confirmed = {} /\ cancelled = {}
    /\ accepted = 0 /\ brokenOff = {} /\ compensated = {}

\* UpdateTransaction of e's copy, after it has become t.
Update(e, t) ==
    /\ tx' = [tx EXCEPT ![e] = t]
    /\ store' = t \/ (Lossy /\ UNCHANGED store)

Goto(e, p) == pc' = [pc EXCEPT ![e] = p] /\ pos' = [pos EXCEPT ![e] = 1]
InStatus(e, s) == [tx[e] EXCEPT !.status = s]

\* An error of SaveTransaction ends the call, with a record in etcd if the Put was applied.
StartTransaction ==
    /\ pc[First] = "idle"
    /\ tx' = [tx EXCEPT ![First] = Started]
    /\ \/ store' = Started /\ Goto(First, "begin")
       \/ Lossy /\ store' \in {Started, store} /\ Goto(First, "done")
    /\ UNCHANGED <<effects, ghost>>

MayRetry(t) == t.retries < MaxRetries

RetryGet(e) ==
    /\ pc[e] = "idle" /\ store # NoTX
    /\ tx' = [tx EXCEPT ![e] = store]
    /\ Goto(e, IF MayRetry(store) THEN "retry" ELSE "done")
    /\ UNCHANGED <<store, effects, ghost>>

\* The status of the transaction is not looked at.
RetryPut(e) ==
    /\ pc[e] = "retry"
    /\ Update(e, [status |-> "pending", retries |-> tx[e].retries + 1])
    /\ accepted' = accepted + 1
    /\ Goto(e, "begin")
    /\ UNCHANGED <<effects, brokenOff, compensated>>

Begin(e) ==
    /\ pc[e] = "begin"
    /\ Update(e, InStatus(e, "trying"))
    /\ Goto(e, "try")
    /\ UNCHANGED <<effects, ghost>>

\* A component that fails, or does not acknowledge, ends the phase.
TryCall(e) ==
    /\ pc[e] = "try" /\ pos[e] <= N
    /\ \/ /\ acked' = acked \cup {pos[e]}
          /\ pos' = [pos EXCEPT ![e] = @ + 1]
          /\ UNCHANGED pc
       \/ /\ Goto(e, "fail")
          /\ UNCHANGED acked
    /\ UNCHANGED <<store, tx, confirmed, cancelled, ghost>>

\* Mutant: the confirm phase starts before the last component was tried.
TriedEarly(e) == pos[e] >= N

Tried(e) == pos[e] > N

Confirming(e) ==
    /\ pc[e] = "try" /\ Tried(e)
    /\ Update(e, InStatus(e, "confirming"))
    /\ Goto(e, "confirm")
    /\ UNCHANGED <<effects, ghost>>

ConfirmCall(e) ==
    /\ pc[e] = "confirm" /\ pos[e] <= N
    /\ \/ /\ confirmed' = confirmed \cup {pos[e]}
          /\ pos' = [pos EXCEPT ![e] = @ + 1]
          /\ UNCHANGED <<pc, brokenOff>>
       \/ /\ confirmed' \in {confirmed, confirmed \cup {pos[e]}}
          /\ Goto(e, "fail")
          /\ brokenOff' = brokenOff \cup {e}
    /\ UNCHANGED <<store, tx, acked, cancelled, accepted, compensated>>

\* Mutant: the transaction is recorded as confirmed before the components confirm.
CompletedEarly(e) ==
    /\ pc[e] = "confirm"
    /\ Update(e, InStatus(e, "confirmed"))
    /\ Goto(e, "done")
    /\ UNCHANGED <<effects, ghost>>

Completed(e) ==
    /\ pc[e] = "confirm" /\ pos[e] > N
    /\ Update(e, InStatus(e, "confirmed"))
    /\ Goto(e, "done")
    /\ UNCHANGED <<effects, ghost>>

\* handleTransactionFailure: the status is set before CanCompensate looks at it.
Failure(e) ==
    /\ pc[e] = "fail"
    /\ Update(e, InStatus(e, "failed"))
    /\ Goto(e, IF tx'[e].status \in Accepts THEN "compensate" ELSE "done")
    /\ UNCHANGED <<effects, ghost>>

\* executeCompensation; errors of Cancel are dropped.
Cancelling(e) ==
    /\ pc[e] = "compensate"
    /\ Update(e, InStatus(e, "cancelling"))
    /\ Goto(e, "cancel")
    /\ UNCHANGED <<effects, ghost>>

CancelCall(e) ==
    /\ pc[e] = "cancel" /\ pos[e] <= N
    /\ cancelled' \in {cancelled, cancelled \cup {pos[e]}}
    /\ pos' = [pos EXCEPT ![e] = @ + 1]
    /\ UNCHANGED <<store, tx, pc, acked, confirmed, ghost>>

Cancelled(e) ==
    /\ pc[e] = "cancel" /\ pos[e] > N
    /\ Update(e, InStatus(e, "cancelled"))
    /\ Goto(e, "done")
    /\ compensated' = compensated \cup {e}
    /\ UNCHANGED <<effects, accepted, brokenOff>>

Execution(e) ==
    \/ Begin(e) \/ TryCall(e) \/ Confirming(e) \/ ConfirmCall(e) \/ Completed(e)
    \/ Failure(e) \/ Cancelling(e) \/ CancelCall(e) \/ Cancelled(e)

Next ==
    \/ StartTransaction
    \/ \E e \in Retrier : RetryGet(e) \/ RetryPut(e)
    \/ \E e \in Exec : Execution(e)

Spec == Init /\ [][Next]_vars

-----------------------------------------------------------------------------
TX == [status : Status \cup {"none"}, retries : 0 .. MaxRetries]

\* The type invariant of the coordinator; in particular no copy of the record ever shows
\* more retries than allowed.
TypeOK ==
    /\ store \in TX /\ tx \in [Exec -> TX]
    /\ pc \in [Exec -> {"idle", "retry", "begin", "try", "confirm", "fail", "compensate",
                        "cancel", "done"}]
    /\ pos \in [Exec -> 1 .. N + 1]
    /\ acked \subseteq Component /\ confirmed \subseteq Component /\ cancelled \subseteq Component
    /\ accepted \in Nat /\ brokenOff \subseteq Exec /\ compensated \subseteq Exec

\* However executions of one transaction overlap and whatever etcd loses, no Confirm takes
\* effect before every component has acknowledged its Try.
ConfirmNeedsAllAcks == confirmed # {} => acked = Component

\* A record that says confirmed is backed by a Confirm of every component, even when
\* copies of several executions overwrite each other in etcd.
ConfirmedIsReal == store.status = "confirmed" => confirmed = Component

-----------------------------------------------------------------------------
\* CanCompensate's comment: a transaction whose Try phase succeeded can be compensated, and
\* handleTransactionFailure does so: once nothing is under way, every execution that broke
\* off in the confirm phase has been compensated.
BreakOffIsCompensated ==
    \A e \in brokenOff : pc[e] = "done" => e \in compensated

\* RetryTransaction refuses with "max retries exceeded": no more retries are accepted.
RetriesBounded == accepted <= MaxRetries
=============================================================================
