-------------------------- MODULE CoordinatorProofs --------------------------
(***************************************************************************)
(* Proofs about TransactionCoordinator, TCCCoordinator and the saga        *)
(* orchestrator, for any number of components, steps, overlapping          *)
(* executions and retries: what MCCoordinators checks on a small instance. *)
(***************************************************************************)
EXTENDS MCCoordinators, TLAPS

-----------------------------------------------------------------------------
(***************************************************************************)
(* TransactionCoordinator.  Any copy of the record may be written back at  *)
(* any time, so every copy is tied to the components as the record is.     *)
(***************************************************************************)
\* What ties the record to the components.  An execution in its try phase has the
\* acknowledgements of the components before pos, one in its confirm phase those of all
\* components and the Confirms before pos; a copy that says confirmed, which may be
\* written to etcd or read from it at any time, is backed like the record itself.
BackedInv ==
    /\ \A e \in Exec : pc[e] = "try" => \A i \in Component : i < pos[e] => i \in acked
    /\ \A e \in Exec : pc[e] = "confirm" =>
          acked = Component /\ \A i \in Component : i < pos[e] => i \in confirmed
    /\ ConfirmNeedsAllAcks
    /\ ConfirmedIsReal
    /\ \A e \in Exec : tx[e].status = "confirmed" => confirmed = Component

\* A retry that was admitted keeps its copy's count below the limit until it is written.
RetryInv == \A e \in Exec : pc[e] = "retry" => tx[e].retries < MaxRetries

-----------------------------------------------------------------------------
\* The coordinator starts well typed.
LEMMA EtcdInitTyping == Init => TypeOK /\ RetryInv
BY NAssumption DEF Init, TypeOK, RetryInv, TX, NoTX, Component, Status

\* Every step keeps the types and the bound on the retries of every copy.
LEMMA EtcdNextTyping == TypeOK /\ RetryInv /\ [Next]_vars => TypeOK' /\ RetryInv'
<1> SUFFICES ASSUME TypeOK, RetryInv, [Next]_vars PROVE TypeOK' /\ RetryInv'
  OBVIOUS
<1> USE NAssumption, RetrierAssumption
<1>1. ASSUME StartTransaction PROVE TypeOK' /\ RetryInv'
  <2>1. First \in Exec /\ Started \in TX /\ 1 \in 1 .. N + 1
    BY DEF Exec, Started, TX, Status
  <2>2. store' \in TX /\ tx' \in [Exec -> TX] /\ UNCHANGED <<effects, ghost>>
    BY <1>1, <2>1 DEF StartTransaction, TypeOK
  <2>3. \E p \in {"begin", "done"} : Goto(First, p)
    BY <1>1 DEF StartTransaction
  <2>4. tx' = [tx EXCEPT ![First] = Started] /\ First \notin Retrier
    BY <1>1 DEF StartTransaction
  <2> QED
    BY <2>1, <2>2, <2>3, <2>4 DEF Goto, TypeOK, RetryInv, effects, ghost
<1>2. ASSUME NEW e \in Retrier, RetryGet(e) PROVE TypeOK' /\ RetryInv'
  BY <1>2 DEF RetryGet, MayRetry, Goto, TypeOK, RetryInv, TX, Exec, effects, ghost
<1>3. ASSUME NEW e \in Retrier, RetryPut(e) PROVE TypeOK' /\ RetryInv'
  <2>1. e \in Exec
    BY DEF Exec
  <2>2. [status |-> "pending", retries |-> tx[e].retries + 1] \in TX
    BY <1>3, <2>1 DEF RetryPut, TypeOK, RetryInv, TX, Status
  <2> QED
    BY <1>3, <2>1, <2>2 DEF RetryPut, Update, Goto, TypeOK, RetryInv, effects
<1>4. ASSUME NEW e \in Exec, NEW s \in Status PROVE InStatus(e, s) \in TX
  BY DEF InStatus, TypeOK, TX
<1>5. ASSUME NEW e \in Exec, Begin(e) PROVE TypeOK' /\ RetryInv'
  <2>1. InStatus(e, "trying") \in TX
    BY <1>4 DEF Status
  <2> QED
    BY <1>5, <2>1 DEF Begin, Update, Goto, TypeOK, RetryInv, effects, ghost
<1>6. ASSUME NEW e \in Exec, TryCall(e) PROVE TypeOK' /\ RetryInv'
  <2>1. pos[e] \in Component /\ pos[e] + 1 \in 1 .. N + 1 /\ 1 \in 1 .. N + 1
    BY <1>6 DEF TryCall, TypeOK, Component
  <2>2. pos' \in [Exec -> 1 .. N + 1] /\ acked' \subseteq Component
    BY <1>6, <2>1 DEF TryCall, Goto, TypeOK
  <2> QED
    BY <1>6, <2>2 DEF TryCall, Goto, TypeOK, RetryInv, ghost
<1>7. ASSUME NEW e \in Exec, Confirming(e) PROVE TypeOK' /\ RetryInv'
  <2>1. InStatus(e, "confirming") \in TX
    BY <1>4 DEF Status
  <2> QED
    BY <1>7, <2>1 DEF Confirming, Update, Goto, TypeOK, RetryInv, effects, ghost
<1>8. ASSUME NEW e \in Exec, ConfirmCall(e) PROVE TypeOK' /\ RetryInv'
  <2>1. pos[e] \in Component /\ pos[e] + 1 \in 1 .. N + 1 /\ 1 \in 1 .. N + 1
    BY <1>8 DEF ConfirmCall, TypeOK, Component
  <2>2. pos' \in [Exec -> 1 .. N + 1] /\ confirmed' \subseteq Component
    BY <1>8, <2>1 DEF ConfirmCall, Goto, TypeOK
  <2> QED
    BY <1>8, <2>2 DEF ConfirmCall, Goto, TypeOK, RetryInv
<1>9. ASSUME NEW e \in Exec, Completed(e) PROVE TypeOK' /\ RetryInv'
  <2>1. InStatus(e, "confirmed") \in TX
    BY <1>4 DEF Status
  <2> QED
    BY <1>9, <2>1 DEF Completed, Update, Goto, TypeOK, RetryInv, effects, ghost
<1>10. ASSUME NEW e \in Exec, Failure(e) PROVE TypeOK' /\ RetryInv'
  <2>1. InStatus(e, "failed") \in TX
    BY <1>4 DEF Status
  <2> QED
    BY <1>10, <2>1 DEF Failure, Update, Goto, TypeOK, RetryInv, effects, ghost
<1>11. ASSUME NEW e \in Exec, Cancelling(e) PROVE TypeOK' /\ RetryInv'
  <2>1. InStatus(e, "cancelling") \in TX
    BY <1>4 DEF Status
  <2> QED
    BY <1>11, <2>1 DEF Cancelling, Update, Goto, TypeOK, RetryInv, effects, ghost
<1>12. ASSUME NEW e \in Exec, CancelCall(e) PROVE TypeOK' /\ RetryInv'
  BY <1>12 DEF CancelCall, TypeOK, RetryInv, Component, ghost
<1>13. ASSUME NEW e \in Exec, Cancelled(e) PROVE TypeOK' /\ RetryInv'
  <2>1. InStatus(e, "cancelled") \in TX
    BY <1>4 DEF Status
  <2> QED
    BY <1>13, <2>1 DEF Cancelled, Update, Goto, TypeOK, RetryInv, effects
<1>14. CASE UNCHANGED vars
  BY <1>14 DEF vars, effects, ghost, TypeOK, RetryInv
<1> QED
  BY <1>1, <1>2, <1>3, <1>5, <1>6, <1>7, <1>8, <1>9, <1>10, <1>11, <1>12, <1>13, <1>14
     DEF Next, Execution

\* The state of the coordinator is well typed in every reachable state.
THEOREM EtcdTyping == Spec => []TypeOK
<1>1. Spec => [](TypeOK /\ RetryInv)
  BY EtcdInitTyping, EtcdNextTyping, PTL DEF Spec
<1> QED
  BY <1>1, PTL

-----------------------------------------------------------------------------
\* Nothing is confirmed at the start.
LEMMA EtcdInitBacked == Init => BackedInv
BY DEF Init, BackedInv, ConfirmNeedsAllAcks, ConfirmedIsReal, NoTX

\* Every step keeps confirmed records backed.
LEMMA EtcdNextBacked == TypeOK /\ BackedInv /\ [Next]_vars => BackedInv'
<1> SUFFICES ASSUME TypeOK, BackedInv, [Next]_vars PROVE BackedInv'
  OBVIOUS
<1> USE NAssumption, RetrierAssumption DEF BackedInv, ConfirmNeedsAllAcks, ConfirmedIsReal
<1>1. ASSUME StartTransaction PROVE BackedInv'
  BY <1>1 DEF StartTransaction, Started, Goto, TypeOK, Exec, First, effects, ghost
<1>2. ASSUME NEW e \in Retrier, RetryGet(e) PROVE BackedInv'
  BY <1>2 DEF RetryGet, Goto, TypeOK, Exec, effects, ghost
<1>3. ASSUME NEW e \in Retrier, RetryPut(e) PROVE BackedInv'
  BY <1>3 DEF RetryPut, Update, Goto, TypeOK, Exec, effects
<1>4. ASSUME NEW e \in Exec, NEW s \in Status PROVE InStatus(e, s).status = s
  BY DEF InStatus, TypeOK, TX
<1>5. ASSUME NEW e \in Exec, Begin(e) PROVE BackedInv'
  <2>1. InStatus(e, "trying").status = "trying"
    BY <1>4 DEF Status
  <2> QED
    BY <1>5, <2>1 DEF Begin, Update, Goto, TypeOK, Component, effects, ghost
<1>6. ASSUME NEW e \in Exec, TryCall(e) PROVE BackedInv'
  <2>1. pos[e] \in Component /\ \A f \in Exec : pos[f] \in Nat
    BY <1>6 DEF TryCall, TypeOK, Component
  <2>2. acked \subseteq acked' /\ acked' \subseteq Component
    BY <1>6, <2>1 DEF TryCall, TypeOK
  <2>3. ASSUME NEW f \in Exec, pc'[f] = "try", NEW i \in Component, i < pos'[f]
        PROVE  i \in acked'
    <3>1. CASE f = e
      <4>1. acked' = acked \cup {pos[e]} /\ pos'[e] = pos[e] + 1 /\ pc[e] = "try"
        BY <1>6, <2>3, <3>1 DEF TryCall, Goto, TypeOK
      <4>2. i < pos[e] \/ i = pos[e]
        BY <2>1, <2>3, <3>1, <4>1 DEF Component
      <4> QED
        BY <3>1, <4>1, <4>2
    <3>2. CASE f # e
      BY <1>6, <2>2, <2>3, <3>2 DEF TryCall, Goto, TypeOK
    <3> QED
      BY <3>1, <3>2
  <2>4. \A f \in Exec : pc'[f] = "confirm" => pc[f] = "confirm" /\ pos'[f] = pos[f]
    BY <1>6 DEF TryCall, Goto, TypeOK
  <2>5. UNCHANGED <<store, tx, confirmed>>
    BY <1>6 DEF TryCall
  <2> QED
    BY <2>2, <2>3, <2>4, <2>5
<1>7. ASSUME NEW e \in Exec, Confirming(e) PROVE BackedInv'
  <2>1. InStatus(e, "confirming").status = "confirming"
    BY <1>4 DEF Status
  <2>2. acked = Component
    <3>1. \A i \in Component : i < pos[e]
      BY <1>7 DEF Confirming, Tried, TypeOK, Component
    <3> QED
      BY <1>7, <3>1 DEF Confirming, TypeOK
  <2>3. /\ \A f \in Exec : f # e => pc'[f] = pc[f] /\ pos'[f] = pos[f] /\ tx'[f] = tx[f]
        /\ pc'[e] = "confirm" /\ pos'[e] = 1 /\ tx'[e].status = "confirming"
        /\ UNCHANGED <<acked, confirmed>>
        /\ store'.status = "confirmed" => store' = store
    BY <1>7, <2>1 DEF Confirming, Update, Goto, TypeOK, effects
  <2>4. \A i \in Component : ~(i < 1)
    BY DEF Component
  <2> QED
    BY <2>2, <2>3, <2>4
<1>8. ASSUME NEW e \in Exec, ConfirmCall(e) PROVE BackedInv'
  <2>1. pos[e] \in Component /\ \A f \in Exec : pos[f] \in Nat
    BY <1>8 DEF ConfirmCall, TypeOK, Component
  <2>2. /\ acked = Component /\ UNCHANGED <<acked, store, tx>>
        /\ confirmed \subseteq confirmed' /\ confirmed' \subseteq Component
    BY <1>8, <2>1 DEF ConfirmCall, TypeOK
  <2>3. ASSUME NEW f \in Exec, pc'[f] = "confirm", NEW i \in Component, i < pos'[f]
        PROVE  i \in confirmed'
    <3>1. CASE f = e
      <4>1. confirmed' = confirmed \cup {pos[e]} /\ pos'[e] = pos[e] + 1 /\ pc[e] = "confirm"
        BY <1>8, <2>3, <3>1 DEF ConfirmCall, Goto, TypeOK
      <4>2. i < pos[e] \/ i = pos[e]
        BY <2>1, <2>3, <3>1, <4>1 DEF Component
      <4> QED
        BY <3>1, <4>1, <4>2
    <3>2. CASE f # e
      BY <1>8, <2>2, <2>3, <3>2 DEF ConfirmCall, Goto, TypeOK
    <3> QED
      BY <3>1, <3>2
  <2>4. \A f \in Exec : pc'[f] = "try" => pc[f] = "try" /\ pos'[f] = pos[f]
    BY <1>8 DEF ConfirmCall, Goto, TypeOK
  <2> QED
    BY <2>2, <2>3, <2>4
<1>9. ASSUME NEW e \in Exec, Completed(e) PROVE BackedInv'
  <2>1. confirmed = Component
    <3>1. \A i \in Component : i < pos[e]
      BY <1>9 DEF Completed, TypeOK, Component
    <3> QED
      BY <1>9, <3>1 DEF Completed, TypeOK
  <2> QED
    BY <1>9, <2>1 DEF Completed, Update, Goto, TypeOK, effects, ghost
<1>10. ASSUME NEW e \in Exec, Failure(e) PROVE BackedInv'
  <2>1. InStatus(e, "failed").status = "failed"
    BY <1>4 DEF Status
  <2> QED
    BY <1>10, <2>1 DEF Failure, Update, Goto, TypeOK, effects, ghost
<1>11. ASSUME NEW e \in Exec, Cancelling(e) PROVE BackedInv'
  <2>1. InStatus(e, "cancelling").status = "cancelling"
    BY <1>4 DEF Status
  <2> QED
    BY <1>11, <2>1 DEF Cancelling, Update, Goto, TypeOK, effects, ghost
<1>12. ASSUME NEW e \in Exec, CancelCall(e) PROVE BackedInv'
  BY <1>12 DEF CancelCall, TypeOK, ghost
<1>13. ASSUME NEW e \in Exec, Cancelled(e) PROVE BackedInv'
  <2>1. InStatus(e, "cancelled").status = "cancelled"
    BY <1>4 DEF Status
  <2> QED
    BY <1>13, <2>1 DEF Cancelled, Update, Goto, TypeOK, effects
<1>14. CASE UNCHANGED vars
  BY <1>14 DEF vars, effects, ghost
<1> QED
  BY <1>1, <1>2, <1>3, <1>5, <1>6, <1>7, <1>8, <1>9, <1>10, <1>11, <1>12, <1>13, <1>14
     DEF Next, Execution

\* The strengthening is an invariant of the coordinator.
THEOREM BackedInvHolds == Spec => []BackedInv
BY EtcdTyping, EtcdInitBacked, EtcdNextBacked, PTL DEF Spec

\* No Confirm takes effect before every Try was acknowledged.
THEOREM EtcdConfirmSafety == Spec => []ConfirmNeedsAllAcks
<1>1. BackedInv => ConfirmNeedsAllAcks
  BY DEF BackedInv
<1> QED
  BY <1>1, BackedInvHolds, PTL

\* A record that says confirmed is backed by a Confirm of every component.
THEOREM EtcdRecordSafety == Spec => []ConfirmedIsReal
<1>1. BackedInv => ConfirmedIsReal
  BY DEF BackedInv
<1> QED
  BY <1>1, BackedInvHolds, PTL

-----------------------------------------------------------------------------
(* The two coordinators that share SpecPart with it. *)

AnyNext == EtcdNext \/ TCCNext \/ SagaNext

\* A step of the composition is one of the coordinator or leaves its variables alone.
LEMMA TCCPart == [AnyNext]_allVars => TCC!Next \/ UNCHANGED tccVars
  BY DEF AnyNext, EtcdNext, TCCNext, SagaNext, allVars

LEMMA SagaPart == [AnyNext]_allVars => Saga!Next \/ UNCHANGED sagaVars
  BY DEF AnyNext, EtcdNext, TCCNext, SagaNext, allVars

-----------------------------------------------------------------------------
(***************************************************************************)
(* TCCCoordinator.  What a caller has done so far is the prefix of the     *)
(* components before its position; status can be trusted only while one    *)
(* caller alone has begun.                                                 *)
(***************************************************************************)
\* The tries before a caller's position are acknowledged, a confirm phase begins with all,
\* and a phase in which nothing failed has dealt with every component before its position.
Knows(c) ==
    /\ tccPc[c] = "try" => 1 .. tccPos[c] - 1 \subseteq tccAcked
    /\ tccPc[c] = "confirm" => tccAcked = 1 .. N
    /\ tccPc[c] = "confirm" /\ ~failed[c] => 1 .. tccPos[c] - 1 \subseteq tccConfirmed
    /\ tccPc[c] = "cancel" /\ ~failed[c] => 1 .. tccPos[c] - 1 \subseteq tccCancelled
    /\ result[c] = "nil" => tccConfirmed = 1 .. N

Alone(c) == \A d \in Caller \ {c} : tccPc[d] = "idle"

StatusOf(phase) ==
    CASE phase \in {"try", "undo"} -> {"trying"}
      [] phase = "tryFailed" -> {"failed"}
      [] phase = "cancel" -> {"cancelled"}
      [] phase = "confirm" -> {"confirmed"}
      [] OTHER -> {"none", "confirmed", "failed", "cancelled"}

\* The object a caller executes is not replaced under it: only the caller writes to it.
AloneInv ==
    \A c \in Caller : Alone(c) /\ tccPc[c] # "idle" =>
        /\ tccStatus[object[c]] \in StatusOf(tccPc[c])
        /\ tccPc[c] = "done" /\ tccStatus[object[c]] = "cancelled" =>
              1 .. N \subseteq tccCancelled

\* A caller that executes something has an object.
ObjectInv ==
    /\ tccStatus[0] = "none"
    /\ \A c \in Caller : tccPc[c] \notin {"idle", "done"} => object[c] # 0

TCCInv ==
    /\ TCC!TypeOK /\ (\A c \in Caller : Knows(c)) /\ AloneInv /\ ObjectInv
    /\ TCC!ConfirmNeedsAllTries

TCCPhase == {"idle", "try", "undo", "tryFailed", "cancel", "confirm", "done"}

\* The place of a caller within its phase.
PlaceOK ==
    /\ tccPos \in [Caller -> 1 .. N + 1] /\ attempt \in [Caller -> 0 .. MaxRetries]
    /\ failed \in [Caller -> BOOLEAN]

\* How a caller moves within a phase and between phases.
LEMMA MovesTyped ==
  ASSUME TCC!TypeOK, NEW c \in Caller, tccPos[c] <= N,
         TCC!Advance(c) \/ TCC!Retry(c) \/ TCC!GiveUp(c)
  PROVE  PlaceOK'
  <1>1. /\ tccPos \in [Caller -> 1 .. N + 1] /\ attempt \in [Caller -> 0 .. MaxRetries]
        /\ failed \in [Caller -> BOOLEAN] /\ N \in Nat /\ MaxRetries \in Nat
    BY NAssumption DEF TCC!TypeOK
  <1>2. tccPos' \in [Caller -> 1 .. N + 1]
    BY <1>1 DEF TCC!Advance, TCC!Retry, TCC!GiveUp
  <1>3. attempt' \in [Caller -> 0 .. MaxRetries]
    BY <1>1 DEF TCC!Advance, TCC!Retry, TCC!GiveUp, TCC!RetriesLeft
  <1>4. failed' \in [Caller -> BOOLEAN]
    BY <1>1 DEF TCC!Advance, TCC!Retry, TCC!GiveUp
  <1> QED
    BY <1>2, <1>3, <1>4 DEF PlaceOK

LEMMA EntersTyped ==
  ASSUME TCC!TypeOK, NEW c \in Caller, NEW x \in TCCPhase, TCC!Enter(c, x)
  PROVE  PlaceOK' /\ tccPc' \in [Caller -> TCCPhase]
  BY NAssumption DEF TCC!TypeOK, TCC!Enter, PlaceOK, TCCPhase

LEMMA ReturnsTyped ==
  ASSUME TCC!TypeOK, NEW c \in Caller, NEW x \in {"nil", "error"}, TCC!Return(c, x)
  PROVE  PlaceOK' /\ tccPc' \in [Caller -> TCCPhase] /\ result' \in [Caller -> {"none", "nil", "error"}]
  BY NAssumption DEF TCC!TypeOK, TCC!Return, PlaceOK, TCCPhase

LEMMA TCCTypeStep ==
  ASSUME TCC!TypeOK, TCC!Next \/ UNCHANGED tccVars PROVE TCC!TypeOK'
  <1> USE NAssumption, SagaAssumption DEF TCC!TypeOK, TCC!Object, TCC!Component, TCC!effects, TCC!local, TCC!place,
         TCC!SetStatus, PlaceOK, TCCPhase
  <1>1. CASE UNCHANGED tccVars
    BY <1>1 DEF tccVars
  <1>2. CASE TCC!BeginTransaction
    <2>1. /\ begun' \in 0 .. Begins /\ listed' \in 0 .. begun'
          /\ 0 .. begun \subseteq 0 .. begun' /\ UNCHANGED object
      BY <1>2 DEF TCC!BeginTransaction
    <2>2. object' \in [Caller -> 0 .. begun']
      BY <2>1
    <2>3. tccStatus' \in [0 .. Begins -> {"none", "pending", "trying", "confirmed", "cancelled", "failed"}]
      BY <1>2 DEF TCC!BeginTransaction
    <2> QED
      BY <1>2, <2>1, <2>2, <2>3 DEF TCC!BeginTransaction
  <1>12. CASE TCC!CleanupTransactions
    BY <1>12 DEF TCC!CleanupTransactions
  <1>3. ASSUME NEW c \in Caller, TCC!ExecuteTransaction(c) PROVE TCC!TypeOK'
    <2>1. CASE listed # 0 /\ TCC!Enter(c, "try")
      BY <1>3, <2>1, EntersTyped DEF TCC!ExecuteTransaction
    <2>2. CASE listed = 0 /\ TCC!Return(c, "error")
      BY <1>3, <2>2, ReturnsTyped DEF TCC!ExecuteTransaction
    <2> QED
      BY <1>3, <2>1, <2>2 DEF TCC!ExecuteTransaction
  <1>4. ASSUME NEW c \in Caller, TCC!TryCall(c) PROVE TCC!TypeOK'
    <2>1. tccPos[c] \in 1 .. N
      BY <1>4 DEF TCC!TryCall
    <2>2. held' \subseteq 1 .. N /\ tccAcked' \subseteq 1 .. N
      BY <1>4, <2>1 DEF TCC!TryCall
    <2>3. successful' \in [Caller -> 0 .. N]
      <3>1. successful' \in {successful, [successful EXCEPT ![c] = tccPos[c]]} /\ tccPos[c] \in 0 .. N
        BY <1>4, <2>1 DEF TCC!TryCall
      <3> QED
        BY <3>1
    <2>4. PlaceOK' /\ tccPc' \in [Caller -> TCCPhase]
      <3>1. CASE (TCC!Advance(c) \/ TCC!Retry(c)) /\ UNCHANGED tccPc
        BY <2>1, <3>1, MovesTyped
      <3>2. CASE TCC!Enter(c, "undo")
        BY <3>2, EntersTyped
      <3> QED
        BY <1>4, <3>1, <3>2 DEF TCC!TryCall
    <2>5. UNCHANGED <<begun, listed, object, tccStatus, tccConfirmed, tccCancelled, result>>
      BY <1>4 DEF TCC!TryCall
    <2> QED
      BY <2>2, <2>3, <2>4, <2>5
  <1>5. ASSUME NEW c \in Caller, TCC!UndoCall(c) \/ TCC!CancelCall(c) PROVE TCC!TypeOK'
    <2>1. tccPos[c] \in 1 .. N /\ TCC!CancelComponent(c)
      BY <1>5 DEF TCC!UndoCall, TCC!CancelCall
    <2>2. tccCancelled' \subseteq 1 .. N
      BY <2>1 DEF TCC!CancelComponent
    <2>3. PlaceOK'
      <3>1. TCC!Advance(c) \/ TCC!Retry(c) \/ TCC!GiveUp(c)
        BY <2>1 DEF TCC!CancelComponent
      <3>2. tccPos[c] <= N
        BY <2>1
      <3> QED
        BY <3>1, <3>2, MovesTyped
    <2>4. UNCHANGED <<begun, listed, object, tccStatus, held, tccAcked, tccConfirmed, tccPc, successful, result>>
      BY <1>5 DEF TCC!UndoCall, TCC!CancelCall
    <2> QED
      BY <2>2, <2>3, <2>4
  <1>6. ASSUME NEW c \in Caller, TCC!TryFailed(c) PROVE TCC!TypeOK'
    BY <1>6 DEF TCC!TryFailed
  <1>7. ASSUME NEW c \in Caller, TCC!StartCancel(c) PROVE TCC!TypeOK'
    BY <1>7, EntersTyped DEF TCC!StartCancel
  <1>8. ASSUME NEW c \in Caller, TCC!EndCancel(c) PROVE TCC!TypeOK'
    BY <1>8, ReturnsTyped DEF TCC!EndCancel
  <1>9. ASSUME NEW c \in Caller, TCC!StartConfirm(c) PROVE TCC!TypeOK'
    BY <1>9, EntersTyped DEF TCC!StartConfirm
  <1>10. ASSUME NEW c \in Caller, TCC!ConfirmCall(c) PROVE TCC!TypeOK'
    <2>1. tccPos[c] \in 1 .. N
      BY <1>10 DEF TCC!ConfirmCall
    <2>2. tccConfirmed' \subseteq 1 .. N /\ PlaceOK'
      BY <1>10, <2>1, MovesTyped DEF TCC!ConfirmCall
    <2>3. UNCHANGED <<begun, listed, object, tccStatus, held, tccAcked, tccCancelled, tccPc, successful, result>>
      BY <1>10 DEF TCC!ConfirmCall
    <2> QED
      BY <2>2, <2>3
  <1>11. ASSUME NEW c \in Caller, TCC!EndConfirm(c) PROVE TCC!TypeOK'
    BY <1>11, ReturnsTyped DEF TCC!EndConfirm
  <1> QED
    BY <1>1, <1>2, <1>3, <1>4, <1>5, <1>6, <1>7, <1>8, <1>9, <1>10, <1>11,
       <1>12 DEF TCC!Next, TCC!Execution

\* Effects are never undone, and a caller that has begun stays begun.
LEMMA TCCMonotone ==
  ASSUME TCC!TypeOK, TCC!Next \/ UNCHANGED tccVars
  PROVE  /\ tccAcked \subseteq tccAcked' /\ tccConfirmed \subseteq tccConfirmed'
         /\ tccCancelled \subseteq tccCancelled'
         /\ \A c \in Caller : tccPc'[c] = "idle" => tccPc[c] = "idle"
  <1> USE DEF TCC!effects, TCC!local, TCC!place
  <1>1. CASE UNCHANGED tccVars
    BY <1>1 DEF tccVars
  <1>2. CASE TCC!BeginTransaction \/ TCC!CleanupTransactions
    BY <1>2 DEF TCC!BeginTransaction, TCC!CleanupTransactions
  <1>3. ASSUME NEW c \in Caller, TCC!ExecuteTransaction(c) \/ TCC!Execution(c)
        PROVE  /\ tccAcked \subseteq tccAcked' /\ tccConfirmed \subseteq tccConfirmed'
               /\ tccCancelled \subseteq tccCancelled'
    BY <1>3 DEF TCC!ExecuteTransaction, TCC!Execution, TCC!TryCall, TCC!UndoCall, TCC!TryFailed,
       TCC!StartCancel, TCC!CancelCall, TCC!CancelComponent, TCC!EndCancel, TCC!StartConfirm,
       TCC!ConfirmCall, TCC!EndConfirm
  <1>4. ASSUME NEW c \in Caller, TCC!ExecuteTransaction(c) \/ TCC!Execution(c)
        PROVE  \A d \in Caller : tccPc'[d] = "idle" => tccPc[d] = "idle"
    BY <1>4 DEF TCC!TypeOK, TCC!ExecuteTransaction, TCC!Execution, TCC!TryCall, TCC!UndoCall,
       TCC!TryFailed, TCC!StartCancel, TCC!CancelCall, TCC!EndCancel, TCC!StartConfirm,
       TCC!ConfirmCall, TCC!EndConfirm, TCC!Enter, TCC!Return
  <1> QED
    BY <1>1, <1>2, <1>3, <1>4 DEF TCC!Next

\* A caller's step leaves the other callers where they are, and the caller has begun.
LEMMA OthersRest ==
  ASSUME TCC!TypeOK, NEW c \in Caller, TCC!ExecuteTransaction(c) \/ TCC!Execution(c)
  PROVE  /\ tccPc'[c] # "idle"
         /\ \A d \in Caller \ {c} :
               /\ tccPc'[d] = tccPc[d] /\ tccPos'[d] = tccPos[d]
               /\ failed'[d] = failed[d] /\ result'[d] = result[d]
               /\ object'[d] = object[d]
  <1> USE DEF TCC!TypeOK, TCC!Enter, TCC!Return, TCC!Advance, TCC!Retry, TCC!GiveUp,
          TCC!CancelComponent
  <1>1. CASE TCC!ExecuteTransaction(c)
    BY <1>1 DEF TCC!ExecuteTransaction
  <1>2. CASE TCC!TryCall(c)
    BY <1>2 DEF TCC!TryCall
  <1>3. CASE TCC!UndoCall(c)
    BY <1>3 DEF TCC!UndoCall
  <1>4. CASE TCC!TryFailed(c) \/ TCC!StartCancel(c)
    BY <1>4 DEF TCC!TryFailed, TCC!StartCancel
  <1>5. CASE TCC!CancelCall(c)
    BY <1>5 DEF TCC!CancelCall
  <1>6. CASE TCC!EndCancel(c)
    BY <1>6 DEF TCC!EndCancel
  <1>7. CASE TCC!StartConfirm(c)
    BY <1>7 DEF TCC!StartConfirm
  <1>8. CASE TCC!ConfirmCall(c)
    BY <1>8 DEF TCC!ConfirmCall
  <1>9. CASE TCC!EndConfirm(c)
    BY <1>9 DEF TCC!EndConfirm
  <1> QED
    BY <1>1, <1>2, <1>3, <1>4, <1>5, <1>6, <1>7, <1>8, <1>9 DEF TCC!Execution

LEMMA KnowsIsKept ==
  ASSUME TCC!TypeOK, TCC!TypeOK', NEW d \in Caller, Knows(d),
         tccAcked \subseteq tccAcked', tccConfirmed \subseteq tccConfirmed',
         tccCancelled \subseteq tccCancelled',
         tccPc'[d] = tccPc[d], tccPos'[d] = tccPos[d], failed'[d] = failed[d],
         result'[d] = result[d]
  PROVE  Knows(d)'
  BY DEF Knows, TCC!TypeOK, TCC!Component

\* A call at position pos[c] that was successful moves on with that component done.
LEMMA OneFurther ==
  ASSUME NEW k \in Nat, NEW S, 1 .. k - 1 \subseteq S, k \in S
  PROVE  1 .. (k + 1) - 1 \subseteq S
  OBVIOUS

LEMMA ActorKnows ==
  ASSUME TCC!TypeOK, TCC!TypeOK', NEW c \in Caller, Knows(c),
         TCC!ExecuteTransaction(c) \/ TCC!Execution(c)
  PROVE  Knows(c)'
  <1> DEFINE k == tccPos[c]
  <1>0. /\ k \in 1 .. N + 1 /\ N \in Nat /\ tccPos \in [Caller -> 1 .. N + 1]
        /\ tccPc \in [Caller -> TCCPhase]
        /\ failed \in [Caller -> BOOLEAN] /\ attempt \in [Caller -> 0 .. MaxRetries]
        /\ result \in [Caller -> {"none", "nil", "error"}]
        /\ tccConfirmed \subseteq 1 .. N /\ tccConfirmed' \subseteq 1 .. N
        /\ tccAcked \subseteq 1 .. N /\ tccAcked' \subseteq 1 .. N
    BY NAssumption DEF TCC!TypeOK, TCC!Component, TCCPhase
  <1> USE DEF TCC!effects
  <1>1. CASE TCC!ExecuteTransaction(c)
    <2>1. UNCHANGED <<tccAcked, tccConfirmed, tccCancelled>>
      BY <1>1 DEF TCC!ExecuteTransaction
    <2>2. CASE TCC!Enter(c, "try") /\ UNCHANGED result
      <3>1. tccPc'[c] = "try" /\ tccPos'[c] = 1
        BY <1>0, <2>2 DEF TCC!Enter
      <3> QED
        BY <2>1, <2>2, <3>1 DEF Knows
    <2>3. CASE TCC!Return(c, "error")
      <3>1. tccPc'[c] = "done" /\ result'[c] = "error"
        BY <1>0, <2>3 DEF TCC!Return
      <3> QED
        BY <3>1 DEF Knows
    <2> QED
      BY <1>1, <2>2, <2>3 DEF TCC!ExecuteTransaction
  <1>2. CASE TCC!TryCall(c)
    <2>1. UNCHANGED <<tccConfirmed, tccCancelled, result>> /\ tccPc[c] = "try"
      BY <1>2 DEF TCC!TryCall
    <2>2. CASE TCC!Advance(c) /\ tccAcked' = tccAcked \cup {k} /\ UNCHANGED tccPc
      <3>1. tccPos'[c] = k + 1
        BY <1>0, <2>2 DEF TCC!Advance
      <3>2. 1 .. (k + 1) - 1 \subseteq tccAcked'
        BY <1>0, <2>1, <2>2, OneFurther DEF Knows
      <3> QED
        BY <2>1, <2>2, <3>1, <3>2 DEF Knows
    <2>3. CASE TCC!Retry(c) /\ UNCHANGED <<tccPc, tccAcked>>
      BY <2>1, <2>3 DEF Knows, TCC!Retry
    <2>4. CASE TCC!Enter(c, "undo")
      <3>1. tccPc'[c] = "undo"
        BY <1>0, <2>4 DEF TCC!Enter
      <3> QED
        BY <2>1, <3>1 DEF Knows
    <2> QED
      BY <1>2, <2>2, <2>3, <2>4 DEF TCC!TryCall
  <1>3. CASE TCC!UndoCall(c) \/ TCC!TryFailed(c)
    <2>1. /\ UNCHANGED <<tccConfirmed, result>> /\ tccPc'[c] \in {"undo", "tryFailed"}
      BY <1>0, <1>3 DEF TCC!UndoCall, TCC!TryFailed
    <2> QED
      BY <2>1 DEF Knows
  <1>4. CASE TCC!StartCancel(c)
    <2>1. UNCHANGED <<tccConfirmed, result>> /\ tccPc'[c] = "cancel" /\ tccPos'[c] = 1
      BY <1>0, <1>4 DEF TCC!StartCancel, TCC!Enter
    <2> QED
      BY <2>1 DEF Knows
  <1>5. CASE TCC!CancelCall(c)
    <2>1. /\ UNCHANGED <<tccConfirmed, result, tccPc>> /\ tccPc[c] = "cancel"
          /\ TCC!CancelComponent(c)
      BY <1>5 DEF TCC!CancelCall
    <2>2. CASE TCC!Advance(c) /\ tccCancelled' = tccCancelled \cup {k}
      <3>1. tccPos'[c] = k + 1 /\ failed'[c] = failed[c]
        BY <1>0, <2>2 DEF TCC!Advance
      <3>2. ~failed[c] => 1 .. (k + 1) - 1 \subseteq tccCancelled'
        BY <1>0, <2>1, <2>2, OneFurther DEF Knows
      <3> QED
        BY <2>1, <2>2, <3>1, <3>2 DEF Knows
    <2>3. CASE TCC!Retry(c) /\ tccCancelled \subseteq tccCancelled'
      BY <2>1, <2>3 DEF Knows, TCC!Retry
    <2>4. CASE TCC!GiveUp(c)
      <3>1. failed'[c]
        BY <1>0, <2>4 DEF TCC!GiveUp
      <3> QED
        BY <2>1, <3>1 DEF Knows
    <2> QED
      BY <2>1, <2>2, <2>3, <2>4 DEF TCC!CancelComponent
  <1>6. CASE TCC!EndCancel(c)
    <2>1. UNCHANGED tccConfirmed /\ tccPc'[c] = "done" /\ result'[c] = "error"
      BY <1>0, <1>6 DEF TCC!EndCancel, TCC!Return
    <2> QED
      BY <2>1 DEF Knows
  <1>7. CASE TCC!StartConfirm(c)
    <2>1. /\ UNCHANGED <<tccAcked, tccConfirmed, result>> /\ tccPc[c] = "try"
          /\ tccPc'[c] = "confirm" /\ tccPos'[c] = 1 /\ k > N
      BY <1>0, <1>7 DEF TCC!StartConfirm, TCC!Enter, TCC!Tried
    <2>2. tccAcked = 1 .. N
      <3>1. k - 1 = N
        BY <1>0, <2>1
      <3> QED
        BY <1>0, <2>1, <3>1 DEF Knows
    <2> QED
      BY <2>1, <2>2 DEF Knows
  <1>8. CASE TCC!ConfirmCall(c)
    <2>1. UNCHANGED <<tccAcked, result, tccPc>> /\ tccPc[c] = "confirm" /\ k <= N
      BY <1>8 DEF TCC!ConfirmCall
    <2>2. tccConfirmed \subseteq tccConfirmed'
      BY <1>8 DEF TCC!ConfirmCall
    <2>3. result[c] = "nil" => tccConfirmed' = 1 .. N
      BY <1>0, <2>2 DEF Knows
    <2>4. CASE TCC!Advance(c) /\ tccConfirmed' = tccConfirmed \cup {k}
      <3>1. tccPos'[c] = k + 1 /\ failed'[c] = failed[c]
        BY <1>0, <2>4 DEF TCC!Advance
      <3>2. ~failed[c] => 1 .. (k + 1) - 1 \subseteq tccConfirmed'
        BY <1>0, <2>1, <2>4, OneFurther DEF Knows
      <3> QED
        BY <2>1, <2>3, <3>1, <3>2 DEF Knows
    <2>5. CASE TCC!Retry(c)
      BY <2>1, <2>2, <2>3, <2>5 DEF Knows, TCC!Retry
    <2>6. CASE TCC!GiveUp(c)
      <3>1. failed'[c]
        BY <1>0, <2>6 DEF TCC!GiveUp
      <3> QED
        BY <2>1, <2>3, <3>1 DEF Knows
    <2> QED
      BY <1>8, <2>4, <2>5, <2>6 DEF TCC!ConfirmCall
  <1>9. CASE TCC!EndConfirm(c)
    <2>1. /\ UNCHANGED <<tccAcked, tccConfirmed>> /\ tccPc[c] = "confirm" /\ k > N
          /\ tccPc'[c] = "done" /\ (result'[c] = "nil" => ~failed[c])
      BY <1>0, <1>9 DEF TCC!EndConfirm, TCC!Return
    <2>2. result'[c] = "nil" => tccConfirmed = 1 .. N
      <3>1. k - 1 = N
        BY <1>0, <2>1
      <3> QED
        BY <1>0, <2>1, <3>1 DEF Knows
    <2> QED
      BY <2>1, <2>2 DEF Knows
  <1> QED
    BY <1>1, <1>2, <1>3, <1>4, <1>5, <1>6, <1>7, <1>8, <1>9 DEF TCC!Execution

\* The object of a caller stays the same once it has begun.
LEMMA ObjectStep ==
  ASSUME TCC!TypeOK, TCC!TypeOK', ObjectInv, NEW c \in Caller,
         TCC!ExecuteTransaction(c) \/ TCC!Execution(c)
  PROVE  ObjectInv' /\ (TCC!Execution(c) => UNCHANGED object /\ object[c] # 0)
  <1>0. /\ tccPc \in [Caller -> TCCPhase] /\ object \in [Caller -> 0 .. begun]
        /\ tccStatus \in [0 .. Begins ->
              {"none", "pending", "trying", "confirmed", "cancelled", "failed"}]
        /\ object[c] \in 0 .. Begins /\ begun \in 0 .. Begins /\ listed \in 0 .. begun
    BY SagaAssumption DEF TCC!TypeOK, TCC!Object, TCCPhase
  <1>1. CASE TCC!ExecuteTransaction(c)
    <2>2. /\ tccStatus'[0] = tccStatus[0]
          /\ object'[c] = 0 => tccPc'[c] = "done"
          /\ \A d \in Caller \ {c} : object'[d] = object[d] /\ tccPc'[d] = tccPc[d]
      BY <1>0, <1>1, SagaAssumption DEF TCC!ExecuteTransaction, TCC!Enter, TCC!Return
    <2> QED
      BY <1>1, <2>2 DEF ObjectInv, TCC!ExecuteTransaction, TCC!Execution, TCC!TryCall,
         TCC!UndoCall, TCC!TryFailed, TCC!StartCancel, TCC!CancelCall, TCC!EndCancel,
         TCC!StartConfirm, TCC!ConfirmCall, TCC!EndConfirm
  <1>2. CASE TCC!Execution(c)
    <2>1. tccPc[c] \notin {"idle", "done"} /\ UNCHANGED object
      BY <1>2 DEF TCC!Execution, TCC!TryCall, TCC!UndoCall, TCC!TryFailed, TCC!StartCancel,
         TCC!CancelCall, TCC!EndCancel, TCC!StartConfirm, TCC!ConfirmCall, TCC!EndConfirm
    <2>2. object[c] # 0
      BY <2>1 DEF ObjectInv
    <2>3. UNCHANGED tccStatus \/ \E s \in {"failed", "cancelled", "confirmed"} : TCC!SetStatus(c, s)
      BY <1>2 DEF TCC!Execution, TCC!TryCall, TCC!UndoCall, TCC!TryFailed, TCC!StartCancel,
         TCC!CancelCall, TCC!EndCancel, TCC!StartConfirm, TCC!ConfirmCall, TCC!EndConfirm
    <2>4. tccStatus'[0] = tccStatus[0]
      <3>1. ASSUME NEW s, tccStatus' = [tccStatus EXCEPT ![object[c]] = s]
            PROVE  tccStatus'[0] = tccStatus[0]
        BY <1>0, <2>2, <3>1, SagaAssumption
      <3> QED
        BY <2>3, <3>1 DEF TCC!SetStatus
    <2>6. \A d \in Caller \ {c} : tccPc'[d] = tccPc[d]
      BY <1>2, OthersRest
    <2> QED
      BY <2>1, <2>2, <2>4, <2>6 DEF ObjectInv
  <1> QED
    BY <1>1, <1>2

\* The status of a caller's object while it alone has begun.
LEMMA ActorStatus ==
  ASSUME TCC!TypeOK, ObjectInv, NEW c \in Caller, Knows(c),
         tccPc[c] # "idle" => tccStatus[object[c]] \in StatusOf(tccPc[c]),
         TCC!ExecuteTransaction(c) \/ TCC!Execution(c)
  PROVE  /\ tccStatus'[object'[c]] \in StatusOf(tccPc'[c])
         /\ tccPc'[c] = "done" /\ tccStatus'[object'[c]] = "cancelled" =>
               1 .. N \subseteq tccCancelled'
  <1>0. /\ tccPc \in [Caller -> TCCPhase] /\ tccPos[c] \in 1 .. N + 1 /\ N \in Nat
        /\ object \in [Caller -> 0 .. Begins] /\ listed \in 0 .. Begins
        /\ tccStatus \in [0 .. Begins ->
              {"none", "pending", "trying", "confirmed", "cancelled", "failed"}]
    BY NAssumption, SagaAssumption DEF TCC!TypeOK, TCC!Object, TCCPhase
  <1>10. ASSUME NEW s \in {"confirmed", "failed", "cancelled"}, TCC!SetStatus(c, s)
         PROVE  tccStatus'[object[c]] = s
    BY <1>0, <1>10 DEF TCC!SetStatus
  <1> USE <1>0 DEF StatusOf, TCC!effects, TCCPhase
  <1>1. CASE TCC!ExecuteTransaction(c)
    <2>1. object'[c] = listed
      BY <1>1 DEF TCC!ExecuteTransaction
    <2>2. CASE listed # 0 /\ tccStatus' = [tccStatus EXCEPT ![listed] = "trying"] /\ TCC!Enter(c, "try")
      BY <2>1, <2>2 DEF TCC!Enter
    <2>3. CASE listed = 0 /\ TCC!Return(c, "error") /\ UNCHANGED tccStatus
      BY <2>1, <2>3 DEF TCC!Return, ObjectInv
    <2> QED
      BY <1>1, <2>2, <2>3 DEF TCC!ExecuteTransaction
  <1>2. CASE TCC!TryCall(c)
    BY <1>2 DEF TCC!TryCall, TCC!Enter
  <1>3. CASE TCC!UndoCall(c)
    BY <1>3 DEF TCC!UndoCall
  <1>11. CASE TCC!TryFailed(c)
    BY <1>10, <1>11 DEF TCC!TryFailed
  <1>4. CASE TCC!StartCancel(c)
    BY <1>4, <1>10 DEF TCC!StartCancel, TCC!Enter
  <1>5. CASE TCC!CancelCall(c)
    BY <1>5 DEF TCC!CancelCall
  <1>6. CASE TCC!EndCancel(c)
    <2>1. /\ tccPc[c] = "cancel" /\ tccPc'[c] = "done" /\ UNCHANGED <<object, tccCancelled>>
          /\ tccPos[c] - 1 = N
      BY <1>6 DEF TCC!EndCancel, TCC!Return
    <2>2. CASE failed[c] /\ TCC!SetStatus(c, "failed")
      BY <1>10, <2>1, <2>2
    <2>3. CASE ~failed[c] /\ UNCHANGED tccStatus
      BY <2>1, <2>3 DEF Knows
    <2> QED
      BY <1>6, <2>2, <2>3 DEF TCC!EndCancel
  <1>7. CASE TCC!StartConfirm(c)
    BY <1>7, <1>10 DEF TCC!StartConfirm, TCC!Enter
  <1>8. CASE TCC!ConfirmCall(c)
    BY <1>8 DEF TCC!ConfirmCall
  <1>9. CASE TCC!EndConfirm(c)
    BY <1>9, <1>10 DEF TCC!EndConfirm, TCC!Return
  <1> QED
    BY <1>1, <1>2, <1>3, <1>4, <1>5, <1>6, <1>7, <1>8, <1>9, <1>11 DEF TCC!Execution

LEMMA TCCStep ==
  ASSUME TCCInv, TCC!Next \/ UNCHANGED tccVars PROVE TCCInv'
  <1>1. /\ TCC!TypeOK /\ TCC!TypeOK' /\ ObjectInv
        /\ \A d \in Caller : Knows(d)
    BY TCCTypeStep DEF TCCInv
  <1>2. /\ tccAcked \subseteq tccAcked' /\ tccConfirmed \subseteq tccConfirmed'
        /\ tccCancelled \subseteq tccCancelled'
        /\ \A d \in Caller : tccPc'[d] = "idle" => tccPc[d] = "idle"
    BY <1>1, TCCMonotone
  <1>3. CASE UNCHANGED <<tccPc, tccPos, failed, result, object>> /\ UNCHANGED tccConfirmed
             /\ (\A o \in 0 .. begun : tccStatus'[o] = tccStatus[o])
    <2>1. \A d \in Caller : Knows(d)'
      BY <1>1, <1>2, <1>3, KnowsIsKept
    <2>2. \A d \in Caller : tccStatus'[object'[d]] = tccStatus[object[d]]
      BY <1>1, <1>3 DEF TCC!TypeOK
    <2>3. AloneInv'
      BY <1>2, <1>3, <2>2 DEF TCCInv, AloneInv, Alone
    <2>4. ObjectInv'
      <3>1. 0 \in 0 .. begun
        BY <1>1, SagaAssumption DEF TCC!TypeOK, TCC!Object
      <3> QED
        BY <1>1, <1>3, <3>1 DEF ObjectInv
    <2>5. TCC!ConfirmNeedsAllTries'
      BY <1>1, <1>2, <1>3 DEF TCCInv, TCC!ConfirmNeedsAllTries, TCC!TypeOK, TCC!Component
    <2> QED
      BY <1>1, <2>1, <2>3, <2>4, <2>5 DEF TCCInv
  <1>4. ASSUME NEW c \in Caller, TCC!ExecuteTransaction(c) \/ TCC!Execution(c) PROVE TCCInv'
    <2>1. \A d \in Caller : Knows(d)'
      <3>1. Knows(c)'
        BY <1>1, <1>4, ActorKnows
      <3>2. \A d \in Caller \ {c} : Knows(d)'
        BY <1>1, <1>2, <1>4, OthersRest, KnowsIsKept
      <3> QED
        BY <3>1, <3>2
    <2>2. AloneInv'
      <3> SUFFICES ASSUME NEW d \in Caller, Alone(d)', tccPc'[d] # "idle"
                   PROVE  /\ tccStatus'[object'[d]] \in StatusOf(tccPc'[d])
                          /\ tccPc'[d] = "done" /\ tccStatus'[object'[d]] = "cancelled" =>
                                 1 .. N \subseteq tccCancelled'
        BY DEF AloneInv
      <3>1. d = c
        BY <1>1, <1>4, OthersRest DEF Alone
      <3>2. tccPc[c] # "idle" => tccStatus[object[c]] \in StatusOf(tccPc[c])
        BY <1>2, <3>1 DEF TCCInv, AloneInv, Alone
      <3> QED
        BY <1>1, <1>4, <3>1, <3>2, ActorStatus
    <2>3. TCC!ConfirmNeedsAllTries'
      <3>1. tccConfirmed' = tccConfirmed \/ tccPc[c] = "confirm"
        BY <1>4 DEF TCC!ExecuteTransaction, TCC!Execution, TCC!TryCall, TCC!UndoCall,
           TCC!TryFailed, TCC!StartCancel, TCC!CancelCall, TCC!EndCancel, TCC!StartConfirm,
           TCC!ConfirmCall, TCC!EndConfirm, TCC!effects
      <3> QED
        BY <1>1, <1>2, <3>1 DEF TCCInv, Knows, TCC!ConfirmNeedsAllTries, TCC!TypeOK,
           TCC!Component
    <2>4. ObjectInv'
      BY <1>1, <1>4, ObjectStep
    <2> QED
      BY <1>1, <2>1, <2>2, <2>3, <2>4 DEF TCCInv
  <1>5. CASE UNCHANGED tccVars \/ TCC!BeginTransaction \/ TCC!CleanupTransactions
    <2>1. UNCHANGED <<tccPc, tccPos, failed, result, object, tccConfirmed>>
      BY <1>5 DEF tccVars, TCC!BeginTransaction, TCC!CleanupTransactions, TCC!effects,
         TCC!local, TCC!place
    <2>2. \A o \in 0 .. begun : tccStatus'[o] = tccStatus[o]
      <3>1. CASE UNCHANGED tccStatus
        BY <3>1
      <3>2. CASE tccStatus' = [tccStatus EXCEPT ![begun + 1] = "pending"]
        BY <1>1, <3>2, SagaAssumption DEF TCC!TypeOK, TCC!Object
      <3> QED
        BY <1>5, <3>1, <3>2 DEF tccVars, TCC!BeginTransaction, TCC!CleanupTransactions
    <2> QED
      BY <1>3, <2>1, <2>2
  <1> QED
    BY <1>4, <1>5 DEF TCC!Next

LEMMA TCCInitHolds == TCC!Init => TCCInv
  <1> SUFFICES ASSUME TCC!Init PROVE TCCInv
    OBVIOUS
  <1>1. TCC!TypeOK
    <2>1. N \in Nat /\ 1 \in 1 .. N + 1 /\ 0 \in 0 .. N /\ 0 \in 0 .. MaxRetries
      BY NAssumption
    <2>2. failed \in [Caller -> BOOLEAN]
      BY DEF TCC!Init
    <2>4. /\ begun \in TCC!Object /\ listed \in 0 .. begun /\ object \in [Caller -> 0 .. begun]
          /\ tccStatus \in [TCC!Object ->
                {"none", "pending", "trying", "confirmed", "cancelled", "failed"}]
      BY SagaAssumption DEF TCC!Init, TCC!Object
    <2>3. /\ tccPos \in [Caller -> 1 .. N + 1] /\ successful \in [Caller -> 0 .. N]
          /\ attempt \in [Caller -> 0 .. MaxRetries]
      BY <2>1 DEF TCC!Init
    <2> QED
      BY <2>2, <2>3, <2>4 DEF TCC!Init, TCC!TypeOK
  <1>2. \A c \in Caller : Knows(c)
    BY DEF TCC!Init, Knows
  <1>3. AloneInv /\ ObjectInv /\ TCC!ConfirmNeedsAllTries
    BY SagaAssumption DEF TCC!Init, AloneInv, ObjectInv, TCC!Object, TCC!ConfirmNeedsAllTries
  <1> QED
    BY <1>1, <1>2, <1>3 DEF TCCInv

\* TCCCoordinator is safe for any number of components, callers and retries: it is typed,
\* no Confirm takes effect before every Try has been acknowledged, nil is returned only
\* when every component is confirmed, and one call alone that ends cancelled has cancelled
\* every component (executeTryPhase, executeConfirmPhase, executeCancelPhase).
THEOREM TCCCoordinatorSafety == SpecPart => []TCCSafety
  <1>1. InitPart => TCCInv
    BY TCCInitHolds DEF InitPart
  <1>2. TCCInv /\ [AnyNext]_allVars => TCCInv'
    BY TCCPart, TCCStep
  <1>3. TCCInv => TCCSafety
    BY DEF TCCInv, Knows, AloneInv, Alone, TCCSafety, TCC!TypeOK, TCC!Component,
       TCC!NilMeansConfirmed, TCC!CancelledIsReleased
  <1> QED
    BY <1>1, <1>2, <1>3, PTL DEF SpecPart, AnyNext

-----------------------------------------------------------------------------
(***************************************************************************)
(* The saga orchestrator.  What a call has applied, executed and undone is *)
(* tied to its position: forwards the executed steps are those before it,  *)
(* backwards the compensated ones those between it and executed.           *)
(***************************************************************************)
SagaPhase == {"idle", "saved", "check", "action", "compensate", "done"}
Forwards == {"idle", "saved", "check", "action"}
Settled == {"completed", "compensated", "failed"}

CallInv(r) ==
    /\ sagaPc[r] \in Forwards =>
          /\ sagaPos[r] = executed[r] + 1 /\ 1 .. executed[r] \subseteq applied[r]
          /\ undone[r] = {} /\ failedUndo[r] = {}
          /\ state[r] \in {"pending", "running"} /\ sagaResult[r] = "none"
    /\ sagaPc[r] = "action" => sagaPos[r] <= SagaSteps
    /\ sagaPc[r] = "compensate" =>
          /\ sagaPos[r] <= executed[r] /\ state[r] = "failed" /\ sagaResult[r] = "none"
          /\ ((sagaPos[r] + 1) .. executed[r]) \cap Compensable \subseteq undone[r] \cup failedUndo[r]
    /\ sagaPc[r] = "done" => state[r] \in Settled
    /\ undone[r] \cup failedUndo[r] \subseteq 1 .. executed[r]
    /\ state[r] = "completed" \/ sagaResult[r] = "nil" =>
          applied[r] = 1 .. SagaSteps /\ undone[r] = {}
    /\ state[r] = "compensated" =>
          (1 .. executed[r]) \cap Compensable \subseteq undone[r] \cup failedUndo[r]

SagaInv ==
    /\ Saga!TypeOK /\ (\A r \in Run : CallInv(r))
    /\ \A r \in Run : current = r /\ r # Saga!NoRun => sagaPc[r] # "idle"

USE DEF Saga!record, Saga!effects, Saga!Goto, Saga!Update

LEMMA SagaTypeStep ==
  ASSUME SagaInv, Saga!Next \/ UNCHANGED sagaVars PROVE Saga!TypeOK'
  <1>0. /\ Saga!TypeOK /\ (\A r \in Run : CallInv(r))
        /\ SagaSteps \in Nat /\ RetryCount \in Nat
    BY SagaAssumption DEF SagaInv
  <1>1. CASE UNCHANGED sagaVars
    BY <1>0, <1>1 DEF sagaVars, Saga!TypeOK
  <1>2. ASSUME NEW r \in Run, Saga!SaveExecution(r) PROVE Saga!TypeOK'
    BY <1>0, <1>2 DEF Saga!SaveExecution, Saga!TypeOK
  <1>3. ASSUME NEW r \in Run, Saga!Expire(r) PROVE Saga!TypeOK'
    BY <1>0, <1>3 DEF Saga!Expire, Saga!TypeOK
  <1>4. ASSUME NEW r \in Run, Saga!Running(r) PROVE Saga!TypeOK'
    BY <1>0, <1>4 DEF Saga!Running, Saga!TypeOK
  <1>5. ASSUME NEW r \in Run, Saga!CheckContext(r) PROVE Saga!TypeOK'
    BY <1>0, <1>5 DEF Saga!CheckContext, Saga!TypeOK
  <1>6. ASSUME NEW r \in Run, Saga!Action(r) PROVE Saga!TypeOK'
    <2> DEFINE k == sagaPos[r]
    <2>1. /\ k \in 1 .. SagaSteps /\ executed[r] \in 0 .. SagaSteps /\ k = executed[r] + 1
          /\ sagaAttempt[r] \in 0 .. RetryCount
      BY <1>0, <1>6 DEF CallInv, Forwards, Saga!Action, Saga!TypeOK
    <2>2. applied' \in [Run -> SUBSET (1 .. SagaSteps)]
      BY <1>0, <1>6, <2>1 DEF Saga!Action, Saga!TypeOK, Saga!Step
    <2>3. executed' \in [Run -> 0 .. SagaSteps]
      BY <1>0, <1>6, <2>1 DEF Saga!Action, Saga!TypeOK
    <2>4. sagaPos' \in [Run -> 0 .. SagaSteps + 1]
      BY <1>0, <1>6, <2>1 DEF Saga!Action, Saga!TypeOK, Saga!ExecutedUpTo
    <2>5. sagaAttempt' \in [Run -> 0 .. RetryCount]
      BY <1>0, <1>6, <2>1 DEF Saga!Action, Saga!TypeOK, Saga!LastAttempt
    <2>6. /\ sagaPc' \in [Run -> SagaPhase] /\ current' \in Run \cup {Saga!NoRun}
          /\ state' \in [Run -> {"pending", "running", "failed", "completed", "compensated"}]
      BY <1>0, <1>6 DEF Saga!Action, Saga!TypeOK, SagaPhase
    <2>7. UNCHANGED <<expired, undone, failedUndo, sagaResult>>
      BY <1>6 DEF Saga!Action
    <2> QED
      BY <1>0, <2>2, <2>3, <2>4, <2>5, <2>6, <2>7 DEF Saga!TypeOK, SagaPhase, Saga!Step
  <1>7. ASSUME NEW r \in Run, Saga!Compensate(r) PROVE Saga!TypeOK'
    <2>1. sagaPos[r] \in 1 .. SagaSteps
      BY <1>0, <1>7 DEF CallInv, Saga!Compensate, Saga!TypeOK
    <2>2. undone' \in [Run -> SUBSET (1 .. SagaSteps)]
      BY <1>0, <1>7, <2>1 DEF Saga!Compensate, Saga!TypeOK, Saga!Step
    <2>3. failedUndo' \in [Run -> SUBSET (1 .. SagaSteps)]
      BY <1>0, <1>7, <2>1 DEF Saga!Compensate, Saga!TypeOK, Saga!Step
    <2>4. sagaPos' \in [Run -> 0 .. SagaSteps + 1]
      BY <1>0, <1>7, <2>1 DEF Saga!Compensate, Saga!TypeOK, Saga!NextToCompensate
    <2>5. UNCHANGED <<current, state, sagaPc, sagaAttempt, expired, applied, executed, sagaResult>>
      BY <1>7 DEF Saga!Compensate
    <2> QED
      BY <1>0, <2>2, <2>3, <2>4, <2>5 DEF Saga!TypeOK, Saga!Step
  <1>8. ASSUME NEW r \in Run, Saga!Compensated(r) PROVE Saga!TypeOK'
    BY <1>0, <1>8 DEF Saga!Compensated, Saga!TypeOK
  <1> QED
    BY <1>1, <1>2, <1>3, <1>4, <1>5, <1>6, <1>7, <1>8 DEF Saga!Next, Saga!Execute

\* A call's step leaves the other calls and their records alone.
LEMMA OtherCallsRest ==
  ASSUME Saga!TypeOK, NEW r \in Run,
         Saga!SaveExecution(r) \/ Saga!Expire(r) \/ Saga!Execute(r)
  PROVE  \A q \in Run \ {r} :
            /\ sagaPc'[q] = sagaPc[q] /\ sagaPos'[q] = sagaPos[q] /\ state'[q] = state[q]
            /\ applied'[q] = applied[q] /\ executed'[q] = executed[q]
            /\ undone'[q] = undone[q] /\ failedUndo'[q] = failedUndo[q]
            /\ sagaResult'[q] = sagaResult[q]
  <1> USE DEF Saga!TypeOK
  <1>1. CASE Saga!SaveExecution(r) \/ Saga!Expire(r) \/ Saga!Running(r) \/ Saga!Compensated(r)
    BY <1>1 DEF Saga!SaveExecution, Saga!Expire, Saga!Running, Saga!Compensated
  <1>2. CASE Saga!CheckContext(r)
    BY <1>2 DEF Saga!CheckContext
  <1>3. CASE Saga!Action(r)
    BY <1>3 DEF Saga!Action
  <1>4. CASE Saga!Compensate(r)
    BY <1>4 DEF Saga!Compensate
  <1> QED
    BY <1>1, <1>2, <1>3, <1>4 DEF Saga!Execute

\* What the acting call is typed with.
LEMMA CallTypes ==
  ASSUME Saga!TypeOK, NEW r \in Run
  PROVE  /\ sagaPos[r] \in 0 .. SagaSteps + 1 /\ executed[r] \in 0 .. SagaSteps
         /\ applied[r] \subseteq 1 .. SagaSteps
         /\ SagaSteps \in Nat
  BY SagaAssumption DEF Saga!TypeOK, Saga!Step

LEMMA ActionKeeps ==
  ASSUME Saga!TypeOK, NEW r \in Run, CallInv(r), Saga!Action(r)
  PROVE  CallInv(r)' /\ sagaPc'[r] # "idle"
  <1> DEFINE k == sagaPos[r]
             e == executed[r]
  <1>1. /\ sagaPc[r] = "action" /\ k = e + 1 /\ k \in 1 .. SagaSteps /\ e \in Nat
        /\ 1 .. e \subseteq applied[r] /\ undone[r] = {} /\ failedUndo[r] = {}
        /\ state[r] \in {"pending", "running"} /\ sagaResult[r] = "none"
    BY CallTypes DEF Saga!Action, CallInv, Forwards
  <1>2. /\ UNCHANGED <<undone, failedUndo, sagaResult>>
    BY DEF Saga!Action
  <1>3. CASE /\ applied' = [applied EXCEPT ![r] = @ \cup {k}]
             /\ executed' = [executed EXCEPT ![r] = @ + 1]
             /\ sagaPos' = [sagaPos EXCEPT ![r] = @ + 1]
             /\ Saga!Goto(r, "check") /\ UNCHANGED <<current, state>>
    <2>1. /\ sagaPc'[r] = "check" /\ executed'[r] = e + 1 /\ sagaPos'[r] = k + 1
          /\ applied'[r] = applied[r] \cup {k} /\ state'[r] = state[r]
      BY <1>3 DEF Saga!TypeOK
    <2>2. 1 .. e + 1 \subseteq applied'[r]
      BY <1>1, <2>1
    <2> QED
      BY <1>1, <1>2, <2>1, <2>2 DEF CallInv, Forwards
  <1>4. CASE /\ applied' \in {applied, [applied EXCEPT ![r] = @ \cup {k}]}
             /\ UNCHANGED <<current, state, sagaPc, sagaPos, executed>>
    <2>1. applied[r] \subseteq applied'[r]
      BY <1>4 DEF Saga!TypeOK
    <2> QED
      BY <1>1, <1>2, <1>4, <2>1 DEF CallInv, Forwards
  <1>5. CASE /\ applied' \in {applied, [applied EXCEPT ![r] = @ \cup {k}]}
             /\ Saga!Update(r, "failed") /\ sagaPos' = [sagaPos EXCEPT ![r] = e]
             /\ Saga!Goto(r, "compensate") /\ UNCHANGED executed
    <2>1. /\ sagaPc'[r] = "compensate" /\ sagaPos'[r] = e /\ executed'[r] = e
          /\ state'[r] = "failed"
      BY <1>5 DEF Saga!TypeOK
    <2>2. (e + 1) .. e = {}
      BY <1>1
    <2> QED
      BY <1>1, <1>2, <2>1, <2>2 DEF CallInv, Forwards
  <1> QED
    BY <1>1, <1>3, <1>4, <1>5 DEF Saga!Action, Saga!ExecutedUpTo

LEMMA CompensateKeeps ==
  ASSUME Saga!TypeOK, NEW r \in Run, CallInv(r), Saga!Compensate(r)
  PROVE  /\ CallInv(r)' /\ sagaPc'[r] # "idle"
         /\ undone'[r] \ undone[r] \subseteq {sagaPos[r]}
  <1> DEFINE k == sagaPos[r]
             e == executed[r]
             u == undone[r] \cup failedUndo[r]
  <1>1. /\ sagaPc[r] = "compensate" /\ k \in 1 .. e /\ e \in Nat /\ state[r] = "failed"
        /\ sagaResult[r] = "none" /\ ((k + 1) .. e) \cap Compensable \subseteq u
        /\ u \subseteq 1 .. e
    BY CallTypes DEF Saga!Compensate, CallInv
  <1>2. UNCHANGED <<state, sagaPc, applied, executed, sagaResult>>
    BY DEF Saga!Compensate
  <1>3. sagaPos'[r] = k - 1
    BY DEF Saga!Compensate, Saga!NextToCompensate, Saga!TypeOK
  <1>4. /\ undone'[r] \in {undone[r], undone[r] \cup {k}}
        /\ failedUndo'[r] \in {failedUndo[r], failedUndo[r] \cup {k}}
        /\ k \in Compensable => k \in undone'[r] \cup failedUndo'[r]
    BY DEF Saga!Compensate, Saga!TypeOK
  <1> DEFINE v == undone'[r] \cup failedUndo'[r]
  <1>5. u \subseteq v /\ v \subseteq 1 .. e
    BY <1>1, <1>4
  <1>6. (((k - 1) + 1) .. e) \cap Compensable \subseteq v
    <2>1. ((k - 1) + 1) .. e = {k} \cup ((k + 1) .. e)
      BY <1>1
    <2> QED
      BY <1>1, <1>4, <1>5, <2>1
  <1>7. k - 1 <= e
    BY <1>1
  <1> QED
    BY <1>1, <1>2, <1>3, <1>4, <1>5, <1>6, <1>7 DEF CallInv, Forwards

LEMMA CallStep ==
  ASSUME Saga!TypeOK, NEW r \in Run, CallInv(r),
         Saga!SaveExecution(r) \/ Saga!Expire(r) \/ Saga!Execute(r)
  PROVE  CallInv(r)' /\ sagaPc'[r] # "idle"
  <1>0. /\ sagaPc \in [Run -> SagaPhase] /\ sagaPos[r] \in 0 .. SagaSteps + 1
        /\ executed[r] \in 0 .. SagaSteps /\ applied[r] \subseteq 1 .. SagaSteps
        /\ SagaSteps \in Nat
    BY CallTypes DEF Saga!TypeOK, SagaPhase
  <1>1. CASE Saga!SaveExecution(r)
    <2>1. sagaPc[r] = "idle" /\ sagaPc'[r] = "saved"
      BY <1>0, <1>1 DEF Saga!SaveExecution
    <2>2. UNCHANGED <<state, sagaPos, applied, executed, undone, failedUndo, sagaResult>>
      BY <1>1 DEF Saga!SaveExecution
    <2> QED
      BY <2>1, <2>2 DEF CallInv, Forwards
  <1>2. CASE Saga!Expire(r)
    <2>1. sagaPc[r] # "idle"
      BY <1>2 DEF Saga!Expire
    <2>2. UNCHANGED <<state, sagaPc, sagaPos, applied, executed, undone, failedUndo, sagaResult>>
      BY <1>2 DEF Saga!Expire
    <2> QED
      BY <2>1, <2>2 DEF CallInv
  <1>3. CASE Saga!Running(r)
    <2>1. sagaPc[r] = "saved" /\ sagaPc'[r] = "check" /\ state'[r] = "running"
      BY <1>0, <1>3 DEF Saga!Running, Saga!TypeOK
    <2>2. UNCHANGED <<sagaPos, applied, executed, undone, failedUndo, sagaResult>>
      BY <1>3 DEF Saga!Running
    <2> QED
      BY <2>1, <2>2 DEF CallInv, Forwards
  <1>4. CASE Saga!CheckContext(r)
    <2>1. sagaPc[r] = "check" /\ UNCHANGED <<sagaPos, applied, executed, undone, failedUndo>>
      BY <1>4 DEF Saga!CheckContext
    <2>2. CASE Saga!Update(r, "failed") /\ Saga!Goto(r, "done")
               /\ sagaResult' = [sagaResult EXCEPT ![r] = "error"]
      <3>1. sagaPc'[r] = "done" /\ state'[r] = "failed" /\ sagaResult'[r] = "error"
        BY <1>0, <2>2 DEF Saga!TypeOK
      <3> QED
        BY <2>1, <3>1 DEF CallInv, Forwards, Settled
    <2>3. CASE /\ ~Saga!AllSteps(r) /\ Saga!Goto(r, "action")
               /\ UNCHANGED <<current, state, sagaResult>>
      <3>1. sagaPc'[r] = "action" /\ sagaPos[r] <= SagaSteps
        BY <1>0, <2>3 DEF Saga!AllSteps
      <3> QED
        BY <2>1, <2>3, <3>1 DEF CallInv, Forwards
    <2>4. CASE /\ Saga!AllSteps(r) /\ Saga!Update(r, "completed") /\ Saga!Goto(r, "done")
               /\ sagaResult' = [sagaResult EXCEPT ![r] = "nil"]
      <3>1. sagaPc'[r] = "done" /\ state'[r] = "completed" /\ sagaResult'[r] = "nil"
        BY <1>0, <2>4 DEF Saga!TypeOK
      <3>2. applied[r] = 1 .. SagaSteps /\ undone[r] = {}
        <4>1. executed[r] = SagaSteps
          BY <1>0, <2>1, <2>4 DEF CallInv, Forwards, Saga!AllSteps
        <4> QED
          BY <1>0, <2>1, <4>1 DEF CallInv, Forwards
      <3> QED
        BY <2>1, <3>1, <3>2 DEF CallInv, Forwards, Settled
    <2> QED
      BY <1>4, <2>2, <2>3, <2>4 DEF Saga!CheckContext
  <1>5. CASE Saga!Action(r)
    BY <1>5, ActionKeeps
  <1>6. CASE Saga!Compensate(r)
    BY <1>6, CompensateKeeps
  <1>7. CASE Saga!Compensated(r)
    <2>1. /\ sagaPc[r] = "compensate" /\ sagaPos[r] = 0 /\ sagaPc'[r] = "done"
          /\ state'[r] = "compensated" /\ sagaResult'[r] = "error"
      BY <1>0, <1>7 DEF Saga!Compensated, Saga!TypeOK
    <2>2. UNCHANGED <<sagaPos, applied, executed, undone, failedUndo>>
      BY <1>7 DEF Saga!Compensated
    <2>3. (1 .. executed[r]) \cap Compensable \subseteq undone[r] \cup failedUndo[r]
      BY <2>1 DEF CallInv
    <2> QED
      BY <2>1, <2>2, <2>3 DEF CallInv, Forwards, Settled
  <1> QED
    BY <1>1, <1>2, <1>3, <1>4, <1>5, <1>6, <1>7 DEF Saga!Execute

LEMMA SagaStep ==
  ASSUME SagaInv, Saga!Next \/ UNCHANGED sagaVars PROVE SagaInv'
  <1>1. Saga!TypeOK /\ Saga!TypeOK' /\ (\A q \in Run : CallInv(q))
    BY SagaTypeStep DEF SagaInv
  <1>2. CASE UNCHANGED sagaVars
    BY <1>1, <1>2 DEF sagaVars, SagaInv, CallInv
  <1>3. ASSUME NEW r \in Run, Saga!SaveExecution(r) \/ Saga!Expire(r) \/ Saga!Execute(r)
        PROVE  SagaInv'
    <2>1. CallInv(r)' /\ sagaPc'[r] # "idle"
      BY <1>1, <1>3, CallStep
    <2>2. \A q \in Run \ {r} : CallInv(q)' /\ sagaPc'[q] = sagaPc[q]
      BY <1>1, <1>3, OtherCallsRest DEF CallInv
    <2>3. current' \in {current, r}
      BY <1>3 DEF Saga!SaveExecution, Saga!Expire, Saga!Execute, Saga!Running,
         Saga!CheckContext, Saga!Action, Saga!Compensate, Saga!Compensated
    <2> QED
      BY <1>1, <2>1, <2>2, <2>3 DEF SagaInv
  <1> QED
    BY <1>2, <1>3 DEF Saga!Next

LEMMA SagaInitHolds == Saga!Init => SagaInv
  <1> SUFFICES ASSUME Saga!Init PROVE SagaInv
    OBVIOUS
  <1>1. SagaSteps \in Nat /\ 1 \in 0 .. SagaSteps + 1 /\ 0 \in 0 .. SagaSteps
        /\ 0 \in 0 .. RetryCount
    BY SagaAssumption
  <1>2. expired \in [Run -> BOOLEAN]
    BY DEF Saga!Init
  <1>3. Saga!TypeOK
    BY <1>1, <1>2 DEF Saga!Init, Saga!TypeOK
  <1>4. \A r \in Run : CallInv(r)
    BY DEF Saga!Init, CallInv, Forwards
  <1>5. ASSUME NEW r \in Run, current = r, r # Saga!NoRun PROVE sagaPc[r] # "idle"
    BY <1>5 DEF Saga!Init
  <1> QED
    BY <1>3, <1>4, <1>5 DEF SagaInv

LEMMA SagaAlways == SpecPart => []SagaInv
  <1>1. InitPart => SagaInv
    BY SagaInitHolds DEF InitPart
  <1>2. SagaInv /\ [AnyNext]_allVars => SagaInv'
    BY SagaPart, SagaStep
  <1> QED
    BY <1>1, <1>2, PTL DEF SpecPart, AnyNext

\* The orchestrator is safe for any number of steps, calls and retries: it is typed, a
\* call returns nil only when every step took effect and none was undone, only executed
\* steps are compensated, all of them before the record says compensated, and once no call
\* is under way the record shown is settled (SagaOrchestrator.Execute and compensate).
THEOREM SagaOrchestratorSafety == SpecPart => []SagaSafety
  <1>1. SagaInv => SagaSafety
    <2> SUFFICES ASSUME SagaInv PROVE SagaSafety
      OBVIOUS
    <2>1. Saga!CompletedIsWhole /\ Saga!UndoOnlyExecuted /\ Saga!CompensatedIsUndone
      BY DEF SagaInv, CallInv, Saga!Step, Saga!CompletedIsWhole, Saga!UndoOnlyExecuted,
         Saga!CompensatedIsUndone
    <2>2. Saga!QuietIsSettled
      BY DEF SagaInv, CallInv, Settled, Saga!TypeOK, Saga!QuietIsSettled
    <2> QED
      BY <2>1, <2>2 DEF SagaInv, SagaSafety
  <1> QED
    BY <1>1, SagaAlways, PTL

\* Compensation runs backwards, for any number of steps (compensate's loop).
THEOREM SagaRunsBackwards == SpecPart => SagaUndoBackwards
  <1> DEFINE Later(r) == \A i \in undone'[r] \ undone[r] :
                \A j \in Compensable : i < j /\ j <= executed[r] => j \in undone[r] \cup failedUndo[r]
  <1>1. ASSUME SagaInv, Saga!Next \/ UNCHANGED sagaVars PROVE \A r \in Run : Later(r)
    <2>0. Saga!TypeOK /\ (\A q \in Run : CallInv(q))
      BY <1>1 DEF SagaInv
    <2>1. ASSUME NEW r \in Run, Saga!Compensate(r) PROVE Later(r)
      <3>1. /\ undone'[r] \ undone[r] \subseteq {sagaPos[r]} /\ sagaPc[r] = "compensate"
            /\ sagaPos[r] \in Nat /\ executed[r] \in Nat
        <4>1. undone'[r] \ undone[r] \subseteq {sagaPos[r]}
          BY <2>0, <2>1, CompensateKeeps
        <4>2. sagaPc[r] = "compensate"
          BY <2>1 DEF Saga!Compensate
        <4>3. sagaPos[r] \in Nat /\ executed[r] \in Nat
          BY <2>0, CallTypes
        <4> QED
          BY <4>1, <4>2, <4>3
      <3>2. ((sagaPos[r] + 1) .. executed[r]) \cap Compensable \subseteq undone[r] \cup failedUndo[r]
        BY <2>0, <3>1 DEF CallInv
      <3>3. undone[r] \cup failedUndo[r] \subseteq 1 .. executed[r]
        BY <2>0 DEF CallInv
      <3> QED
        BY <3>1, <3>2, <3>3, SagaAssumption
    <2>2. ASSUME NEW r \in Run, ~Saga!Compensate(r) PROVE undone'[r] = undone[r]
      <3>1. CASE UNCHANGED sagaVars
        BY <3>1 DEF sagaVars
      <3>2. ASSUME NEW q \in Run, Saga!SaveExecution(q) \/ Saga!Expire(q) \/ Saga!Execute(q)
            PROVE  undone'[r] = undone[r]
        <4>1. CASE q # r
          BY <2>0, <3>2, <4>1, OtherCallsRest
        <4>2. CASE q = r
          BY <2>2, <3>2, <4>2 DEF Saga!SaveExecution, Saga!Expire, Saga!Execute, Saga!Running,
             Saga!CheckContext, Saga!Action, Saga!Compensated
        <4> QED
          BY <4>1, <4>2
      <3> QED
        BY <1>1, <3>1, <3>2 DEF Saga!Next
    <2> QED
      BY <2>1, <2>2
  <1>2. SagaInv /\ [AnyNext]_allVars => [\A r \in Run : Later(r)]_(Saga!vars)
    BY <1>1, SagaPart
  <1> QED
    BY <1>2, SagaAlways, PTL DEF SpecPart, AnyNext, SagaUndoBackwards, Saga!UndoBackwards
=============================================================================
