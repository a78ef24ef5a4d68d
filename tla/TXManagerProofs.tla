--------------------------- MODULE TXManagerProofs ---------------------------
(***************************************************************************)
(* Proofs about TXManager, for any number of components, nodes, attempts   *)
(* and crashes.                                                            *)
(***************************************************************************)
EXTENDS TXManager, TLAPS

\* getStatus answers one of the three statuses, and "successful" only for a list in
\* which every component is successful.
LEMMA GetStatusLemma ==
    ASSUME NEW l, NEW late
    PROVE  /\ getStatus(l, late) \in TryStatus
           /\ getStatus(l, late) = "successful" => \A c \in Component : l[c] = "successful"
  BY DEF getStatus, TryStatus

\* The lists a transaction starts from are lists.
LEMMA FreshLemma == Fresh \in List /\ 1 \in Component
  BY NAssumption DEF Fresh, List, TryStatus, Component

\* Returning from advanceProgress or TXSubmit keeps an executor's state well typed.
LEMMA ReturnTyped ==
    ASSUME TypeOK, NEW e \in Executor, NEW p \in ExecPC, Return(e, p)
    PROVE  /\ pc' \in [Executor -> ExecPC] /\ list' \in [Executor -> List]
           /\ outcome' \in [Executor -> TryStatus] /\ idx' \in [Executor -> Component]
           /\ att' \in [Executor -> Nat]
           /\ back' \in [Executor -> {"returned", "unlock", "requery"}]
  BY FreshLemma DEF Return, Goto, TypeOK, TryStatus

\* A status put into a list gives a list.
LEMMA ListExcept ==
    ASSUME NEW l \in List, NEW c \in Component, NEW s \in TryStatus
    PROVE  [l EXCEPT ![c] = s] \in List
  BY DEF List

\* A try goroutine that ends leaves its state well typed.
LEMMA TryEndsTyped ==
    ASSUME TypeOK, NEW c \in Component, TryEnds(c)
    PROVE  /\ tpc' \in [Component -> TryPC] /\ tatt' \in [Component -> Nat]
           /\ tres' \in List /\ tlist' \in [Component -> List]
<1>1. tres' \in List
  BY ListExcept DEF TryEnds, TypeOK, TryStatus
<1> QED BY <1>1, FreshLemma DEF TryEnds, TryGoto, TypeOK, TryPC

\* Every step of the transaction manager keeps its state well typed.
LEMMA TypingStep == TypeOK /\ [Next]_vars => TypeOK'
<1> SUFFICES ASSUME TypeOK, [Next]_vars PROVE TypeOK'
  OBVIOUS
<1> USE FreshLemma
<1>0. "hanging" \in TryStatus /\ "successful" \in TryStatus /\ "failure" \in TryStatus
  BY DEF TryStatus
<1>1. CASE UNCHANGED vars
  BY <1>1 DEF TypeOK, vars, store, tryVars, execVars, locals, business
<1>2. CASE CreateTX
  BY <1>0, <1>2 DEF CreateTX, Goto, TypeOK, tryVars, locals, business, ExecPC, Executor
<1>3. CASE SeedRedis
  BY <1>3 DEF SeedRedis, Goto, TypeOK, locals, business, ExecPC, TryPC, Executor
<1>4. CASE AwaitTries
  BY <1>4 DEF AwaitTries, Goto, TypeOK, store, locals, business, ExecPC, Executor
<1>5. CASE GetTX
  BY <1>5 DEF GetTX, Goto, TypeOK, store, tryVars, business, ExecPC, Executor
<1>6. CASE FillRedis
  BY <1>6 DEF FillRedis, Goto, TypeOK, tryVars, locals, business, ExecPC, Executor
<1>7. ASSUME NEW c \in Component, TryStep(c) PROVE TypeOK'
  <2>0. UpdatedList(c) \in List
    BY ListExcept DEF UpdatedList, TypeOK, List
  <2>1. CASE TryMark(c)
    <3>1. /\ tpc' \in [Component -> TryPC] /\ tatt' \in [Component -> Nat]
          /\ tres' \in List /\ tlist' \in [Component -> List]
      <4>1. CASE TryEnds(c)
        BY <4>1, TryEndsTyped
      <4>2. CASE ~TryEnds(c)
        <5>1. tres' \in List
          <6> DEFINE s == IF <<c, "try">> \in mark THEN "successful" ELSE tres[c]
          <6>1. s \in TryStatus
            BY <1>0 DEF TypeOK, List
          <6>2. tres' = [tres EXCEPT ![c] = s]
            BY <2>1, <4>2 DEF TryMark, TryGivesUp
          <6> HIDE DEF s
          <6> QED BY <6>1, <6>2, ListExcept DEF TypeOK
        <5> QED BY <2>1, <4>2, <5>1 DEF TryMark, TryGivesUp, TryGoto, TypeOK, TryPC
      <4> QED BY <4>1, <4>2
    <3>2. mark' \in SUBSET (Component \X Phase) /\ errCh' \in {"empty", "error"}
      BY <2>1 DEF TryMark, TryGivesUp, TypeOK, Phase
    <3> QED BY <2>1, <3>1, <3>2 DEF TryMark, TypeOK, store, execVars, locals, business
  <2>2. CASE TryCall(c)
    <3>1. tres' \in List
      BY <1>0, <2>2, ListExcept DEF TryCall, TypeOK
    <3> QED BY <2>2, <3>1 DEF TryCall, TryGoto, TypeOK, store, execVars, locals, TryPC
  <2>3. CASE TryRead(c)
    <3>1. /\ tpc' \in [Component -> TryPC] /\ tatt' \in [Component -> Nat]
          /\ tres' \in List /\ tlist' \in [Component -> List]
      <4>1. CASE TryEnds(c)
        BY <4>1, TryEndsTyped
      <4>2. CASE ~TryEnds(c)
        BY <2>3, <4>2 DEF TryRead, TryGivesUp, TryGoto, TypeOK, TryPC
      <4> QED BY <4>1, <4>2
    <3> QED BY <2>3, <3>1 DEF TryRead, TryGivesUp, TypeOK, store, execVars, locals, business
  <2>4. CASE TryWriteDB(c)
    <3>1. /\ tpc' \in [Component -> TryPC] /\ tatt' \in [Component -> Nat]
          /\ tres' \in List /\ tlist' \in [Component -> List]
      <4>1. CASE TryEnds(c)
        BY <4>1, TryEndsTyped
      <4>2. CASE ~TryEnds(c)
        BY <2>4, <4>2 DEF TryWriteDB, TryGivesUp, TryGoto, TypeOK, TryPC
      <4> QED BY <4>1, <4>2
    <3>2. dbTry' \in List
      BY <2>0, <2>4 DEF TryWriteDB, TypeOK
    <3> QED BY <2>4, <3>1, <3>2 DEF TryWriteDB, TryGivesUp, TypeOK, execVars, locals, business
  <2>5. CASE TryWriteRedis(c)
    BY <2>0, <2>5, TryEndsTyped DEF TryWriteRedis, TypeOK, execVars, locals, business
  <2> QED BY <1>7, <2>1, <2>2, <2>3, <2>4, <2>5 DEF TryStep
<1>8. ASSUME NEW e \in Executor, AdvanceStep(e) PROVE TypeOK'
  <2>0. Leave(e) \in ExecPC /\ Leave(e) \in {"returned", "unlock"} /\ back[e] \in ExecPC
    BY DEF Leave, ExecPC, TypeOK
  <2>1. CASE Decide(e)
    <3>1. CASE getStatus(list[e], age >= 1) = "hanging"
      BY <2>0, <2>1, <3>1, ReturnTyped DEF Decide, TypeOK, store, tryVars, business
    <3>2. CASE getStatus(list[e], age >= 1) # "hanging"
      <4>1. getStatus(list[e], age >= 1) \in TryStatus
        BY GetStatusLemma
      <4> QED BY <2>0, <2>1, <3>2, <4>1 DEF Decide, Goto, TypeOK, store, tryVars,
                 business, ExecPC
    <3> QED BY <3>1, <3>2
  <2>2. CASE MarkPhase(e)
    <3>1. <<idx[e], SecondPhase(e)>> \in Component \X Phase
      BY DEF SecondPhase, Phase, TypeOK
    <3>2. /\ pc' \in [Executor -> ExecPC] /\ list' \in [Executor -> List]
          /\ outcome' \in [Executor -> TryStatus] /\ idx' \in [Executor -> Component]
          /\ att' \in [Executor -> Nat]
          /\ back' \in [Executor -> {"returned", "unlock", "requery"}]
      <4>1. CASE Return(e, Leave(e))
        BY <2>0, <4>1, ReturnTyped
      <4>2. CASE NextComponent(e)
        BY <4>2, NAssumption DEF NextComponent, Goto, TypeOK, ExecPC, Component
      <4>3. CASE Goto(e, "call") /\ UNCHANGED locals
        BY <4>3 DEF Goto, TypeOK, ExecPC, locals
      <4> QED BY <2>2, <4>1, <4>2, <4>3 DEF MarkPhase
    <3>3. mark' \in SUBSET (Component \X Phase) /\ runs' \in [Component \X Phase -> Nat]
      <4> DEFINE key == <<idx[e], SecondPhase(e)>>
      <4>1. /\ mark' \in {mark, mark \cup {key}}
            /\ runs' \in {runs, [runs EXCEPT ![key] = @ + 1]}
        BY <2>2 DEF MarkPhase
      <4>2. mark \in SUBSET (Component \X Phase) /\ runs \in [Component \X Phase -> Nat]
        BY DEF TypeOK
      <4> HIDE DEF key
      <4>3. key \in Component \X Phase
        BY <3>1 DEF key
      <4> DEFINE S == Component \X Phase
      <4> HIDE DEF S
      <4>4. mark \in SUBSET S /\ runs \in [S -> Nat] /\ key \in S
        BY <4>2, <4>3 DEF S
      <4>5. mark' \in SUBSET S /\ runs' \in [S -> Nat]
        BY <4>1, <4>4
      <4> QED BY <4>5 DEF S
    <3> QED BY <2>2, <3>2, <3>3 DEF MarkPhase, TypeOK, store, tryVars
  <2>3. CASE CallPhase(e)
    <3>1. /\ pc' \in [Executor -> ExecPC] /\ list' \in [Executor -> List]
          /\ outcome' \in [Executor -> TryStatus] /\ idx' \in [Executor -> Component]
          /\ att' \in [Executor -> Nat]
          /\ back' \in [Executor -> {"returned", "unlock", "requery"}]
      <4>1. CASE Return(e, Leave(e))
        BY <2>0, <4>1, ReturnTyped
      <4>2. CASE NextComponent(e)
        BY <4>2, NAssumption DEF NextComponent, Goto, TypeOK, ExecPC, Component
      <4>3. CASE UNCHANGED <<pc, list, outcome, idx, back>> /\ att' = [att EXCEPT ![e] = @ + 1]
        BY <4>3 DEF TypeOK
      <4> QED BY <2>3, <4>1, <4>2, <4>3 DEF CallPhase, PhaseErrs
    <3>2. confirmed' \in SUBSET Component /\ cancelled' \in SUBSET Component
      BY <2>3 DEF CallPhase, TakesEffect, NoEffect, TypeOK
    <3>3. mark' \in SUBSET (Component \X Phase)
      BY <2>3 DEF CallPhase, PhaseErrs, TypeOK, Phase
    <3> QED BY <2>3, <3>1, <3>2, <3>3 DEF CallPhase, TypeOK, store, tryVars
  <2>4. CASE SubmitDBSucceeds(e)
    BY <2>4 DEF SubmitDBSucceeds, Goto, TypeOK, tryVars, locals, business, ExecPC
  <2>5. CASE SubmitDBFails(e)
    BY <2>0, <2>5, ReturnTyped DEF SubmitDBFails, TypeOK, tryVars, business
  <2>6. CASE SubmitRead(e)
    <3>1. CASE Return(e, back[e])
      BY <2>0, <2>6, <3>1, ReturnTyped DEF SubmitRead, TypeOK, store, tryVars, business
    <3>2. CASE ~Return(e, back[e])
      BY <2>6, <3>2 DEF SubmitRead, Goto, TypeOK, store, tryVars, business, ExecPC
    <3> QED BY <3>1, <3>2
  <2>7. CASE SubmitRedis(e)
    BY <2>0, <2>7, ReturnTyped DEF SubmitRedis, TypeOK, tryVars, business
  <2> QED BY <1>8, <2>1, <2>2, <2>3, <2>4, <2>5, <2>6, <2>7 DEF AdvanceStep
<1>9. ASSUME NEW n \in Node, MonitorStep(n) PROVE TypeOK'
  <2>0. n \in Executor
    BY DEF Executor
  <2>1. CASE Lock(n)
    BY <2>0, <2>1 DEF Lock, Goto, TypeOK, store, tryVars, locals, business, ExecPC
  <2>2. CASE Query(n)
    BY <1>0, <2>0, <2>2 DEF Query, Goto, TypeOK, store, tryVars, business, ExecPC
  <2>3. CASE Requery(n)
    BY <2>0, <2>3 DEF Requery, Goto, TypeOK, store, tryVars, business, ExecPC
  <2>4. CASE QueryFails(n)
    BY <2>0, <2>4 DEF QueryFails, Goto, TypeOK, store, tryVars, locals, business, ExecPC
  <2>5. CASE Unlock(n)
    BY <2>0, <2>5 DEF Unlock, Goto, TypeOK, store, tryVars, locals, business, ExecPC
  <2> QED BY <1>9, <2>1, <2>2, <2>3, <2>4, <2>5 DEF MonitorStep
<1>10. ASSUME NEW n \in Node, Crash(n) PROVE TypeOK'
  <2>0. n \in Executor /\ "idle" \in ExecPC
    BY DEF Executor, ExecPC
  <2>1. CASE n = Home
    <3>1. /\ pc' \in [Executor -> ExecPC] /\ list' \in [Executor -> List]
          /\ outcome' \in [Executor -> TryStatus] /\ idx' \in [Executor -> Component]
          /\ att' \in [Executor -> Nat]
          /\ back' \in [Executor -> {"returned", "unlock", "requery"}]
      <4>1. pc' \in [Executor -> ExecPC]
        <5>1. "idle" \in ExecPC /\ "returned" \in ExecPC /\ pc \in [Executor -> ExecPC]
          BY DEF ExecPC, TypeOK
        <5>2. pc' = [[e \in Executor |-> IF e \in {Home, Foreground} THEN "idle" ELSE pc[e]]
                       EXCEPT ![Foreground] = "returned"]
          BY <1>10, <2>1 DEF Crash, CrashHome
        <5> QED BY <5>1, <5>2
      <4>2. list' \in [Executor -> List] /\ outcome' \in [Executor -> TryStatus]
        BY <1>0, <1>10, <2>1 DEF Crash, CrashHome, TypeOK
      <4>3. idx' \in [Executor -> Component] /\ att' \in [Executor -> Nat]
        BY <1>10, <2>1 DEF Crash, CrashHome, TypeOK
      <4>4. back' \in [Executor -> {"returned", "unlock", "requery"}]
        BY <1>10, <2>1 DEF Crash, CrashHome, TypeOK
      <4> QED BY <4>1, <4>2, <4>3, <4>4
    <3>2. /\ tpc' \in [Component -> TryPC] /\ tatt' \in [Component -> Nat]
          /\ tres' \in List /\ tlist' \in [Component -> List]
      <4>1. tres' = Fresh
        BY <1>10, <2>1 DEF Crash, CrashHome, Fresh
      <4>2. tlist' = [d \in Component |-> Fresh]
        BY <1>10, <2>1 DEF Crash, CrashHome
      <4> QED BY <1>10, <2>1, <4>1, <4>2 DEF Crash, CrashHome, TryPC
    <3> QED BY <1>10, <2>1, <3>1, <3>2 DEF Crash, CrashHome, TypeOK, store, business
  <2>2. CASE n # Home
    BY <1>10, <2>0, <2>2, ReturnTyped DEF Crash, TypeOK, store, business
  <2> QED BY <2>1, <2>2
<1>11. CASE LockExpires
  BY <1>11 DEF LockExpires, TypeOK, store, tryVars, execVars, locals, business
<1>12. CASE Tick
  BY <1>12, AgeAssumption DEF Tick, TypeOK, store, tryVars, execVars, locals, business
<1> QED
  BY <1>1, <1>2, <1>3, <1>4, <1>5, <1>6, <1>7, <1>8, <1>9, <1>10, <1>11, <1>12
     DEF Next, ForegroundStep

\* The state of the transaction manager is always well typed.
THEOREM Typing == Spec => []TypeOK
<1>1. Init => TypeOK
  BY FreshLemma DEF Init, TypeOK, List, TryStatus, TryPC, ExecPC, Phase
<1> QED BY <1>1, TypingStep, PTL DEF Spec

-----------------------------------------------------------------------------
(***************************************************************************)
(* The outcome of a transaction is backed by the answers of its            *)
(* components.  OutcomeInv is inductive: LogIsBacked follows every copy of *)
(* the component list, OutcomeJustified what an executor derived from one. *)
(***************************************************************************)
\* What a list says stays backed when more components have answered, and the lists a
\* transaction starts from, which say nothing, are backed.
LEMMA BackedLemma ==
    ASSUME NEW a, NEW r
    PROVE  /\ Backed(Fresh, a, r) /\ Backed(NoTX, a, r)
           /\ \A l, a2, r2 : Backed(l, a, r) /\ a \subseteq a2 /\ r \subseteq r2
                                => Backed(l, a2, r2)
  BY DEF Backed, Fresh, NoTX

\* Recording the answer a component did give keeps a list backed.
LEMMA BackedExcept ==
    ASSUME NEW a, NEW r, NEW l \in List, NEW c \in Component, NEW s \in TryStatus,
           Backed(l, a, r), s = "successful" => c \in a, s = "failure" => c \in r
    PROVE  Backed([l EXCEPT ![c] = s], a, r)
  BY DEF Backed, List

\* An executor that returns forgets its list and its outcome.
LEMMA ReturnKeepsInv ==
    ASSUME TypeOK, NEW e \in Executor, NEW p \in ExecPC \ {"mark", "call", "submitDB", "start", "seed"},
           Return(e, p), LogIsBacked, OutcomeJustified, TryClaimedOnce,
           acked' = acked, rejected' = rejected, age' = age
    PROVE  /\ \A x \in Executor : Backed(list'[x], acked', rejected')
           /\ OutcomeJustified'
           /\ pc'[Foreground] \in {"start", "seed"} => pc[Foreground] \in {"start", "seed"}
<1>1. \A x \in Executor : Backed(list'[x], acked', rejected')
  BY BackedLemma DEF Return, TypeOK, LogIsBacked
<1>2. OutcomeJustified'
  BY DEF Return, Goto, TypeOK, OutcomeJustified
<1> QED BY <1>1, <1>2 DEF Return, Goto, TypeOK, Executor

\* Every step keeps the outcome of the transaction backed by its components' answers.
LEMMA OutcomeInvStep == TypeOK /\ OutcomeInv /\ [Next]_vars => OutcomeInv'
<1> SUFFICES ASSUME TypeOK, OutcomeInv, [Next]_vars PROVE OutcomeInv'
  OBVIOUS
<1> USE DEF OutcomeInv
<1>f. Foreground \in Executor /\ \A n \in Node : n \in Executor /\ n # Foreground
  BY NodeAssumption DEF Executor
<1>1. CASE UNCHANGED vars
  BY <1>1 DEF vars, store, tryVars, execVars, locals, business, LogIsBacked, TryClaimedOnce,
     OutcomeJustified, ConfirmNeedsAllAcks, CancelHasCause
<1>2. CASE CreateTX
  BY <1>f, <1>2 DEF CreateTX, Goto, TypeOK, tryVars, locals, business, LogIsBacked,
     TryClaimedOnce, OutcomeJustified, ConfirmNeedsAllAcks, CancelHasCause
<1>3. CASE SeedRedis
  <2>1. LogIsBacked'
    BY <1>3, BackedLemma DEF SeedRedis, locals, business, LogIsBacked
  <2> QED BY <1>f, <1>3, <2>1 DEF SeedRedis, Goto, TypeOK, locals, business, TryClaimedOnce,
             OutcomeJustified, ConfirmNeedsAllAcks, CancelHasCause
<1>4. CASE AwaitTries
  BY <1>f, <1>4 DEF AwaitTries, Goto, TypeOK, store, locals, business, LogIsBacked,
     TryClaimedOnce, OutcomeJustified, ConfirmNeedsAllAcks, CancelHasCause
<1>5. CASE GetTX
  <2>1. LogIsBacked'
    BY <1>f, <1>5 DEF GetTX, TypeOK, store, tryVars, business, LogIsBacked
  <2> QED BY <1>f, <1>5, <2>1 DEF GetTX, Goto, TypeOK, store, tryVars, business,
             TryClaimedOnce, OutcomeJustified, ConfirmNeedsAllAcks, CancelHasCause
<1>6. CASE FillRedis
  <2>1. LogIsBacked'
    BY <1>f, <1>6 DEF FillRedis, tryVars, locals, business, LogIsBacked
  <2> QED BY <1>f, <1>6, <2>1 DEF FillRedis, Goto, TypeOK, tryVars, locals, business,
             TryClaimedOnce, OutcomeJustified, ConfirmNeedsAllAcks, CancelHasCause
<1>7. ASSUME NEW c \in Component, TryStep(c) PROVE OutcomeInv'
  <2>0. Backed(UpdatedList(c), acked, rejected)
    BY BackedExcept DEF UpdatedList, LogIsBacked, TypeOK, Backed, List
  <2>e. TryEnds(c) => /\ Backed(tres', acked, rejected)
                      /\ \A d \in Component : Backed(tlist'[d], acked, rejected)
                      /\ tpc' = [tpc EXCEPT ![c] = "done"]
    <3>1. ASSUME TryEnds(c) PROVE Backed(tres', acked, rejected)
      BY <3>1, BackedExcept DEF TryEnds, LogIsBacked, TypeOK, TryStatus
    <3>2. ASSUME TryEnds(c) PROVE \A d \in Component : tlist'[d] = tlist[d] \/ tlist'[d] = Fresh
      BY <3>2 DEF TryEnds, TypeOK
    <3> QED BY <3>1, <3>2, BackedLemma DEF TryEnds, TryGoto, LogIsBacked
  <2>1. CASE TryMark(c)
    <3>1. <<c, "try">> \notin mark
      BY <2>1 DEF TryMark, TryClaimedOnce
    <3>2. LogIsBacked'
      <4>1. CASE TryEnds(c)
        BY <2>1, <2>e, <4>1 DEF TryMark, TryGivesUp, LogIsBacked, store, execVars, locals,
           business
      <4>2. CASE ~TryEnds(c)
        <5>1. tres' = tres
          BY <2>1, <3>1, <4>2 DEF TryMark, TryGivesUp, TypeOK, List
        <5> QED BY <2>1, <4>2, <5>1 DEF TryMark, TryGivesUp, LogIsBacked, store, execVars,
                   locals, business
      <4> QED BY <4>1, <4>2
    <3>3. TryClaimedOnce'
      BY <2>1, <3>1, <2>e DEF TryMark, TryGivesUp, TryGoto, TryClaimedOnce, TypeOK, execVars
    <3> QED BY <2>1, <3>2, <3>3 DEF TryMark, store, execVars, locals, business,
               OutcomeJustified, ConfirmNeedsAllAcks, CancelHasCause
  <2>2. CASE TryCall(c)
    <3>1. acked \subseteq acked' /\ rejected \subseteq rejected'
          /\ acked' \subseteq Component
      BY <2>2 DEF TryCall, TypeOK
    <3>2. Backed(tres', acked', rejected')
      <4>1. Backed(tres, acked', rejected')
        BY <3>1, BackedLemma DEF LogIsBacked
      <4>2. CASE tres' = tres
        BY <4>1, <4>2
      <4>3. CASE tres' = [tres EXCEPT ![c] = "successful"] /\ c \in acked'
        BY <4>1, <4>3, BackedExcept DEF TypeOK, TryStatus
      <4>4. CASE tres' = [tres EXCEPT ![c] = "failure"] /\ c \in rejected'
        BY <4>1, <4>4, BackedExcept DEF TypeOK, TryStatus
      <4> QED BY <2>2, <4>2, <4>3, <4>4 DEF TryCall
    <3>3. LogIsBacked'
      BY <2>2, <3>1, <3>2, BackedLemma DEF TryCall, LogIsBacked, store, execVars, locals
    <3>4. TryClaimedOnce'
      BY <2>2 DEF TryCall, TryGoto, TryClaimedOnce, TypeOK, execVars
    <3>5. OutcomeJustified'
      BY <2>2, <3>1 DEF TryCall, OutcomeJustified, execVars, locals
    <3>6. ConfirmNeedsAllAcks' /\ CancelHasCause'
      BY <2>2, <3>1 DEF TryCall, ConfirmNeedsAllAcks, CancelHasCause, store
    <3> QED BY <3>3, <3>4, <3>5, <3>6
  <2>3. CASE TryRead(c)
    <3>1. LogIsBacked'
      <4>1. CASE TryEnds(c)
        BY <2>3, <2>e, <4>1 DEF TryRead, TryGivesUp, LogIsBacked, store, execVars, locals,
           business
      <4>2. CASE ~TryEnds(c)
        BY <2>3, <4>2 DEF TryRead, TryGivesUp, LogIsBacked, TypeOK, store, execVars, locals,
           business
      <4> QED BY <4>1, <4>2
    <3>2. TryClaimedOnce'
      BY <2>3, <2>e DEF TryRead, TryGivesUp, TryGoto, TryClaimedOnce, TypeOK, execVars
    <3> QED BY <2>3, <3>1, <3>2 DEF TryRead, store, execVars, locals, business,
               OutcomeJustified, ConfirmNeedsAllAcks, CancelHasCause
  <2>4. CASE TryWriteDB(c)
    <3>1. LogIsBacked'
      <4>1. CASE TryEnds(c)
        BY <2>0, <2>4, <2>e, <4>1 DEF TryWriteDB, TryGivesUp, LogIsBacked, execVars, locals,
           business
      <4>2. CASE ~TryEnds(c)
        BY <2>0, <2>4, <4>2 DEF TryWriteDB, TryGivesUp, LogIsBacked, execVars, locals, business
      <4> QED BY <4>1, <4>2
    <3>2. TryClaimedOnce'
      BY <2>4, <2>e DEF TryWriteDB, TryGivesUp, TryGoto, TryClaimedOnce, TypeOK, execVars
    <3> QED BY <2>4, <3>1, <3>2 DEF TryWriteDB, execVars, locals, business,
               OutcomeJustified, ConfirmNeedsAllAcks, CancelHasCause
  <2>5. CASE TryWriteRedis(c)
    <3>1. LogIsBacked'
      BY <2>0, <2>5, <2>e DEF TryWriteRedis, LogIsBacked, execVars, locals, business
    <3>2. TryClaimedOnce'
      BY <2>5, <2>e DEF TryWriteRedis, TryClaimedOnce, TypeOK, execVars
    <3> QED BY <2>5, <3>1, <3>2 DEF TryWriteRedis, execVars, locals, business,
               OutcomeJustified, ConfirmNeedsAllAcks, CancelHasCause
  <2> QED BY <1>7, <2>1, <2>2, <2>3, <2>4, <2>5 DEF TryStep
<1>8. ASSUME NEW e \in Executor, AdvanceStep(e) PROVE OutcomeInv'
  <2>0. /\ Leave(e) \in ExecPC \ {"mark", "call", "submitDB", "start", "seed"}
        /\ back[e] \in ExecPC \ {"mark", "call", "submitDB", "start", "seed"}
    BY DEF Leave, ExecPC, TypeOK
  <2>1. CASE Decide(e)
    <3> DEFINE status == getStatus(list[e], age >= 1)
    <3>1. CASE Return(e, Leave(e))
      BY <2>0, <2>1, <3>1, ReturnKeepsInv DEF Decide, LogIsBacked, TryClaimedOnce,
         ConfirmNeedsAllAcks, CancelHasCause, store, tryVars, business
    <3>2. CASE ~Return(e, Leave(e))
      <4>1. /\ status = "successful" => acked = Component
            /\ status = "failure" => (rejected # {} \/ age >= 1)
            /\ status # "hanging"
        <5>1. status # "hanging"
          BY <2>1, <3>2 DEF Decide
        <5>2. Backed(list[e], acked, rejected)
          BY DEF LogIsBacked
        <5>3. acked \subseteq Component
          BY DEF TypeOK
        <5> QED BY <5>1, <5>2, <5>3 DEF getStatus, Backed
      <4>2. LogIsBacked'
        <5>1. \A x \in Executor : list'[x] = list[x] \/ list'[x] = Fresh
          BY <2>1, <3>2 DEF Decide, TypeOK
        <5> QED BY <2>1, <5>1, BackedLemma DEF Decide, LogIsBacked, store, tryVars, business
      <4>3. outcome' = [outcome EXCEPT ![e] = status] /\ pc' = [pc EXCEPT ![e] = "mark"]
        BY <2>1, <3>2 DEF Decide, Goto
      <4> HIDE DEF status
      <4>4. OutcomeJustified'
        BY <2>1, <4>1, <4>3 DEF Decide, OutcomeJustified, TypeOK, business
      <4>5. TryClaimedOnce'
        BY <1>f, <2>1, <4>3 DEF Decide, TryClaimedOnce, TypeOK, tryVars
      <4> QED BY <2>1, <4>2, <4>4, <4>5 DEF Decide, ConfirmNeedsAllAcks, CancelHasCause,
                 store, business
    <3> QED BY <3>1, <3>2
  <2>2. CASE MarkPhase(e)
    <3>1. SecondPhase(e) # "try"
      BY DEF SecondPhase
    <3>2. /\ UNCHANGED <<store, age, tryVars, acked, rejected, confirmed, cancelled>>
          /\ \A c \in Component : <<c, "try">> \in mark' => <<c, "try">> \in mark
      BY <2>2, <3>1 DEF MarkPhase
    <3>3. CASE Return(e, Leave(e))
      BY <2>0, <3>2, <3>3, ReturnKeepsInv DEF LogIsBacked, TryClaimedOnce, ConfirmNeedsAllAcks,
         CancelHasCause, store, tryVars
    <3>4. CASE ~Return(e, Leave(e))
      <4>1. /\ UNCHANGED <<list, outcome>>
            /\ \E p \in {"mark", "call", "submitDB"} : pc' = [pc EXCEPT ![e] = p]
        BY <2>2, <3>4 DEF MarkPhase, NextComponent, Goto, locals
      <4>2. OutcomeJustified'
        BY <2>2, <3>2, <4>1 DEF MarkPhase, OutcomeJustified, TypeOK
      <4>3. TryClaimedOnce'
        BY <1>f, <3>2, <4>1 DEF TryClaimedOnce, TypeOK, tryVars
      <4> QED BY <3>2, <4>1, <4>2, <4>3 DEF LogIsBacked, ConfirmNeedsAllAcks, CancelHasCause,
                 store, tryVars
    <3> QED BY <3>3, <3>4
  <2>3. CASE CallPhase(e)
    <3>1. /\ UNCHANGED <<store, age, tryVars, acked, rejected>>
          /\ \A c \in Component : <<c, "try">> \in mark' => <<c, "try">> \in mark
      BY <2>3 DEF CallPhase, PhaseErrs
    <3>2. ConfirmNeedsAllAcks' /\ CancelHasCause'
      <4>1. outcome[e] = "successful" \/ outcome[e] = "failure"
        BY <2>3 DEF CallPhase, OutcomeJustified, TypeOK, TryStatus
      <4>2. CASE outcome[e] = "successful"
        BY <2>3, <3>1, <4>2 DEF CallPhase, TakesEffect, NoEffect, SecondPhase, OutcomeJustified,
           ConfirmNeedsAllAcks, CancelHasCause, store
      <4>3. CASE outcome[e] = "failure"
        BY <2>3, <3>1, <4>3 DEF CallPhase, TakesEffect, NoEffect, SecondPhase, OutcomeJustified,
           ConfirmNeedsAllAcks, CancelHasCause, store
      <4> QED BY <4>1, <4>2, <4>3
    <3>3. CASE Return(e, Leave(e))
      BY <2>0, <3>1, <3>2, <3>3, ReturnKeepsInv DEF LogIsBacked, TryClaimedOnce, store, tryVars
    <3>4. CASE ~Return(e, Leave(e))
      <4>1. /\ UNCHANGED <<list, outcome>>
            /\ \E p \in {"mark", "call", "submitDB"} : pc' = [pc EXCEPT ![e] = p]
        BY <2>3, <3>4 DEF CallPhase, PhaseErrs, NextComponent, Goto, TypeOK
      <4>2. OutcomeJustified'
        BY <2>3, <3>1, <4>1 DEF CallPhase, OutcomeJustified, TypeOK
      <4>3. TryClaimedOnce'
        BY <1>f, <3>1, <4>1 DEF TryClaimedOnce, TypeOK, tryVars
      <4> QED BY <3>1, <3>2, <4>1, <4>2, <4>3 DEF LogIsBacked, store, tryVars
    <3> QED BY <3>3, <3>4
  <2>4. CASE SubmitDBSucceeds(e)
    <3>1. LogIsBacked' /\ TryClaimedOnce' /\ OutcomeJustified'
      BY <1>f, <2>4 DEF SubmitDBSucceeds, Goto, TypeOK, LogIsBacked, TryClaimedOnce,
         OutcomeJustified, tryVars, locals, business
    <3> QED BY <2>4, <3>1 DEF SubmitDBSucceeds, OutcomeJustified, ConfirmNeedsAllAcks,
               CancelHasCause, business
  <2>5. CASE SubmitDBFails(e)
    <3>1. LogIsBacked' /\ TryClaimedOnce' /\ OutcomeJustified'
      BY <2>0, <2>5, ReturnKeepsInv DEF SubmitDBFails, LogIsBacked, TryClaimedOnce, tryVars,
         business
    <3> QED BY <2>5, <3>1 DEF SubmitDBFails, OutcomeJustified, ConfirmNeedsAllAcks,
               CancelHasCause, business
  <2>6. CASE SubmitRead(e)
    <3>1. CASE Return(e, back[e])
      BY <2>0, <2>6, <3>1, ReturnKeepsInv DEF SubmitRead, LogIsBacked, TryClaimedOnce,
         ConfirmNeedsAllAcks, CancelHasCause, store, tryVars, business
    <3>2. CASE ~Return(e, back[e])
      BY <1>f, <2>6, <3>2 DEF SubmitRead, Goto, TypeOK, LogIsBacked, TryClaimedOnce,
         OutcomeJustified, ConfirmNeedsAllAcks, CancelHasCause, store, tryVars, business
    <3> QED BY <3>1, <3>2
  <2>7. CASE SubmitRedis(e)
    BY <2>0, <2>7, ReturnKeepsInv DEF SubmitRedis, LogIsBacked, TryClaimedOnce,
       ConfirmNeedsAllAcks, CancelHasCause, tryVars, business
  <2> QED BY <1>8, <2>1, <2>2, <2>3, <2>4, <2>5, <2>6, <2>7 DEF AdvanceStep
<1>9. ASSUME NEW n \in Node, MonitorStep(n) PROVE OutcomeInv'
  <2>1. /\ UNCHANGED <<store, mark, age, tryVars, business>>
        /\ pc'[Foreground] = pc[Foreground]
        /\ \A e \in Executor : pc'[e] \in {"mark", "call"} => pc[e] = pc'[e]
    BY <1>9, <1>f DEF MonitorStep, Lock, Query, Requery, QueryFails, Unlock, Goto, TypeOK
  <2>2. LogIsBacked'
    BY <1>9, <1>f, <2>1 DEF MonitorStep, Lock, Query, Requery, QueryFails, Unlock, LogIsBacked,
       TypeOK, store, tryVars, business, locals
  <2>3. OutcomeJustified'
    <3>1. CASE Query(n)
      BY <1>f, <3>1 DEF Query, Goto, OutcomeJustified, TypeOK, business
    <3>2. CASE ~Query(n)
      BY <1>9, <1>f, <3>2 DEF MonitorStep, Lock, Requery, QueryFails, Unlock, Goto,
         OutcomeJustified, TypeOK, business, locals
    <3> QED BY <3>1, <3>2
  <2> QED BY <2>1, <2>2, <2>3 DEF TryClaimedOnce, ConfirmNeedsAllAcks, CancelHasCause, store,
             tryVars, business
<1>10. ASSUME NEW n \in Node, Crash(n) PROVE OutcomeInv'
  <2>1. CASE n = Home
    <3>1. /\ \A e \in Executor : list'[e] = list[e] \/ list'[e] = Fresh
          /\ tres' = Fresh /\ \A c \in Component : tlist'[c] = Fresh
      BY <1>10, <2>1 DEF Crash, CrashHome, Fresh
    <3>2. LogIsBacked'
      BY <1>10, <3>1, BackedLemma DEF Crash, LogIsBacked, store, business
    <3>3. \A e \in Executor : \/ pc'[e] = pc[e] /\ outcome'[e] = outcome[e]
                              \/ pc'[e] \in {"idle", "returned"} /\ outcome'[e] = "hanging"
      <4> SUFFICES ASSUME NEW e \in Executor
                   PROVE  \/ pc'[e] = pc[e] /\ outcome'[e] = outcome[e]
                          \/ pc'[e] \in {"idle", "returned"} /\ outcome'[e] = "hanging"
        OBVIOUS
      <4>1. CASE e = Foreground
        <5>1. outcome'[e] = "hanging"
          BY <1>10, <2>1, <4>1 DEF Crash, CrashHome
        <5>2. pc'[e] = "returned"
          BY <1>10, <2>1, <4>1 DEF Crash, CrashHome
        <5> QED BY <4>1, <5>1, <5>2
      <4>2. CASE e = Home
        <5>1. outcome'[e] = "hanging"
          BY <1>10, <2>1, <4>2 DEF Crash, CrashHome
        <5>2. pc'[e] = "idle"
          BY <1>10, <1>f, <2>1, <4>2 DEF Crash, CrashHome
        <5> QED BY <5>1, <5>2
      <4>3. CASE e \notin {Home, Foreground}
        <5>1. outcome'[e] = outcome[e]
          BY <1>10, <2>1, <4>3 DEF Crash, CrashHome
        <5>2. pc'[e] = pc[e]
          BY <1>10, <2>1, <4>3 DEF Crash, CrashHome
        <5> QED BY <5>1, <5>2
      <4> QED BY <4>1, <4>2, <4>3
    <3>4. OutcomeJustified'
      BY <1>10, <3>3 DEF Crash, OutcomeJustified, business
    <3>5. TryClaimedOnce'
      BY <1>10, <1>f, <2>1 DEF Crash, CrashHome, TryClaimedOnce
    <3> QED BY <1>10, <3>2, <3>4, <3>5 DEF Crash, ConfirmNeedsAllAcks, CancelHasCause, store,
               business
  <2>2. CASE n # Home
    <3>1. "idle" \in ExecPC \ {"mark", "call", "submitDB", "start", "seed"}
      BY DEF ExecPC
    <3> QED BY <1>10, <1>f, <2>2, <3>1, ReturnKeepsInv DEF Crash, LogIsBacked, TryClaimedOnce,
               ConfirmNeedsAllAcks, CancelHasCause, store, business
  <2> QED BY <2>1, <2>2
<1>11. CASE LockExpires
  BY <1>11 DEF LockExpires, store, tryVars, execVars, locals, business, LogIsBacked,
     TryClaimedOnce, OutcomeJustified, ConfirmNeedsAllAcks, CancelHasCause
<1>12. CASE Tick
  BY <1>12 DEF Tick, TypeOK, store, tryVars, execVars, locals, business, LogIsBacked,
     TryClaimedOnce, OutcomeJustified, ConfirmNeedsAllAcks, CancelHasCause
<1> QED
  BY <1>1, <1>2, <1>3, <1>4, <1>5, <1>6, <1>7, <1>8, <1>9, <1>10, <1>11, <1>12
     DEF Next, ForegroundStep

\* The inductive invariant holds in every reachable state.
LEMMA OutcomeInvHolds == Spec => []OutcomeInv
<1>1. Init => OutcomeInv
  <2> SUFFICES ASSUME Init PROVE OutcomeInv
    OBVIOUS
  <2>1. LogIsBacked
    BY BackedLemma DEF Init, LogIsBacked, Backed
  <2> QED BY <2>1 DEF Init, OutcomeInv, TryClaimedOnce, OutcomeJustified, ConfirmNeedsAllAcks,
             CancelHasCause
<1> QED BY <1>1, OutcomeInvStep, Typing, PTL DEF Spec

\* No Confirm takes effect and no success is recorded unless every component's Try
\* answered ACK, for any number of components and nodes, any interleaving, lost log
\* updates, store errors and crashes.
THEOREM ConfirmSafety == Spec => []ConfirmNeedsAllAcks
  BY OutcomeInvHolds, PTL DEF OutcomeInv

\* No Cancel takes effect unless a Try was rejected or the transaction timed out.
THEOREM CancelSafety == Spec => []CancelHasCause
  BY OutcomeInvHolds, PTL DEF OutcomeInv

\* No copy of the log ever holds a try result that the component did not give.
THEOREM LogSafety == Spec => []LogIsBacked
  BY OutcomeInvHolds, PTL DEF OutcomeInv

-----------------------------------------------------------------------------
(***************************************************************************)
(* The second phase is claimed before it is run and before it is recorded. *)
(* RunsClaimed ties the runs of a second-phase call to its idempotency     *)
(* mark; ClaimedBy says how much of the second phase an executor has       *)
(* claimed at each point of advanceProgress and of TXSubmit.               *)
(***************************************************************************)
RunsClaimed ==
    \A x \in Component \X Phase : runs[x] <= 1 /\ (x \notin mark => runs[x] = 0)

ClaimedBy(e) ==
    /\ pc[e] \notin {"mark", "call"} => idx[e] = 1
    /\ pc[e] \in {"mark", "call"} =>
          \A c \in Component : c < idx[e] => <<c, SecondPhase(e)>> \in mark
    /\ pc[e] = "call" => <<idx[e], SecondPhase(e)>> \in mark
    /\ pc[e] = "submitDB" =>
          \/ outcome[e] = "failure" /\ age = 2
          \/ \A c \in Component : <<c, SecondPhase(e)>> \in mark

ClaimInv == SettledIsClaimed /\ \A e \in Executor : ClaimedBy(e)

\* Every step leaves the runs of a phase alone, or begins one whose mark was not set.
LEMMA RunsStep == TypeOK /\ RunsClaimed /\ [Next]_vars => RunsClaimed'
<1> SUFFICES ASSUME TypeOK, RunsClaimed, [Next]_vars PROVE RunsClaimed'
  OBVIOUS
<1>1. CASE runs' = runs /\ mark \subseteq mark'
  BY <1>1 DEF RunsClaimed
<1>2. ASSUME NEW e \in Executor, MarkPhase(e), runs' # runs PROVE RunsClaimed'
  <2> DEFINE key == <<idx[e], SecondPhase(e)>>
             S == Component \X Phase
  <2>1. key \notin mark /\ mark' = mark \cup {key} /\ runs' = [runs EXCEPT ![key] = @ + 1]
    BY <1>2 DEF MarkPhase
  <2>2. key \in S /\ runs \in [S -> Nat]
    BY DEF SecondPhase, Phase, TypeOK
  <2>3. \A x \in S : runs[x] <= 1 /\ (x \notin mark => runs[x] = 0)
    BY DEF RunsClaimed
  <2> HIDE DEF key, S
  <2>4. \A x \in S : runs'[x] <= 1 /\ (x \notin mark' => runs'[x] = 0)
    BY <2>1, <2>2, <2>3
  <2> QED BY <2>4 DEF RunsClaimed, S
<1>3. CASE UNCHANGED vars
  BY <1>1, <1>3 DEF vars, business
<1>4. CASE ForegroundStep
  BY <1>1, <1>4 DEF ForegroundStep, CreateTX, SeedRedis, AwaitTries, GetTX, FillRedis, business
<1>5. ASSUME NEW c \in Component, TryStep(c) PROVE RunsClaimed'
  BY <1>1, <1>5 DEF TryStep, TryMark, TryCall, TryRead, TryWriteDB, TryWriteRedis, business
<1>6. ASSUME NEW e \in Executor, AdvanceStep(e) PROVE RunsClaimed'
  <2>1. CASE MarkPhase(e)
    BY <1>1, <1>2, <2>1 DEF MarkPhase
  <2>2. CASE CallPhase(e)
    BY <1>1, <2>2 DEF CallPhase, PhaseErrs
  <2> QED BY <1>1, <1>6, <2>1, <2>2 DEF AdvanceStep, Decide, SubmitDBSucceeds, SubmitDBFails,
             SubmitRead, SubmitRedis, business
<1>7. ASSUME NEW n \in Node, MonitorStep(n) \/ Crash(n) PROVE RunsClaimed'
  BY <1>1, <1>7 DEF MonitorStep, Lock, Query, Requery, QueryFails, Unlock, Crash, business
<1>8. CASE LockExpires \/ Tick
  BY <1>1, <1>8 DEF LockExpires, Tick, business
<1> QED BY <1>3, <1>4, <1>5, <1>6, <1>7, <1>8 DEF Next

\* CheckAndMark lets at most one executor of the cluster begin a component's Confirm, and
\* at most one its Cancel, for any number of nodes, components and crashes.
THEOREM OneRunSafety == Spec => []OneSecondPhaseRun
<1>1. Init => RunsClaimed
  BY DEF Init, RunsClaimed
<1>2. RunsClaimed => OneSecondPhaseRun
  BY DEF RunsClaimed, OneSecondPhaseRun
<1> QED BY <1>1, <1>2, RunsStep, Typing, PTL DEF Spec

\* What an executor has claimed stays claimed while it does not move: marks are never
\* removed and a transaction does not grow younger.
LEMMA StillClaimed ==
    ASSUME NEW e \in Executor, ClaimedBy(e), mark \subseteq mark', age = 2 => age' = 2,
           pc'[e] = pc[e], idx'[e] = idx[e], outcome'[e] = outcome[e]
    PROVE  ClaimedBy(e)'
  BY DEF ClaimedBy, SecondPhase

\* An executor that returns owes nothing.
LEMMA ReturnClaims ==
    ASSUME TypeOK, ClaimInv, NEW e \in Executor, NEW p \in ExecPC \ {"mark", "call", "submitDB"},
           Return(e, p), mark \subseteq mark', age = 2 => age' = 2
    PROVE  \A x \in Executor : ClaimedBy(x)'
<1> SUFFICES ASSUME NEW x \in Executor PROVE ClaimedBy(x)'
  OBVIOUS
<1>1. CASE x = e
  BY <1>1 DEF Return, Goto, TypeOK, ClaimedBy
<1>2. CASE x # e
  <2>1. pc'[x] = pc[x] /\ idx'[x] = idx[x] /\ outcome'[x] = outcome[x]
    BY <1>2 DEF Return, Goto, TypeOK
  <2> QED BY <2>1, StillClaimed DEF ClaimInv
<1> QED BY <1>1, <1>2

\* The loop of advanceProgress goes on from a component whose phase is marked.
LEMMA NextComponentClaims ==
    ASSUME TypeOK, ClaimInv, NEW e \in Executor, NextComponent(e), mark \subseteq mark',
           pc[e] \in {"mark", "call"}, <<idx[e], SecondPhase(e)>> \in mark', age' = age
    PROVE  \A x \in Executor : ClaimedBy(x)'
<1> SUFFICES ASSUME NEW x \in Executor PROVE ClaimedBy(x)'
  OBVIOUS
<1>1. CASE x = e
  <2>1. outcome' = outcome /\ SecondPhase(e)' = SecondPhase(e)
    BY DEF NextComponent, SecondPhase
  <2>2. \A c \in Component : c < idx[e] => <<c, SecondPhase(e)>> \in mark'
    BY DEF ClaimInv, ClaimedBy
  <2>3. \A c \in Component : c <= idx[e] => <<c, SecondPhase(e)>> \in mark'
    <3> SUFFICES ASSUME NEW c \in Component, c <= idx[e], c # idx[e] PROVE c < idx[e]
      BY <2>2
    <3> QED BY DEF TypeOK, Component
  <2>4. CASE idx[e] < N
    <3>1. pc'[e] = "mark" /\ idx'[e] = idx[e] + 1
      BY <2>4 DEF NextComponent, Goto, TypeOK
    <3> QED BY <1>1, <2>1, <2>3, <3>1 DEF ClaimedBy, Component, TypeOK
  <2>5. CASE ~(idx[e] < N)
    <3>1. pc'[e] = "submitDB" /\ idx'[e] = 1
      BY <2>5 DEF NextComponent, Goto, TypeOK
    <3>2. \A c \in Component : c <= idx[e]
      BY <2>5, NAssumption DEF TypeOK, Component
    <3> QED BY <1>1, <2>1, <2>3, <3>1, <3>2 DEF ClaimedBy
  <2> QED BY <2>4, <2>5
<1>2. CASE x # e
  <2>1. pc'[x] = pc[x] /\ idx'[x] = idx[x] /\ outcome'[x] = outcome[x]
    BY <1>2 DEF NextComponent, Goto, TypeOK
  <2> QED BY <2>1, StillClaimed DEF ClaimInv
<1> QED BY <1>1, <1>2

\* Every step keeps what executors have claimed, and records an outcome only once it is
\* claimed.
LEMMA ClaimStep == TypeOK /\ OutcomeInv /\ ClaimInv /\ [Next]_vars => ClaimInv'
<1> SUFFICES ASSUME TypeOK, OutcomeInv, ClaimInv, [Next]_vars PROVE ClaimInv'
  OBVIOUS
<1>s. ASSUME dbStatus' \in {dbStatus, "hanging"}, mark \subseteq mark', age = 2 => age' = 2
      PROVE SettledIsClaimed'
  BY <1>s DEF ClaimInv, SettledIsClaimed
<1>k. ASSUME UNCHANGED <<pc, idx, outcome>>, mark \subseteq mark', age = 2 => age' = 2
      PROVE \A e \in Executor : ClaimedBy(e)'
  BY <1>k, StillClaimed DEF ClaimInv
<1>m. ASSUME NEW e \in Executor, NEW p \in ExecPC \ {"mark", "call", "submitDB"},
             pc[e] \notin {"mark", "call"}, Goto(e, p), UNCHANGED <<mark, age, idx, outcome>>
      PROVE \A x \in Executor : ClaimedBy(x)'
  <2> SUFFICES ASSUME NEW x \in Executor PROVE ClaimedBy(x)'
    OBVIOUS
  <2>1. CASE x = e
    BY <1>m, <2>1 DEF Goto, TypeOK, ClaimInv, ClaimedBy
  <2>2. CASE x # e
    BY <1>m, <2>2, StillClaimed DEF Goto, TypeOK, ClaimInv
  <2> QED BY <2>1, <2>2
<1>f. Foreground \in Executor
  BY DEF Executor
<1>1. CASE UNCHANGED vars
  BY <1>1, <1>s, <1>k DEF ClaimInv, vars, store, execVars, locals
<1>2. CASE ForegroundStep
  <2>1. UNCHANGED <<mark, age, idx, outcome>> /\ dbStatus' \in {dbStatus, "hanging"}
    BY <1>2 DEF ForegroundStep, CreateTX, SeedRedis, AwaitTries, GetTX, FillRedis, store,
       locals
  <2>2. PICK p \in ExecPC \ {"mark", "call", "submitDB"} : Goto(Foreground, p)
    BY <1>2 DEF ForegroundStep, CreateTX, SeedRedis, AwaitTries, GetTX, FillRedis, ExecPC
  <2>3. pc[Foreground] \notin {"mark", "call"}
    BY <1>2 DEF ForegroundStep, CreateTX, SeedRedis, AwaitTries, GetTX, FillRedis
  <2> QED BY <1>f, <1>m, <1>s, <2>1, <2>2, <2>3 DEF ClaimInv
<1>3. ASSUME NEW c \in Component, TryStep(c) PROVE ClaimInv'
  <2>1. UNCHANGED <<dbStatus, age, pc, idx, outcome>> /\ mark \subseteq mark'
    BY <1>3 DEF TryStep, TryMark, TryCall, TryRead, TryWriteDB, TryWriteRedis, store, execVars,
       locals
  <2> QED BY <1>s, <1>k, <2>1 DEF ClaimInv
<1>4. ASSUME NEW e \in Executor, AdvanceStep(e) PROVE ClaimInv'
  <2>0. /\ Leave(e) \in ExecPC \ {"mark", "call", "submitDB"}
        /\ back[e] \in ExecPC \ {"mark", "call", "submitDB"}
    BY DEF Leave, ExecPC, TypeOK
  <2>1. CASE Decide(e)
    <3>1. UNCHANGED <<dbStatus, mark, age>>
      BY <2>1 DEF Decide, store
    <3>2. CASE Return(e, Leave(e))
      BY <1>s, <2>0, <3>1, <3>2, ReturnClaims DEF ClaimInv
    <3>3. CASE ~Return(e, Leave(e))
      <4>1. idx' = idx /\ pc' = [pc EXCEPT ![e] = "mark"] /\ idx[e] = 1
            /\ \A x \in Executor : x # e => outcome'[x] = outcome[x]
        BY <2>1, <3>3 DEF Decide, Goto, TypeOK, ClaimInv, ClaimedBy
      <4>2. ASSUME NEW x \in Executor PROVE ClaimedBy(x)'
        <5>1. CASE x = e
          BY <4>1, <5>1 DEF ClaimedBy, TypeOK, Component
        <5>2. CASE x # e
          BY <3>1, <4>1, <5>2, StillClaimed DEF ClaimInv, TypeOK
        <5> QED BY <5>1, <5>2
      <4> QED BY <1>s, <3>1, <4>2 DEF ClaimInv
    <3> QED BY <3>2, <3>3
  <2>2. CASE MarkPhase(e)
    <3> DEFINE key == <<idx[e], SecondPhase(e)>>
    <3>1. UNCHANGED <<dbStatus, age>> /\ mark \subseteq mark' /\ pc[e] = "mark"
      BY <2>2 DEF MarkPhase, store
    <3>2. CASE Return(e, Leave(e))
      BY <1>s, <2>0, <3>1, <3>2, ReturnClaims DEF ClaimInv
    <3>3. CASE key \in mark /\ NextComponent(e)
      BY <1>s, <3>1, <3>3, NextComponentClaims DEF ClaimInv
    <3>4. CASE mark' = mark \cup {key} /\ Goto(e, "call") /\ UNCHANGED locals
      <4>1. ASSUME NEW x \in Executor PROVE ClaimedBy(x)'
        <5>1. CASE x = e
          BY <3>1, <3>4, <5>1 DEF ClaimInv, ClaimedBy, SecondPhase, Goto, TypeOK, locals
        <5>2. CASE x # e
          BY <3>1, <3>4, <5>2, StillClaimed DEF ClaimInv, Goto, TypeOK, locals
        <5> QED BY <5>1, <5>2
      <4> QED BY <1>s, <3>1, <4>1 DEF ClaimInv
    <3> QED BY <2>2, <3>2, <3>3, <3>4 DEF MarkPhase
  <2>3. CASE CallPhase(e)
    <3>1. UNCHANGED <<dbStatus, age>> /\ mark \subseteq mark' /\ pc[e] = "call"
      BY <2>3 DEF CallPhase, PhaseErrs, store
    <3>2. <<idx[e], SecondPhase(e)>> \in mark
      BY <3>1 DEF ClaimInv, ClaimedBy
    <3>3. CASE Return(e, Leave(e))
      BY <1>s, <2>0, <3>1, <3>3, ReturnClaims DEF ClaimInv
    <3>4. CASE NextComponent(e)
      BY <1>s, <3>1, <3>2, <3>4, NextComponentClaims DEF ClaimInv
    <3>5. CASE UNCHANGED <<pc, idx, outcome>>
      BY <1>s, <1>k, <3>1, <3>5 DEF ClaimInv
    <3> QED BY <2>3, <3>3, <3>4, <3>5 DEF CallPhase, PhaseErrs
  <2>4. CASE SubmitDBSucceeds(e) \/ SubmitDBFails(e)
    <3>1. UNCHANGED <<mark, age>> /\ pc[e] = "submitDB" /\ dbStatus' \in {dbStatus, outcome[e]}
      BY <2>4 DEF SubmitDBSucceeds, SubmitDBFails
    <3>2. SettledIsClaimed'
      <4>1. \/ outcome[e] = "failure" /\ age = 2
            \/ \A c \in Component : <<c, SecondPhase(e)>> \in mark
        BY <3>1 DEF ClaimInv, ClaimedBy
      <4> QED BY <3>1, <4>1 DEF ClaimInv, SettledIsClaimed, SecondPhase
    <3>3. CASE Goto(e, "submitRead") /\ UNCHANGED locals
      <4>1. "submitRead" \in ExecPC \ {"mark", "call", "submitDB"}
        BY DEF ExecPC
      <4> QED BY <1>m, <3>1, <3>2, <3>3, <4>1 DEF ClaimInv, locals
    <3>4. CASE Return(e, back[e])
      BY <2>0, <3>1, <3>2, <3>4, ReturnClaims DEF ClaimInv
    <3> QED BY <2>4, <3>3, <3>4 DEF SubmitDBSucceeds, SubmitDBFails
  <2>5. CASE SubmitRead(e) \/ SubmitRedis(e)
    <3>1. UNCHANGED <<dbStatus, mark, age>> /\ pc[e] \in {"submitRead", "submitRedis"}
      BY <2>5 DEF SubmitRead, SubmitRedis, store
    <3>2. CASE Return(e, back[e])
      BY <1>s, <2>0, <3>1, <3>2, ReturnClaims DEF ClaimInv
    <3>3. CASE Goto(e, "submitRedis") /\ UNCHANGED <<outcome, idx>>
      <4>1. "submitRedis" \in ExecPC \ {"mark", "call", "submitDB"}
        BY DEF ExecPC
      <4> QED BY <1>m, <1>s, <3>1, <3>3, <4>1 DEF ClaimInv
    <3> QED BY <2>5, <3>2, <3>3 DEF SubmitRead, SubmitRedis
  <2> QED BY <1>4, <2>1, <2>2, <2>3, <2>4, <2>5 DEF AdvanceStep
<1>5. ASSUME NEW n \in Node, MonitorStep(n) PROVE ClaimInv'
  <2>0. n \in Executor /\ UNCHANGED <<dbStatus, mark, age>>
    BY <1>5 DEF Executor, MonitorStep, Lock, Query, Requery, QueryFails, Unlock, store
  <2>1. CASE Query(n) /\ dbStatus = "hanging" /\ age = 2
    <3>1. /\ pc[n] = "query" /\ pc' = [pc EXCEPT ![n] = "submitDB"] /\ idx' = idx
          /\ outcome' = [outcome EXCEPT ![n] = "failure"]
      BY <2>1 DEF Query, Goto
    <3>2. ASSUME NEW x \in Executor PROVE ClaimedBy(x)'
      <4>1. CASE x = n
        BY <2>0, <2>1, <3>1, <4>1 DEF ClaimInv, ClaimedBy, TypeOK
      <4>2. CASE x # n
        BY <2>0, <3>1, <4>2, StillClaimed DEF ClaimInv, TypeOK
      <4> QED BY <4>1, <4>2
    <3> QED BY <1>s, <2>0, <3>2 DEF ClaimInv
  <2>2. CASE ~(Query(n) /\ dbStatus = "hanging" /\ age = 2)
    <3>1. UNCHANGED <<idx, outcome>> /\ pc[n] \notin {"mark", "call"}
      BY <1>5, <2>2 DEF MonitorStep, Lock, Query, Requery, QueryFails, Unlock, locals
    <3>2. PICK p \in ExecPC \ {"mark", "call", "submitDB"} : Goto(n, p)
      BY <1>5, <2>2 DEF MonitorStep, Lock, Query, Requery, QueryFails, Unlock, ExecPC
    <3> QED BY <1>m, <1>s, <2>0, <3>1, <3>2 DEF ClaimInv
  <2> QED BY <2>1, <2>2
<1>6. ASSUME NEW n \in Node, Crash(n) PROVE ClaimInv'
  <2>0. n \in Executor /\ UNCHANGED <<dbStatus, mark, age>>
    BY <1>6 DEF Executor, Crash, store
  <2>1. CASE n = Home
    <3>1. ASSUME NEW x \in Executor PROVE ClaimedBy(x)'
      <4>1. CASE x \notin {Home, Foreground}
        <5>1. pc'[x] = pc[x]
          BY <1>6, <2>1, <4>1 DEF Crash, CrashHome
        <5>2. idx'[x] = idx[x] /\ outcome'[x] = outcome[x]
          BY <1>6, <2>1, <4>1 DEF Crash, CrashHome
        <5> QED BY <2>0, <5>1, <5>2, StillClaimed DEF ClaimInv
      <4>2. CASE x \in {Home, Foreground}
        <5>1. idx'[x] = 1
          BY <1>6, <2>1, <4>2 DEF Crash, CrashHome
        <5>2. pc' = [[e \in Executor |-> IF e \in {Home, Foreground} THEN "idle" ELSE pc[e]]
                       EXCEPT ![Foreground] = "returned"]
          BY <1>6, <2>1 DEF Crash, CrashHome
        <5>3. pc'[x] \in {"idle", "returned"}
          BY <4>2, <5>2
        <5> QED BY <5>1, <5>3 DEF ClaimedBy
      <4> QED BY <4>1, <4>2
    <3> QED BY <1>s, <2>0, <3>1 DEF ClaimInv
  <2>2. CASE n # Home
    <3>1. "idle" \in ExecPC \ {"mark", "call", "submitDB"} /\ Return(n, "idle")
      BY <1>6, <2>2 DEF ExecPC, Crash
    <3> QED BY <1>s, <2>0, <3>1, ReturnClaims DEF ClaimInv
  <2> QED BY <2>1, <2>2
<1>7. CASE LockExpires
  BY <1>7, <1>s, <1>k DEF LockExpires, ClaimInv, store, execVars, locals
<1>8. CASE Tick
  <2>1. UNCHANGED <<dbStatus, mark, pc, idx, outcome>> /\ (age = 2 => age' = 2)
    BY <1>8, AgeAssumption DEF Tick, store, execVars, locals
  <2> QED BY <1>s, <1>k, <2>1 DEF ClaimInv
<1> QED BY <1>1, <1>2, <1>3, <1>4, <1>5, <1>6, <1>7, <1>8 DEF Next

\* An outcome is recorded only after the second phase of every component was claimed,
\* the 30 minute expiry apart, for any number of components and nodes and any crashes.
THEOREM ClaimSafety == Spec => []SettledIsClaimed
<1>1. Init => ClaimInv
  BY DEF Init, ClaimInv, SettledIsClaimed, ClaimedBy
<1>2. ClaimInv => SettledIsClaimed
  BY DEF ClaimInv
<1> QED BY <1>1, <1>2, ClaimStep, Typing, OutcomeInvHolds, PTL DEF Spec

-----------------------------------------------------------------------------
(***************************************************************************)
(* The transaction manager implements TCCOutcome.  Beside OutcomeInv the   *)
(* refinement needs that nothing runs before the row is in the log, and    *)
(* that CreateTX is what puts it there.                                    *)
(***************************************************************************)
LoggedFirst ==
    dbStatus = "none" =>
        /\ pc[Foreground] \in {"start", "returned"}
        /\ \A n \in Node : pc[n] \in {"idle", "query", "requery", "unlock"}
        /\ \A c \in Component : tpc[c] \in {"off", "done"}

NotYetLogged == pc[Foreground] = "start" => dbStatus = "none"

\* Before the row exists no goroutine but the caller's and the idle monitors moves.
LEMMA LoggedStep == TypeOK /\ OutcomeInv /\ LoggedFirst /\ [Next]_vars => LoggedFirst'
<1> SUFFICES ASSUME TypeOK, OutcomeInv, LoggedFirst, [Next]_vars, dbStatus' = "none"
             PROVE  LoggedFirst'
  BY DEF LoggedFirst
<1>f. Foreground \in Executor /\ Foreground \notin Node /\ \A n \in Node : n \in Executor
  BY NodeAssumption DEF Executor
<1>0. dbStatus = "none"
  <2>1. ASSUME NEW e \in Executor, AdvanceStep(e) PROVE dbStatus = "none"
    BY <2>1 DEF AdvanceStep, Decide, MarkPhase, CallPhase, SubmitDBSucceeds, SubmitDBFails,
       SubmitRead, SubmitRedis, store, TypeOK, TryStatus
  <2>2. ASSUME NEW c \in Component, TryStep(c) PROVE dbStatus = "none"
    BY <2>2 DEF TryStep, TryMark, TryCall, TryRead, TryWriteDB, TryWriteRedis, store
  <2>3. ASSUME NEW n \in Node, MonitorStep(n) \/ Crash(n) PROVE dbStatus = "none"
    BY <2>3 DEF MonitorStep, Lock, Query, Requery, QueryFails, Unlock, Crash, store
  <2>4. CASE ForegroundStep
    BY <2>4 DEF ForegroundStep, CreateTX, SeedRedis, AwaitTries, GetTX, FillRedis, store
  <2>5. CASE LockExpires \/ Tick \/ UNCHANGED vars
    BY <2>5 DEF LockExpires, Tick, vars, store
  <2> QED BY <2>1, <2>2, <2>3, <2>4, <2>5 DEF Next
<1>1. CASE UNCHANGED <<pc, tpc>>
  BY <1>0, <1>1 DEF LoggedFirst
<1>2. CASE ForegroundStep
  <2>1. Goto(Foreground, "returned") /\ UNCHANGED tpc
    BY <1>0, <1>2 DEF LoggedFirst, ForegroundStep, CreateTX, SeedRedis, AwaitTries, GetTX,
       FillRedis, tryVars
  <2> QED BY <1>0, <1>f, <2>1 DEF LoggedFirst, Goto, TypeOK
<1>3. ASSUME NEW c \in Component, TryStep(c) PROVE FALSE
  BY <1>0, <1>3 DEF LoggedFirst, TryStep, TryMark, TryCall, TryRead, TryWriteDB, TryWriteRedis
<1>4. ASSUME NEW e \in Executor, AdvanceStep(e) PROVE FALSE
  BY <1>0, <1>4 DEF LoggedFirst, Executor, AdvanceStep, Decide, MarkPhase, CallPhase,
     SubmitDBSucceeds, SubmitDBFails, SubmitRead, SubmitRedis
<1>5. ASSUME NEW n \in Node, MonitorStep(n) PROVE LoggedFirst'
  <2>1. UNCHANGED tpc /\ \E p \in {"idle", "query", "requery", "unlock"} : Goto(n, p)
    BY <1>0, <1>5 DEF MonitorStep, Lock, Query, Requery, QueryFails, Unlock, tryVars
  <2> QED BY <1>0, <1>f, <2>1 DEF LoggedFirst, Goto, TypeOK
<1>6. ASSUME NEW n \in Node, Crash(n) PROVE LoggedFirst'
  <2>1. CASE n = Home
    <3>1. \A c \in Component : tpc'[c] = "done"
      BY <1>6, <2>1 DEF Crash, CrashHome
    <3>2. pc' = [[e \in Executor |-> IF e \in {Home, Foreground} THEN "idle" ELSE pc[e]]
                   EXCEPT ![Foreground] = "returned"]
      BY <1>6, <2>1 DEF Crash, CrashHome
    <3> QED BY <1>0, <1>f, <3>1, <3>2 DEF LoggedFirst
  <2>2. CASE n # Home
    BY <1>0, <1>6, <1>f, <2>2 DEF LoggedFirst, Crash, Return, Goto, TypeOK
  <2> QED BY <2>1, <2>2
<1>7. CASE LockExpires \/ Tick \/ UNCHANGED vars
  BY <1>1, <1>7 DEF LockExpires, Tick, vars, tryVars, execVars
<1> QED BY <1>2, <1>3, <1>4, <1>5, <1>6, <1>7 DEF Next

\* Only CreateTX puts the row into the log.
LEMMA NotYetLoggedStep == TypeOK /\ LoggedFirst /\ NotYetLogged /\ [Next]_vars => NotYetLogged'
<1> SUFFICES ASSUME TypeOK, LoggedFirst, NotYetLogged, [Next]_vars, pc'[Foreground] = "start"
             PROVE  dbStatus' = "none"
  BY DEF NotYetLogged
<1>f. Foreground \in Executor /\ Foreground \notin Node
  BY NodeAssumption DEF Executor
<1>1. CASE ForegroundStep
  BY <1>1, <1>f DEF ForegroundStep, CreateTX, SeedRedis, AwaitTries, GetTX, FillRedis, Goto,
     TypeOK
<1>2. ASSUME NEW c \in Component, TryStep(c) PROVE dbStatus' = "none"
  BY <1>2 DEF NotYetLogged, TryStep, TryMark, TryCall, TryRead, TryWriteDB, TryWriteRedis,
     store, execVars
<1>3. ASSUME NEW e \in Executor, AdvanceStep(e) PROVE dbStatus' = "none"
  <2>1. CASE e = Foreground
    <3>1. \A p \in {"returned", "unlock", "requery"} : ~Return(e, p)
      BY <1>f, <2>1 DEF Return, Goto, TypeOK
    <3>2. Leave(e) = "returned" /\ back[e] \in {"returned", "unlock", "requery"}
      BY <1>f, <2>1 DEF Leave, TypeOK
    <3> QED BY <1>3, <1>f, <2>1, <3>1, <3>2 DEF AdvanceStep, Decide, MarkPhase, CallPhase,
               PhaseErrs, NextComponent, SubmitDBSucceeds, SubmitDBFails, SubmitRead, SubmitRedis,
               Goto, TypeOK, locals
  <2>2. CASE e # Foreground
    <3>1. pc[Foreground] = "start"
      BY <1>3, <1>f, <2>2 DEF AdvanceStep, Decide, MarkPhase, CallPhase, PhaseErrs,
         NextComponent, SubmitDBSucceeds, SubmitDBFails, SubmitRead, SubmitRedis, Return, Goto,
         TypeOK, locals
    <3> QED BY <1>3, <2>2, <3>1 DEF LoggedFirst, NotYetLogged, Executor, AdvanceStep, Decide,
               MarkPhase, CallPhase, SubmitDBSucceeds, SubmitDBFails, SubmitRead, SubmitRedis
  <2> QED BY <2>1, <2>2
<1>4. ASSUME NEW n \in Node, MonitorStep(n) PROVE dbStatus' = "none"
  BY <1>4, <1>f DEF NotYetLogged, MonitorStep, Lock, Query, Requery, QueryFails, Unlock, Goto,
     TypeOK, store
<1>5. ASSUME NEW n \in Node, Crash(n) PROVE dbStatus' = "none"
  <2>1. CASE n = Home
    <3>1. pc'[Foreground] = "returned"
      BY <1>5, <1>f, <2>1 DEF Crash, CrashHome
    <3> QED BY <3>1
  <2>2. CASE n # Home
    BY <1>5, <1>f, <2>2 DEF NotYetLogged, Crash, Return, Goto, TypeOK, store
  <2> QED BY <2>1, <2>2
<1>6. CASE LockExpires \/ Tick \/ UNCHANGED vars
  BY <1>6 DEF NotYetLogged, LockExpires, Tick, vars, store, execVars
<1> QED BY <1>1, <1>2, <1>3, <1>4, <1>5, <1>6 DEF Next

\* A step of the transaction manager is a step of the contract, or none.
LEMMA RefinementStep ==
    TypeOK /\ OutcomeInv /\ LoggedFirst /\ NotYetLogged /\ [Next]_vars
        => [TCC!Next]_(TCC!vars)
<1> SUFFICES ASSUME TypeOK, OutcomeInv, LoggedFirst, NotYetLogged, [Next]_vars
             PROVE  TCC!Next \/ UNCHANGED TCC!vars
  OBVIOUS
<1>0. CASE UNCHANGED <<dbStatus, acked, confirmed, cancelled>>
  BY <1>0 DEF TCC!vars
<1>1. CASE ForegroundStep
  <2>1. CASE CreateTX
    BY <1>0, <2>1 DEF CreateTX, NotYetLogged, business, TCC!Next, TCC!Begin
  <2> QED BY <1>0, <1>1, <2>1 DEF ForegroundStep, SeedRedis, AwaitTries, GetTX, FillRedis,
             store, business
<1>2. ASSUME NEW c \in Component, TryStep(c) PROVE TCC!Next \/ UNCHANGED TCC!vars
  <2>1. CASE TryCall(c)
    <3>1. dbStatus # "none"
      BY <2>1 DEF TryCall, LoggedFirst
    <3> QED BY <1>0, <2>1, <3>1 DEF TryCall, store, TCC!Next, TCC!Accept
  <2> QED BY <1>0, <1>2, <2>1 DEF TryStep, TryMark, TryRead, TryWriteDB, TryWriteRedis, store,
             business
<1>3. ASSUME NEW e \in Executor, AdvanceStep(e) PROVE TCC!Next \/ UNCHANGED TCC!vars
  <2>1. CASE CallPhase(e)
    <3>1. dbStatus # "none" /\ idx[e] \in Component /\ outcome[e] # "hanging"
      BY <2>1 DEF CallPhase, LoggedFirst, Executor, TypeOK, OutcomeInv, OutcomeJustified
    <3>2. outcome[e] = "successful" => acked = Component
      BY DEF OutcomeInv, OutcomeJustified
    <3>3. UNCHANGED <<dbStatus, acked>> /\ (TakesEffect(e, idx[e]) \/ NoEffect)
      BY <2>1 DEF CallPhase, store
    <3>4. CASE NoEffect
      BY <1>0, <3>3, <3>4 DEF NoEffect
    <3>5. CASE TakesEffect(e, idx[e]) /\ outcome[e] = "successful"
      BY <3>1, <3>2, <3>3, <3>5 DEF TakesEffect, SecondPhase, TCC!Next, TCC!Confirm
    <3>6. CASE TakesEffect(e, idx[e]) /\ outcome[e] # "successful"
      BY <3>1, <3>3, <3>6 DEF TakesEffect, SecondPhase, TCC!Next, TCC!Cancel
    <3> QED BY <3>3, <3>4, <3>5, <3>6
  <2>2. CASE SubmitDBSucceeds(e) \/ SubmitDBFails(e)
    <3>1. /\ pc[e] = "submitDB" /\ dbStatus' \in {dbStatus, outcome[e]}
          /\ UNCHANGED <<acked, confirmed, cancelled>>
      BY <2>2 DEF SubmitDBSucceeds, SubmitDBFails, business
    <3>2. /\ dbStatus # "none" /\ outcome[e] \in {"successful", "failure"}
          /\ outcome[e] = "successful" => acked = Component
      BY <3>1 DEF LoggedFirst, Executor, TypeOK, TryStatus, OutcomeInv, OutcomeJustified
    <3> QED BY <1>0, <3>1, <3>2 DEF TCC!Next, TCC!Settle
  <2> QED BY <1>0, <1>3, <2>1, <2>2 DEF AdvanceStep, Decide, MarkPhase, SubmitRead, SubmitRedis,
             store, business
<1>4. ASSUME NEW n \in Node, MonitorStep(n) \/ Crash(n) PROVE TCC!Next \/ UNCHANGED TCC!vars
  BY <1>0, <1>4 DEF MonitorStep, Lock, Query, Requery, QueryFails, Unlock, Crash, store, business
<1>5. CASE LockExpires \/ Tick \/ UNCHANGED vars
  BY <1>0, <1>5 DEF LockExpires, Tick, vars, store, business
<1> QED BY <1>1, <1>2, <1>3, <1>4, <1>5 DEF Next

\* The transaction manager implements the try-confirm-cancel contract of TCCOutcome, for
\* any number of components, nodes, attempts and crashes.
THEOREM Refinement == Spec => ImplementsTCC
<1>1. Init => TCC!Init /\ LoggedFirst /\ NotYetLogged
  BY NodeAssumption DEF Init, TCC!Init, LoggedFirst, NotYetLogged, Executor
<1>2. Spec => [](TypeOK /\ OutcomeInv)
  BY Typing, OutcomeInvHolds, PTL
<1> QED BY <1>1, <1>2, LoggedStep, NotYetLoggedStep, RefinementStep, PTL
        DEF Spec, ImplementsTCC, TCC!Spec
=============================================================================
