------------------------------ MODULE TXManager ------------------------------
(***************************************************************************)
(* One transaction of the TCC transaction manager (app/common/tcc):        *)
(* TXManager.Transaction on its home node, one goroutine per component for *)
(* the try phase, the monitor loop (run) of every node, the transaction    *)
(* log TXStore with its database row and its Redis copy, the idempotency   *)
(* marks in Redis, and the business components behind the TCCComponent     *)
(* interface.  Every Redis or database call is a step of its own and may   *)
(* fail, and a write that returns an error may still have been applied; a  *)
(* node may crash between any two steps.                                   *)
(*                                                                         *)
(* All keys carry the transaction's id, so transactions share nothing but  *)
(* the monitor lock: one transaction is modelled.  Components are numbered *)
(* in the order of tx.Components.  The Status field of the Redis copy is   *)
(* written but read by no code and is left out; its component list, which  *)
(* every writer replaces as a whole, is kept.                              *)
(***************************************************************************)
EXTENDS Naturals, FiniteSets

CONSTANTS
    N,            \* number of components of the transaction
    Node,         \* processes that run a TXManager, hence a monitor loop
    Home,         \* the node on which Transaction was called
    Foreground,   \* the goroutine of that call
    MaxAttempt,   \* attempts of executeWithRetry (3 in the code)
    MaxAge,       \* how old the transaction may grow: 1 or 2, see age
    MaxCrash      \* bound on crashes

ASSUME NAssumption == N \in Nat \ {0}
ASSUME NodeAssumption == Home \in Node /\ Foreground \notin Node
ASSUME AttemptAssumption == MaxAttempt \in Nat \ {0}
ASSUME AgeAssumption == MaxAge \in 1 .. 2
ASSUME CrashAssumption == MaxCrash \in Nat

Component == 1 .. N
Executor == Node \cup {Foreground}
TryStatus == {"hanging", "successful", "failure"}
Phase == {"try", "confirm", "cancel"}

(***************************************************************************)
(* A transaction's component list: the try status of each component.       *)
(* NoTX is Redis' answer when it holds no copy.                            *)
(***************************************************************************)
Fresh == [c \in Component |-> "hanging"]
NoTX == [c \in Component |-> "absent"]

VARIABLES
    dbStatus,   \* Status of the database row ("none" before CreateTX)
    dbTry,      \* Components of the database row
    rdTry,      \* Components of the Redis copy "tx:<id>", or NoTX
    mark,       \* the idempotency keys set, as <<component, phase>>
    lock,       \* the Redis key "txstore:lock": "free" or "held"
    age,        \* 0: young, 1: older than opts.Timeout, 2: older than 30 minutes
    tpc,        \* control point of each component's try goroutine
    tatt,       \* its attempts so far
    tres,       \* the accept argument it will give TXUpdate
    tlist,      \* the component list it read in TXUpdate
    errCh,      \* whether an error was sent on errCh
    cctx,       \* the context of the try phase: "live" or "cancelled"
    pc,         \* control point of each executor of advanceProgress
    list,       \* the component list it is working from
    outcome,    \* its txStatus
    idx,        \* the component its loop is at
    att,        \* its attempts so far
    back,       \* where TXSubmit returns to
    verdict,    \* the bool Transaction returns
    crashes,    \* crashes so far
    acked,      \* components whose Try answered ACK
    confirmed,  \* components whose Confirm took effect
    cancelled,  \* components whose Cancel took effect
    rejected,   \* components whose Try was refused or failed every attempt
    runs        \* how many times the second-phase call of a component was begun

store == <<dbStatus, dbTry, rdTry>>
tryVars == <<tpc, tatt, tres, tlist, errCh, cctx>>
locals == <<list, outcome, idx, att, back>>
execVars == <<pc, locals>>
business == <<acked, rejected, confirmed, cancelled, runs>>
vars == <<store, mark, lock, age, tryVars, execVars, verdict, crashes, business>>

TryPC == {"off", "mark", "call", "read", "writeDB", "writeRedis", "done"}
ExecPC == {"start", "seed", "wait", "get", "fill", "returned", "idle", "query",
           "requery", "unlock", "decide", "mark", "call", "submitDB",
           "submitRead", "submitRedis"}

Init ==
    /\ dbStatus = "none" /\ dbTry = Fresh /\ rdTry = NoTX
    /\ mark = {} /\ lock = "free" /\ age = 0
    /\ tpc = [c \in Component |-> "off"]
    /\ tatt = [c \in Component |-> 0]
    /\ tres = [c \in Component |-> "hanging"]
    /\ tlist = [c \in Component |-> Fresh]
    /\ errCh = "empty" /\ cctx = "live"
    /\ pc = [e \in Executor |-> IF e = Foreground THEN "start" ELSE "idle"]
    /\ list = [e \in Executor |-> Fresh]
    /\ outcome = [e \in Executor |-> "hanging"]
    /\ idx = [e \in Executor |-> 1]
    /\ att = [e \in Executor |-> 0]
    /\ back = [e \in Executor |-> "unlock"]
    /\ verdict = "none" /\ crashes = 0
    /\ acked = {} /\ rejected = {} /\ confirmed = {} /\ cancelled = {}
    /\ runs = [x \in Component \X Phase |-> 0]

-----------------------------------------------------------------------------
(***************************************************************************)
(* Transaction: CreateTX inserts the row, then caches it (a Redis error is *)
(* ignored); twoPhaseCommit starts one try goroutine per component.        *)
(***************************************************************************)
Goto(e, p) == pc' = [pc EXCEPT ![e] = p]

CreateTX ==
    /\ pc[Foreground] = "start"
    /\ \/ dbStatus' = "hanging" /\ Goto(Foreground, "seed")
       \/ dbStatus' \in {dbStatus, "hanging"} /\ Goto(Foreground, "returned")
    /\ UNCHANGED <<dbTry, rdTry, mark, lock, age, tryVars, locals, verdict, crashes, business>>

SeedRedis ==
    /\ pc[Foreground] = "seed"
    /\ rdTry' \in {Fresh, rdTry}
    /\ tpc' = [c \in Component |-> "mark"]
    /\ Goto(Foreground, "wait")
    /\ UNCHANGED <<dbStatus, dbTry, mark, lock, age, tatt, tres, tlist, errCh, cctx,
                   locals, verdict, crashes, business>>

(***************************************************************************)
(* The try goroutine of component c.  Its store calls use cctx, so they    *)
(* fail once it is cancelled; Try itself runs under the manager's context. *)
(* The `already' answer of CheckAndMark skips Try and records success.     *)
(***************************************************************************)
TryGoto(c, p) == tpc' = [tpc EXCEPT ![c] = p]

\* The goroutine ends, and its locals with it.
TryEnds(c) ==
    /\ TryGoto(c, "done")
    /\ tatt' = [tatt EXCEPT ![c] = 0]
    /\ tres' = [tres EXCEPT ![c] = "hanging"]
    /\ tlist' = [tlist EXCEPT ![c] = Fresh]

TryGivesUp(c) ==
    /\ TryEnds(c)
    /\ errCh' = "error"

TryMark(c) ==
    /\ tpc[c] = "mark"
    /\ \/ /\ TryGivesUp(c)
          /\ mark' \in {mark, mark \cup {<<c, "try">>}}
       \/ /\ cctx = "live"
          /\ mark' = mark \cup {<<c, "try">>}
          /\ TryGoto(c, IF <<c, "try">> \in mark THEN "read" ELSE "call")
          /\ tres' = [tres EXCEPT ![c] = IF <<c, "try">> \in mark THEN "successful" ELSE @]
          /\ UNCHANGED <<tatt, tlist, errCh>>
    /\ UNCHANGED <<store, lock, age, cctx, execVars, verdict, crashes, business>>

\* One attempt of executeWithRetry(Try): an ACK; a refusal or the last error; an
\* error that is tried again.
TryCall(c) ==
    /\ tpc[c] = "call"
    /\ \/ /\ acked' = acked \cup {c}
          /\ tres' = [tres EXCEPT ![c] = "successful"]
          /\ TryGoto(c, "read")
          /\ UNCHANGED <<tatt, rejected>>
       \/ /\ rejected' = rejected \cup {c}
          /\ tres' = [tres EXCEPT ![c] = "failure"]
          /\ TryGoto(c, "read")
          /\ UNCHANGED <<tatt, acked>>
       \/ /\ tatt[c] + 1 < MaxAttempt
          /\ tatt' = [tatt EXCEPT ![c] = @ + 1]
          /\ UNCHANGED <<tpc, tres, acked, rejected>>
    /\ UNCHANGED <<store, mark, lock, age, tlist, errCh, cctx, execVars, verdict,
                   crashes, confirmed, cancelled, runs>>

\* TXUpdate, first step: the Redis copy, or the database row when Redis has
\* none or fails.
TryRead(c) ==
    /\ tpc[c] = "read"
    /\ \/ TryGivesUp(c)
       \/ /\ cctx = "live"
          /\ \/ tlist' = [tlist EXCEPT ![c] = dbTry]
             \/ rdTry # NoTX /\ tlist' = [tlist EXCEPT ![c] = rdTry]
          /\ TryGoto(c, "writeDB")
          /\ UNCHANGED <<tatt, tres, errCh>>
    /\ UNCHANGED <<store, mark, lock, age, cctx, execVars, verdict, crashes, business>>

\* Mutant: the accept argument is not looked at.
UpdatedListAccepts(c) == [tlist[c] EXCEPT ![c] = "successful"]

\* The list TXUpdate writes back: as read, with c's own entry replaced.
UpdatedList(c) == [tlist[c] EXCEPT ![c] = tres[c]]

TryWriteDB(c) ==
    /\ tpc[c] = "writeDB"
    /\ \/ /\ TryGivesUp(c)
          /\ dbTry' \in {dbTry, UpdatedList(c)}
       \/ /\ cctx = "live"
          /\ dbTry' = UpdatedList(c)
          /\ TryGoto(c, "writeRedis")
          /\ UNCHANGED <<tatt, tres, tlist, errCh>>
    /\ UNCHANGED <<dbStatus, rdTry, mark, lock, age, cctx, execVars, verdict, crashes, business>>

\* TXUpdate, last step; a Redis error is ignored.  A rejected try is reported
\* on errCh whatever TXUpdate returned.
TryWriteRedis(c) ==
    /\ tpc[c] = "writeRedis"
    /\ \/ cctx = "live" /\ rdTry' = UpdatedList(c)
       \/ rdTry' = rdTry
    /\ TryEnds(c)
    /\ errCh' = IF tres[c] = "failure" THEN "error" ELSE errCh
    /\ UNCHANGED <<dbStatus, dbTry, mark, lock, age, cctx, execVars, verdict, crashes,
                   business>>

(***************************************************************************)
(* twoPhaseCommit waits for the first error, which cancels cctx without    *)
(* waiting for the other goroutines, or for all of them to end.            *)
(***************************************************************************)
\* Mutant: an error on errCh is not received.
AwaitTriesDeaf ==
    /\ pc[Foreground] = "wait"
    /\ errCh = "empty" /\ \A c \in Component : tpc[c] = "done"
    /\ verdict' = "true"
    /\ Goto(Foreground, "get")
    /\ UNCHANGED <<store, mark, lock, age, tryVars, locals, crashes, business>>

AwaitTries ==
    /\ pc[Foreground] = "wait"
    /\ \/ errCh = "error" /\ cctx' = "cancelled" /\ verdict' = "false"
       \/ /\ errCh = "empty" /\ \A c \in Component : tpc[c] = "done"
          /\ verdict' = "true" /\ UNCHANGED cctx
    /\ Goto(Foreground, "get")
    /\ UNCHANGED <<store, mark, lock, age, tpc, tatt, tres, tlist, errCh, locals, crashes, business>>

\* GetTX: Redis first; otherwise the database row, which is then cached.
GetTX ==
    /\ pc[Foreground] = "get"
    /\ \/ /\ rdTry # NoTX
          /\ list' = [list EXCEPT ![Foreground] = rdTry]
          /\ Goto(Foreground, "decide")
       \/ /\ list' = [list EXCEPT ![Foreground] = dbTry]
          /\ Goto(Foreground, "fill")
       \/ Goto(Foreground, "returned") /\ UNCHANGED list
    /\ UNCHANGED <<store, mark, lock, age, tryVars, outcome, idx, att, back, verdict,
                   crashes, business>>

FillRedis ==
    /\ pc[Foreground] = "fill"
    /\ rdTry' \in {list[Foreground], rdTry}
    /\ Goto(Foreground, "decide")
    /\ UNCHANGED <<dbStatus, dbTry, mark, lock, age, tryVars, locals, verdict, crashes, business>>

-----------------------------------------------------------------------------
(***************************************************************************)
(* advanceProgress, run by the foreground and by every monitor: derive the *)
(* outcome from the list, then for each component mark and call Confirm or *)
(* Cancel, then TXSubmit.  Any error ends it.                              *)
(***************************************************************************)
\* Where advanceProgress returns to.
Leave(e) == IF e = Foreground THEN "returned" ELSE "unlock"

\* A function returns to p and its locals are gone.
Return(e, p) ==
    /\ Goto(e, p)
    /\ list' = [list EXCEPT ![e] = Fresh]
    /\ outcome' = [outcome EXCEPT ![e] = "hanging"]
    /\ idx' = [idx EXCEPT ![e] = 1]
    /\ att' = [att EXCEPT ![e] = 0]
    /\ back' = [back EXCEPT ![e] = "unlock"]

\* Mutant: a rejected component is not looked for.
getStatusForgetsFailure(l, late) ==
    LET hangingExist == \E c \in Component : l[c] = "hanging"
    IN  IF hangingExist /\ late THEN "failure"
        ELSE IF hangingExist THEN "hanging"
        ELSE "successful"

\* Mutant: a hanging component fails the transaction before the timeout.
getStatusImpatient(l, late) ==
    IF \A c \in Component : l[c] = "successful" THEN "successful" ELSE "failure"

getStatus(l, late) ==
    LET hangingExist == \E c \in Component : l[c] # "successful"
    IN  IF \E c \in Component : l[c] = "failure" THEN "failure"
        ELSE IF hangingExist /\ late THEN "failure"
        ELSE IF hangingExist THEN "hanging"
        ELSE "successful"

Decide(e) ==
    /\ pc[e] = "decide"
    /\ \/ /\ getStatus(list[e], age >= 1) = "hanging"
          /\ Return(e, Leave(e))
       \/ /\ getStatus(list[e], age >= 1) # "hanging"
          /\ outcome' = [outcome EXCEPT ![e] = getStatus(list[e], age >= 1)]
          /\ list' = [list EXCEPT ![e] = Fresh]
          /\ back' = [back EXCEPT ![e] = Leave(e)]
          /\ Goto(e, "mark")
          /\ UNCHANGED <<idx, att>>
    /\ UNCHANGED <<store, mark, lock, age, tryVars, verdict, crashes, business>>

SecondPhase(e) == IF outcome[e] = "successful" THEN "confirm" ELSE "cancel"

\* The loop of advanceProgress goes on to the next component, or ends.
NextComponent(e) ==
    /\ Goto(e, IF idx[e] < N THEN "mark" ELSE "submitDB")
    /\ idx' = [idx EXCEPT ![e] = IF idx[e] < N THEN idx[e] + 1 ELSE 1]
    /\ att' = [att EXCEPT ![e] = 0]
    /\ UNCHANGED <<list, outcome, back>>

\* An attempt returned an error.  Once the attempts are used up, a failed Confirm
\* ends advanceProgress; a failed Cancel is marked explicitly and counts as an ACK.
PhaseErrs(e) ==
    \/ /\ att[e] + 1 < MaxAttempt
       /\ att' = [att EXCEPT ![e] = @ + 1]
       /\ UNCHANGED <<mark, pc, list, outcome, idx, back>>
    \/ /\ att[e] + 1 >= MaxAttempt
       /\ SecondPhase(e) = "confirm"
       /\ Return(e, Leave(e))
       /\ UNCHANGED mark
    \/ /\ att[e] + 1 >= MaxAttempt
       /\ SecondPhase(e) = "cancel"
       /\ mark' = mark \cup {<<idx[e], "cancel">>}
       /\ NextComponent(e)

\* Mutant: the answer of SETNX is not looked at.
MarkPhaseUnchecked(e) ==
    LET key == <<idx[e], SecondPhase(e)>>
    IN  /\ pc[e] = "mark"
        /\ mark' = mark \cup {key}
        /\ runs' = [runs EXCEPT ![key] = @ + 1]
        /\ Goto(e, "call")
        /\ UNCHANGED <<store, lock, age, tryVars, locals, verdict, crashes, acked,
                       rejected, confirmed, cancelled>>

\* Mutant: an error of CheckAndMark is taken for `already'.
MarkPhaseSwallowsError(e) ==
    /\ pc[e] = "mark"
    /\ NextComponent(e)
    /\ UNCHANGED <<store, mark, lock, age, tryVars, verdict, crashes, business>>

\* Registry lookup and CheckAndMark; `already' counts as an ACK.
MarkPhase(e) ==
    LET key == <<idx[e], SecondPhase(e)>>
    IN  /\ pc[e] = "mark"
        /\ \/ /\ Return(e, Leave(e))
              /\ mark' \in {mark, mark \cup {key}}
              /\ UNCHANGED runs
           \/ /\ key \in mark
              /\ NextComponent(e)
              /\ UNCHANGED <<mark, runs>>
           \/ /\ key \notin mark
              /\ mark' = mark \cup {key}
              /\ runs' = [runs EXCEPT ![key] = @ + 1]
              /\ Goto(e, "call")
              /\ UNCHANGED locals
        /\ UNCHANGED <<store, lock, age, tryVars, verdict, crashes, acked, rejected,
                       confirmed, cancelled>>

\* What a Confirm or Cancel of component c leaves behind: its effect, or nothing.
TakesEffect(e, c) ==
    /\ confirmed' = IF SecondPhase(e) = "confirm" THEN confirmed \cup {c} ELSE confirmed
    /\ cancelled' = IF SecondPhase(e) = "cancel" THEN cancelled \cup {c} ELSE cancelled

NoEffect == UNCHANGED <<confirmed, cancelled>>

\* One attempt of Confirm or Cancel: ACK, refusal (which ends advanceProgress),
\* or an error, after which the component may or may not have acted.
CallPhase(e) ==
    /\ pc[e] = "call"
    /\ \/ /\ TakesEffect(e, idx[e])
          /\ NextComponent(e)
          /\ UNCHANGED mark
       \/ /\ NoEffect
          /\ Return(e, Leave(e))
          /\ UNCHANGED mark
       \/ /\ TakesEffect(e, idx[e]) \/ NoEffect
          /\ PhaseErrs(e)
    /\ UNCHANGED <<store, lock, age, tryVars, verdict, crashes, acked, rejected,
                   runs>>

\* TXSubmit: overwrite the row's status, then rewrite the Redis copy.
SubmitDBSucceeds(e) ==
    /\ pc[e] = "submitDB"
    /\ dbStatus' = outcome[e]
    /\ Goto(e, "submitRead")
    /\ UNCHANGED <<dbTry, rdTry, mark, lock, age, tryVars, locals, verdict, crashes,
                   business>>

SubmitDBFails(e) ==
    /\ pc[e] = "submitDB"
    /\ dbStatus' \in {dbStatus, outcome[e]}
    /\ Return(e, back[e])
    /\ UNCHANGED <<dbTry, rdTry, mark, lock, age, tryVars, verdict, crashes, business>>

SubmitRead(e) ==
    /\ pc[e] = "submitRead"
    /\ \/ /\ rdTry # NoTX
          /\ list' = [list EXCEPT ![e] = rdTry]
          /\ Goto(e, "submitRedis")
          /\ UNCHANGED <<outcome, idx, att, back>>
       \/ Return(e, back[e])
    /\ UNCHANGED <<store, mark, lock, age, tryVars, verdict, crashes, business>>

SubmitRedis(e) ==
    /\ pc[e] = "submitRedis"
    /\ rdTry' \in {list[e], rdTry}
    /\ Return(e, back[e])
    /\ UNCHANGED <<dbStatus, dbTry, mark, lock, age, tryVars, verdict, crashes, business>>

-----------------------------------------------------------------------------
(***************************************************************************)
(* The monitor loop run of node n: take the lock, GetHangingTXs, advance,  *)
(* delete the lock key.  The lock expires by itself after MonitorTick.     *)
(***************************************************************************)
Lock(n) ==
    /\ pc[n] = "idle" /\ lock = "free"
    /\ lock' = "held"
    /\ Goto(n, "query")
    /\ UNCHANGED <<store, mark, age, tryVars, locals, verdict,
                   crashes, business>>

LockExpires ==
    /\ lock = "held"
    /\ lock' = "free"
    /\ UNCHANGED <<store, mark, age, tryVars, execVars, verdict, crashes, business>>

\* Mutant: expired transactions are not looked for.
QueryNoExpiry(n) ==
    /\ pc[n] = "query"
    /\ Goto(n, "requery")
    /\ UNCHANGED <<store, mark, lock, age, tryVars, locals, verdict, crashes, business>>

\* GetHangingTXs, first query: a row older than 30 minutes is submitted as a
\* failure on the spot (an error of that TXSubmit is ignored).
Query(n) ==
    /\ pc[n] = "query"
    /\ IF dbStatus = "hanging" /\ age = 2
       THEN /\ outcome' = [outcome EXCEPT ![n] = "failure"]
            /\ back' = [back EXCEPT ![n] = "requery"]
            /\ Goto(n, "submitDB")
       ELSE Goto(n, "requery") /\ UNCHANGED <<outcome, back>>
    /\ UNCHANGED <<store, mark, lock, age, tryVars, list, idx, att, verdict, crashes,
                   business>>

Requery(n) ==
    /\ pc[n] = "requery"
    /\ IF dbStatus = "hanging"
       THEN list' = [list EXCEPT ![n] = dbTry] /\ Goto(n, "decide")
       ELSE Goto(n, "unlock") /\ UNCHANGED list
    /\ UNCHANGED <<store, mark, lock, age, tryVars, outcome, idx, att, back, verdict,
                   crashes, business>>

QueryFails(n) ==
    /\ pc[n] \in {"query", "requery"}
    /\ Goto(n, "unlock")
    /\ UNCHANGED <<store, mark, lock, age, tryVars, locals,
                   verdict, crashes, business>>

\* DEL of the key, whoever set it; an error leaves it to expire.
Unlock(n) ==
    /\ pc[n] = "unlock"
    /\ lock' \in {"free", lock}
    /\ Goto(n, "idle")
    /\ UNCHANGED <<store, mark, age, tryVars, locals, verdict,
                   crashes, business>>

-----------------------------------------------------------------------------
\* The transaction grows older than opts.Timeout, then than 30 minutes.
Tick ==
    /\ dbStatus # "none" /\ age < MaxAge
    /\ age' = age + 1
    /\ UNCHANGED <<store, mark, lock, tryVars, execVars, verdict, crashes, business>>

CrashHome ==
    LET Lost(f, v) == [e \in Executor |-> IF e \in {Home, Foreground} THEN v ELSE f[e]]
    IN  /\ pc' = [Lost(pc, "idle") EXCEPT ![Foreground] = "returned"]
        /\ list' = Lost(list, Fresh) /\ outcome' = Lost(outcome, "hanging")
        /\ idx' = Lost(idx, 1) /\ att' = Lost(att, 0) /\ back' = Lost(back, "unlock")
        /\ tpc' = [c \in Component |-> "done"]
        /\ tatt' = [c \in Component |-> 0]
        /\ tres' = [c \in Component |-> "hanging"]
        /\ tlist' = [c \in Component |-> Fresh]
        /\ verdict' = IF pc[Foreground] = "returned" THEN verdict ELSE "none"

\* Node n stops at any point and starts again with an idle monitor; on the
\* home node the call and its try goroutines are gone.
Crash(n) ==
    /\ crashes < MaxCrash
    /\ crashes' = crashes + 1
    /\ IF n = Home THEN CrashHome
       ELSE Return(n, "idle") /\ UNCHANGED <<tpc, tatt, tres, tlist, verdict>>
    /\ UNCHANGED <<store, mark, lock, age, errCh, cctx, business>>

TryStep(c) ==
    TryMark(c) \/ TryCall(c) \/ TryRead(c) \/ TryWriteDB(c) \/ TryWriteRedis(c)

AdvanceStep(e) ==
    \/ Decide(e) \/ MarkPhase(e) \/ CallPhase(e)
    \/ SubmitDBSucceeds(e) \/ SubmitDBFails(e) \/ SubmitRead(e) \/ SubmitRedis(e)

MonitorStep(n) ==
    Lock(n) \/ Query(n) \/ Requery(n) \/ QueryFails(n) \/ Unlock(n)

ForegroundStep == CreateTX \/ SeedRedis \/ AwaitTries \/ GetTX \/ FillRedis

Next ==
    \/ ForegroundStep
    \/ \E c \in Component : TryStep(c)
    \/ \E e \in Executor : AdvanceStep(e)
    \/ \E n \in Node : MonitorStep(n) \/ Crash(n)
    \/ LockExpires \/ Tick

Spec == Init /\ [][Next]_vars

(***************************************************************************)
(* Fairness: the scheduler runs every goroutine, the clock advances, the   *)
(* lock key expires, and a node that keeps trying to take the lock, to     *)
(* query or to submit succeeds in the end.  Nothing is assumed of Confirm  *)
(* and Cancel beyond that they return.                                     *)
(***************************************************************************)
Fairness ==
    /\ WF_vars(ForegroundStep) /\ WF_vars(Tick) /\ WF_vars(LockExpires)
    /\ \A c \in Component : WF_vars(TryStep(c))
    /\ \A e \in Executor : WF_vars(AdvanceStep(e)) /\ SF_vars(SubmitDBSucceeds(e))
    /\ \A n \in Node :
          /\ WF_vars(MonitorStep(n))
          /\ SF_vars(Lock(n)) /\ SF_vars(Query(n)) /\ SF_vars(Requery(n))

FairSpec == Spec /\ Fairness

-----------------------------------------------------------------------------
List == [Component -> TryStatus]

\* The type invariant of the transaction manager's state.
TypeOK ==
    /\ dbStatus \in TryStatus \cup {"none"}
    /\ dbTry \in List
    /\ rdTry \in List \cup {NoTX}
    /\ mark \in SUBSET (Component \X Phase)
    /\ lock \in {"free", "held"}
    /\ age \in 0 .. 2
    /\ tpc \in [Component -> TryPC]
    /\ tatt \in [Component -> Nat]
    /\ tres \in List
    /\ tlist \in [Component -> List]
    /\ errCh \in {"empty", "error"}
    /\ cctx \in {"live", "cancelled"}
    /\ pc \in [Executor -> ExecPC]
    /\ list \in [Executor -> List]
    /\ outcome \in [Executor -> TryStatus]
    /\ idx \in [Executor -> Component]
    /\ att \in [Executor -> Nat]
    /\ back \in [Executor -> {"returned", "unlock", "requery"}]
    /\ verdict \in {"none", "true", "false"}
    /\ crashes \in Nat
    /\ acked \in SUBSET Component
    /\ rejected \in SUBSET Component
    /\ confirmed \in SUBSET Component
    /\ cancelled \in SUBSET Component
    /\ runs \in [Component \X Phase -> Nat]

(***************************************************************************)
(* Safety that the code does provide.                                      *)
(***************************************************************************)
\* advanceProgress confirms only what every component accepted: whatever updates
\* of the log were lost, served stale from Redis or replayed after a crash, no
\* Confirm takes effect and no success is recorded unless every Try answered ACK.
ConfirmNeedsAllAcks ==
    (confirmed # {} \/ dbStatus = "successful") => acked = Component

\* advanceProgress cancels only for a reason: some Try was refused or kept
\* failing, or the transaction outlived its timeout.
CancelHasCause == cancelled # {} => (rejected # {} \/ age >= 1)

\* CheckAndMark lets at most one executor of the whole cluster begin the Confirm
\* (and at most one the Cancel) of a component, whoever advances the transaction.
OneSecondPhaseRun == \A x \in Component \X Phase : runs[x] <= 1

\* advanceProgress records an outcome only after every component's second phase was
\* at least claimed; the one exception is the 30 minute expiry of GetHangingTXs.
SettledIsClaimed ==
    /\ dbStatus = "successful" => \A c \in Component : <<c, "confirm">> \in mark
    /\ dbStatus = "failure" => (age = 2 \/ \A c \in Component : <<c, "cancel">> \in mark)

\* A list says of component c only what its Try answered.
Backed(l, a, r) ==
    \A c \in Component : (l[c] = "successful" => c \in a) /\ (l[c] = "failure" => c \in r)

\* TXUpdate, TXSubmit and GetTX copy component lists between the row, Redis and the
\* locals of concurrent goroutines; updates get lost, but no copy ever holds a
\* result that the component's Try did not give.
LogIsBacked ==
    /\ Backed(dbTry, acked, rejected) /\ Backed(rdTry, acked, rejected)
    /\ Backed(tres, acked, rejected)
    /\ \A c \in Component : Backed(tlist[c], acked, rejected)
    /\ \A e \in Executor : Backed(list[e], acked, rejected)

\* The rest of the inductive invariant: the try phase is claimed only once, and an
\* executor's outcome is justified by what the components answered or by the timeout.
TryClaimedOnce ==
    /\ \A c \in Component : tpc[c] \in {"off", "mark"} => <<c, "try">> \notin mark
    /\ pc[Foreground] \in {"start", "seed"} => \A c \in Component : tpc[c] = "off"

OutcomeJustified ==
    \A e \in Executor :
        /\ outcome[e] = "successful" => acked = Component
        /\ outcome[e] = "failure" => (rejected # {} \/ age >= 1)
        /\ pc[e] \in {"mark", "call", "submitDB"} => outcome[e] # "hanging"

OutcomeInv ==
    LogIsBacked /\ TryClaimedOnce /\ OutcomeJustified /\ ConfirmNeedsAllAcks /\ CancelHasCause

\* The transaction manager implements the abstract contract of TCCOutcome, with the
\* status of the database row as the log: acceptances, confirmations and
\* cancellations are final, and Confirm needs all acceptances when it happens.
TCC == INSTANCE TCCOutcome WITH status <- dbStatus
ImplementsTCC == TCC!Spec

\* run and GetHangingTXs settle every transaction that reached the log, even when
\* its home node crashed and every component keeps failing.
EventuallySettled == (dbStatus = "hanging") ~> (dbStatus \in {"successful", "failure"})

\* Transaction always answers its caller: the try goroutines and the second phase
\* can neither deadlock on errCh nor retry forever.
EventuallyReturns == <>(pc[Foreground] = "returned")

(***************************************************************************)
(* What comments and documents of the repository say and the code does not *)
(* provide; each is refuted by a run of its own.                           *)
(***************************************************************************)
\* tcc/README.md: a transaction over its time limit is marked failed "and Cancel
\* is executed".
FailureIsCancelled == dbStatus = "failure" => \A c \in Component : <<c, "cancel">> \in mark

\* idempotency.go: CheckAndMark answers true for what "was already processed", so a
\* success recorded on that answer means that every Confirm took effect.
SuccessIsConfirmed == dbStatus = "successful" => confirmed = Component

\* tcc/README.md: TCC "guarantees the consistency and atomicity of the data": no
\* transaction is confirmed in one component and cancelled in another.
AllOrNothing == confirmed = {} \/ cancelled = {}

\* txmanager.go, twoPhaseCommit: "if all succeed, confirm in batch, then return a
\* successful ACK": what was reported as successful is not cancelled.
TrueIsNotCancelled == verdict = "true" => cancelled = {}

\* txmanager.go, twoPhaseCommit: when the try result cannot be written to the log
\* "it must be treated as a failure": what was reported as failed is not confirmed.
FalseIsNotConfirmed == verdict = "false" => confirmed = {}

\* txmanager.go, run: the lock keeps the monitors of several nodes from doing the
\* same work.
OneMonitor ==
    \A m, n \in Node : pc[m] # "idle" /\ pc[n] # "idle" => m = n
=============================================================================
