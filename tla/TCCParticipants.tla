--------------------------- MODULE TCCParticipants ---------------------------
(***************************************************************************)
(* The TCC components of the user, boBing and yearBill services under the  *)
(* transaction manager (app/<service>/service/tcc_components.go and        *)
(* tcc_integration.go).  Transactions of one service concern one student.  *)
(* A component's Try leaves a reservation in Redis, for ten minutes; its   *)
(* Confirm and Cancel look for it.  The manager is reduced to what         *)
(* TXManager keeps: Confirm after every acknowledgement, Cancel at any     *)
(* other time; the log is settled once every call was marked, whatever it  *)
(* answered.  Calls that touch only the transaction's own keys are part of *)
(* the step next to them, and the status key, which is written and deleted *)
(* but never read, is left out.  A Try that has failed in every attempt    *)
(* takes no more steps; its Cancel may come at any time anyway.            *)
(***************************************************************************)
EXTENDS Naturals

CONSTANTS
    TX,           \* transactions
    MaxAttempts   \* calls of a Try that reports errors, at least 1; 3 in executeWithRetry

(***************************************************************************)
(* The components.  lookup: Try looks for a row of the student; then: what *)
(* else it does before it reserves; write: when Confirm writes; find:      *)
(* Cancel fails without the reservation.                                   *)
(***************************************************************************)
UserLogin == [lookup |-> TRUE, then |-> "save", write |-> "ifNew", find |-> TRUE]
SchoolUserLogin == [lookup |-> TRUE, then |-> "save", write |-> "ifNew", find |-> FALSE]
MassesLogin == [lookup |-> TRUE, then |-> "save", write |-> "ifNew", find |-> TRUE]
BoBingSubmission == [lookup |-> FALSE, then |-> "save", write |-> "always", find |-> FALSE]
BoBingRankUpdate == [lookup |-> TRUE, then |-> "create", write |-> "never", find |-> TRUE]
\* Try asserts float64 of the int that BoBingPublishWithTCC passes, and panics.
BoBingRecord == [lookup |-> FALSE, then |-> "panic", write |-> "always", find |-> FALSE]
PayData == [lookup |-> FALSE, then |-> "save", write |-> "never", find |-> FALSE]
LearnData == [lookup |-> FALSE, then |-> "save", write |-> "never", find |-> FALSE]
RankUpdate == [lookup |-> FALSE, then |-> "count", write |-> "always", find |-> FALSE]

Behaviour ==
    [userLogin |-> UserLogin, schoolLogin |-> SchoolUserLogin, massesLogin |-> MassesLogin,
     submission |-> BoBingSubmission, rank |-> BoBingRankUpdate, record |-> BoBingRecord,
     pay |-> PayData, learn |-> LearnData, place |-> RankUpdate]

Component == DOMAIN Behaviour

\* The transactions of the services.
UserLoginWithTCC == {"userLogin"}
SchoolUserLoginWithTCC == {"schoolLogin"}
MassesLoginWithTCC == {"massesLogin"}
BoBingPublishWithTCC == {"rank", "submission", "record"}
DataInitWithTCC == {"pay", "learn", "place"}

Services == {UserLoginWithTCC, SchoolUserLoginWithTCC, MassesLoginWithTCC,
             BoBingPublishWithTCC, DataInitWithTCC}

VARIABLES
    asked,       \* the components of this behaviour's transactions
    registered,  \* the registry
    outcome,     \* transaction -> status in the log
    pc,          \* transaction, component -> point in its Try
    attempt,     \* calls of that Try begun
    local,       \* what that Try found or was given
    redis,       \* keys and values
    row,         \* whether the student's row exists (users, ranks or certificate)
    count,       \* the counter "count" of yearBill
    written      \* <<component, transaction>> whose Confirm has written its effect

vars == <<asked, registered, outcome, pc, attempt, local, redis, row, count, written>>

NoData == [new |-> FALSE, index |-> 0]
Cell == TX \X Component

\* Try appends the student to the key, the second phase does not.
TryKey(x, c) == <<c, x, "student">>

\* Mutant: the second phase builds the key as Try does.
PhaseKeyFull(x, c) == <<c, x, "student">>

PhaseKey(x, c) == <<c, x>>

Init ==
    /\ asked \in Services
    /\ registered = {}
    /\ outcome = [x \in TX |-> "none"]
    /\ pc = [i \in Cell |-> "idle"] /\ attempt = [i \in Cell |-> 0]
    /\ local = [i \in Cell |-> NoData]
    /\ redis = << >>
    /\ row \in BOOLEAN /\ count = 0
    /\ written = {}

Goto(x, c, p) == pc' = [pc EXCEPT ![<<x, c>>] = p]

\* A call that reports an error is repeated while there are attempts.
Failed(x, c) == Goto(x, c, "retry")

Put(k, v) == [j \in DOMAIN redis \cup {k} |-> IF j = k THEN v ELSE redis[j]]
Without(K) == [j \in DOMAIN redis \ K |-> redis[j]]

\* New<Service>TCCService registers its components, each once.
Register ==
    /\ registered = {}
    /\ registered' = asked
    /\ UNCHANGED <<asked, outcome, pc, attempt, local, redis, row, count, written>>

\* <Operation>WithTCC and Transaction; with a component missing nothing is begun.
Begin(x) ==
    /\ outcome[x] = "none" /\ asked \subseteq registered
    /\ outcome' = [outcome EXCEPT ![x] = "hanging"]
    /\ pc' = [i \in Cell |-> IF i[1] = x /\ i[2] \in asked THEN "retry" ELSE pc[i]]
    /\ UNCHANGED <<asked, registered, attempt, local, redis, row, count, written>>

\* A Try whose calls are lookups, requests outside and writes of its own keys: a row is
\* looked up, the reservation is saved or its error dropped.  One that is refused, or fails
\* in the lookup, leaves nothing.
TryAlone(x, c) ==
    /\ pc[<<x, c>>] = "retry" /\ Behaviour[c].then = "save"
    /\ local' = [local EXCEPT ![<<x, c>>].new = Behaviour[c].lookup /\ ~row]
    /\ redis' \in {redis, Put(TryKey(x, c), local'[<<x, c>>])}
    /\ Goto(x, c, "acked")
    /\ UNCHANGED <<asked, registered, outcome, attempt, row, count, written>>

\* A Try that goes on to a shared row or counter.  It first looks for "tried" under the key
\* of its reservation, which never holds that word.
TryLook(x, c) ==
    /\ pc[<<x, c>>] = "retry" /\ Behaviour[c].then \in {"create", "count"}
    /\ attempt[<<x, c>>] < MaxAttempts
    /\ attempt' = [attempt EXCEPT ![<<x, c>>] = @ + 1]
    /\ \/ /\ local' = [local EXCEPT ![<<x, c>>].new = Behaviour[c].lookup /\ ~row]
          /\ Goto(x, c, IF Behaviour[c].lookup /\ row THEN "save" ELSE Behaviour[c].then)
       \/ Behaviour[c].lookup /\ Failed(x, c) /\ UNCHANGED local
    /\ UNCHANGED <<asked, registered, outcome, redis, row, count, written>>

\* The panic of a try goroutine ends the process, and the other tries with it.
TryPanics(x, c) ==
    /\ pc[<<x, c>>] = "retry" /\ Behaviour[c].then = "panic"
    /\ pc' = [i \in Cell |-> IF pc[i] \in {"idle", "acked"} THEN pc[i] ELSE "lost"]
    /\ UNCHANGED <<asked, registered, outcome, attempt, local, redis, row, count,
                   written>>

\* CreatRank; the column is unique, so a second row is an error, and an error may have
\* left a row.
TryCreate(x, c) ==
    /\ pc[<<x, c>>] = "create"
    /\ \/ ~row /\ row' = TRUE /\ Goto(x, c, "save")
       \/ row' \in {row, TRUE} /\ Failed(x, c)
    /\ UNCHANGED <<asked, registered, outcome, attempt, local, redis, count, written>>

\* Mutant: the counter is read, and raised only when the call reports an error.
TryCountStale(x, c) ==
    /\ pc[<<x, c>>] = "count"
    /\ \/ count' = count + 1 /\ Failed(x, c) /\ UNCHANGED local
       \/ /\ local' = [local EXCEPT ![<<x, c>>].index = count + 1]
          /\ Goto(x, c, "save") /\ UNCHANGED count
    /\ UNCHANGED <<asked, registered, outcome, attempt, redis, row, written>>

\* IncrValue("count"), whose answer may be lost.
TryCount(x, c) ==
    /\ pc[<<x, c>>] = "count"
    /\ \/ /\ count' = count + 1
          /\ local' = [local EXCEPT ![<<x, c>>].index = count + 1]
          /\ Goto(x, c, "save")
       \/ count' \in {count, count + 1} /\ Failed(x, c) /\ UNCHANGED local
    /\ UNCHANGED <<asked, registered, outcome, attempt, redis, row, written>>

\* The reservation, whose error is dropped.
TrySave(x, c) ==
    /\ pc[<<x, c>>] = "save"
    /\ redis' \in {redis, Put(TryKey(x, c), local[<<x, c>>])}
    /\ Goto(x, c, "acked")
    /\ UNCHANGED <<asked, registered, outcome, attempt, local, row, count, written>>

AllAcked(x) == \A c \in asked : pc[<<x, c>>] = "acked"

Found(x) == {c \in asked : PhaseKey(x, c) \in DOMAIN redis}
Drop(x, C) == Without({PhaseKey(x, c) : c \in C})

\* Confirm of every component.  Without the reservation it is an error; with it the effect
\* is written, if there is one, and the reservation deleted, unless a write fails.
Confirm(x) ==
    /\ outcome[x] = "hanging" /\ AllAcked(x)
    /\ \E done \in SUBSET Found(x) :
          LET writes == {c \in done : \/ Behaviour[c].write = "always"
                                     \/ /\ Behaviour[c].write = "ifNew"
                                        /\ redis[PhaseKey(x, c)].new}
          IN
          /\ written' = written \cup (writes \X {x})
          /\ row' = (row \/ \E c \in writes : Behaviour[c].write = "ifNew")
          /\ redis' = Drop(x, done)
    /\ outcome' = [outcome EXCEPT ![x] = "successful"]
    /\ UNCHANGED <<asked, registered, pc, attempt, local, count>>

\* Cancel of every component, after a failure or the timeout, while tries may still run:
\* it deletes the reservation, for some components only if it finds it, and undoes
\* nothing a Try has done.
Cancel(x) ==
    /\ outcome[x] = "hanging" /\ ~AllAcked(x)
    /\ redis' = Drop(x, {c \in asked : Behaviour[c].find => c \in Found(x)})
    /\ outcome' = [outcome EXCEPT ![x] = "failure"]
    /\ UNCHANGED <<asked, registered, pc, attempt, local, row, count, written>>

\* Ten minutes have passed since the tries of x.
Expire(x) ==
    /\ redis # Without({TryKey(x, c) : c \in Component})
    /\ \A c \in Component : pc[<<x, c>>] \in {"idle", "retry", "acked", "lost"}
    /\ redis' = Without({TryKey(x, c) : c \in Component})
    /\ UNCHANGED <<asked, registered, outcome, pc, attempt, local, row, count, written>>

Try(x, c) ==
    \/ TryAlone(x, c) \/ TryLook(x, c) \/ TryPanics(x, c)
    \/ TryCreate(x, c) \/ TryCount(x, c) \/ TrySave(x, c)

Next ==
    \/ Register
    \/ \E x \in TX : Begin(x) \/ Confirm(x) \/ Cancel(x) \/ Expire(x)
    \/ \E x \in TX, c \in Component : Try(x, c)

Spec == Init /\ [][Next]_vars

-----------------------------------------------------------------------------
\* The type invariant of the participants.
TypeOK ==
    /\ asked \in Services /\ registered \subseteq asked
    /\ outcome \in [TX -> {"none", "hanging", "successful", "failure"}]
    /\ pc \in [Cell -> {"idle", "retry", "create", "count", "save", "acked", "lost"}]
    /\ attempt \in [Cell -> 0 .. MaxAttempts]
    /\ local \in [Cell -> [new : BOOLEAN, index : Nat]]
    /\ row \in BOOLEAN /\ count \in Nat
    /\ written \subseteq Component \X TX

\* A place of the year bill is reserved by one transaction: overlapping, repeated and
\* unanswered IncrValue calls never give the same index to two of them.
PlaceReservedOnce ==
    \A x, y \in TX : x # y /\ local[<<x, "place">>].index # 0
                     => local[<<x, "place">>].index # local[<<y, "place">>].index

\* Of a step: the second phase never finds what Try reserved.  No Confirm or Cancel of any
\* component changes Redis or a table, so reservations end by expiring, and what Try itself
\* created or counted outlives a cancelled transaction.
SecondPhaseIsEmpty ==
    \A x \in TX : outcome'[x] # outcome[x] => UNCHANGED <<redis, row, count, written>>

\* BoBingPublishWithTCC cannot succeed: the record component's Try ends the process.
NoDiceTransactionSucceeds ==
    "record" \in asked => \A x \in TX : outcome[x] # "successful"

\* "执行实际的数据库操作" and "保存排名到缓存": the effects of a transaction recorded as
\* successful are written.
SuccessIsApplied ==
    \A x \in TX : outcome[x] = "successful" =>
        \A c \in asked : Behaviour[c].write = "always" => <<c, x>> \in written
=============================================================================
