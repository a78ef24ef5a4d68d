------------------------------ MODULE YearBill ------------------------------
(***************************************************************************)
(* The year bill service (app/yearBill) with the gateway's websocket       *)
(* session that drives it.  A student's bill is prepared once: the session *)
(* publishes a task on RabbitMQ, the consumer DataInit starts a goroutine  *)
(* per task, and the session polls the Redis copy of the student's rank.   *)
(* GetRank, GetPayData, GetLearnData and Appraise are served meanwhile.    *)
(*                                                                         *)
(* Each Redis, database or broker call is a step.  The database            *)
(* transaction of StorageData is one step; stu_num is unique in each of    *)
(* the three tables.  One gateway, hence one consumer with prefetch 1; it  *)
(* moves on 8 seconds after a task was started, so tasks overlap: Task is  *)
(* the set of goroutines that may be alive together.                       *)
(***************************************************************************)
EXTENDS Integers, Sequences, FiniteSets, TLC

CONSTANTS
    Student,
    Task,         \* goroutines of DataInit
    Client,       \* requests served at the same time
    Ops,          \* what clients ask for
    Faults,       \* the faults that may happen
    MaxRequests,  \* bound on requests
    MaxBreak,     \* bound on crashes of the service and of its broker channel
    MaxAppraisal  \* bound on the appraisals given

Op == {"init", "rank", "pay", "learn", "appraise"}
Fault == {"redis", "db", "commit", "fetch", "mq", "expire"}

ASSUME StudentAssumption == Student # {}
ASSUME OpsAssumption == Ops \subseteq Op
ASSUME FaultsAssumption == Faults \subseteq Fault
ASSUME BoundAssumption == MaxRequests \in Nat /\ MaxBreak \in Nat /\ MaxAppraisal \in Nat

Kind == {"pay", "learn"}

\* What a table or cache holds of a student's data: nothing, the data fetched
\* from the school, or less than that (an empty or partial response).
Content == {"none", "full", "lacking"}
NoData == [k \in Kind |-> "none"]

VARIABLES
    made,      \* students with a row in users
    stored,    \* those whose row has Init = 1
    rank,      \* Rank of the row
    appraisal, \* Appraisal of the row
    row,       \* the student's rows in bills and learns
    cid,       \* ID of the cached user_data; 0 when there is none
    capp,      \* its Appraisal
    cdata,     \* the cached pay_data and learn_data
    count,     \* the Redis counter "count"
    queue,     \* the tasks queued at the broker
    unacked,   \* the delivered task that is not acknowledged, if any
    channel,   \* the service's one channel to the broker: "open" or "closed"
    tpc, tstu, tidx, tgot,         \* per task: control point and locals
    pc, stu, kind, srank, sapp, sdata,  \* per client: control point, locals
    told,      \* students told that their data is initialised
    requests, breaks

database == <<made, stored, rank, appraisal, row>>
cache == <<cid, capp, cdata, count>>
broker == <<queue, unacked, channel>>
taskVars == <<tpc, tstu, tidx, tgot>>
clientVars == <<pc, stu, kind, srank, sapp, sdata>>
bounds == <<requests, breaks>>
vars == <<database, cache, broker, taskVars, clientVars, told, bounds>>

TaskPC == {"idle", "ack", "check", "fetch", "incr", "rank", "store", "pay", "learn"}
ClientPC == {"idle", "info", "find", "create", "publish", "refresh", "poll", "rankCache",
             "rankRow", "rankSave", "dataCache", "dataRow", "dataSave", "appraise",
             "forget"}

AnyStudent == CHOOSE s \in Student : TRUE

Init ==
    /\ made = {} /\ stored = {} /\ told = {}
    /\ rank = [s \in Student |-> 0] /\ appraisal = [s \in Student |-> 0]
    /\ row = [s \in Student |-> NoData]
    /\ cid = [s \in Student |-> 0] /\ capp = [s \in Student |-> 0]
    /\ cdata = [s \in Student |-> NoData]
    /\ count = 0 /\ queue = <<>> /\ unacked = <<>> /\ channel = "open"
    /\ tpc = [t \in Task |-> "idle"]
    /\ tstu = [t \in Task |-> AnyStudent]
    /\ tidx = [t \in Task |-> 0]
    /\ tgot = [t \in Task |-> NoData]
    /\ pc = [c \in Client |-> "idle"]
    /\ stu = [c \in Client |-> AnyStudent]
    /\ kind = [c \in Client |-> "pay"]
    /\ srank = [c \in Client |-> 0] /\ sapp = [c \in Client |-> 0]
    /\ sdata = [c \in Client |-> "none"]
    /\ requests = 0 /\ breaks = 0

May(f) == f \in Faults

\* Mutant: the key of the cached rank lacks the student.
RankedAnyone(s) == \E r \in Student : cid[r] # 0

\* The cache's GetRank finds a rank; an error of Redis counts as none.
Ranked(s) == cid[s] # 0

CacheRank(s, id, app) ==
    /\ cid' = [cid EXCEPT ![s] = id]
    /\ capp' = [capp EXCEPT ![s] = app]

CacheData(s, k, data) == cdata' = [cdata EXCEPT ![s][k] = data]

-----------------------------------------------------------------------------
(***************************************************************************)
(* The consumer DataInit and the goroutine of one task.                    *)
(***************************************************************************)
TaskGoto(t, p) ==
    /\ tpc' = [tpc EXCEPT ![t] = p]
    /\ UNCHANGED <<tstu, tidx, tgot>>

TaskEnds(t) ==
    /\ tpc' = [tpc EXCEPT ![t] = "idle"]
    /\ tstu' = [tstu EXCEPT ![t] = AnyStudent]
    /\ tidx' = [tidx EXCEPT ![t] = 0]
    /\ tgot' = [tgot EXCEPT ![t] = NoData]

Deliver(t) ==
    /\ tpc[t] = "idle" /\ channel = "open" /\ unacked = <<>> /\ queue # <<>>
    /\ unacked' = <<Head(queue)>> /\ queue' = Tail(queue)
    /\ tpc' = [tpc EXCEPT ![t] = "ack"]
    /\ tstu' = [tstu EXCEPT ![t] = Head(queue)]
    /\ UNCHANGED <<database, cache, channel, tidx, tgot, clientVars, told, bounds>>

\* The task is acknowledged before it is worked on.  The error of Ack is
\* ignored: when the channel has broken, the task is queued again and goes on.
Ack(t) ==
    /\ tpc[t] = "ack"
    /\ unacked' = <<>>
    /\ TaskGoto(t, "check")
    /\ UNCHANGED <<database, cache, queue, channel, clientVars, told, bounds>>

\* A task of a student with a rank is dropped.
CheckRank(t) ==
    /\ tpc[t] = "check"
    /\ \/ Ranked(tstu[t]) /\ TaskEnds(t)
       \/ ~Ranked(tstu[t]) /\ TaskGoto(t, "fetch")
       \/ May("redis") /\ TaskGoto(t, "fetch")
    /\ UNCHANGED <<database, cache, broker, clientVars, told, bounds>>

\* What may be fetched of a kind.  When the student has a row, the response has
\* nothing but its flag; after an error it is what was filled in so far.
Response(s, k) ==
    {IF row[s][k] = "none" THEN "full" ELSE "lacking"}
        \cup (IF May("fetch") THEN {"lacking"} ELSE {})

PayDataInit(s) == Response(s, "pay")

LearnDataInit(s) == Response(s, "learn")

\* The two fetches run side by side; their errors are dropped.
Fetch(t, k) ==
    /\ tpc[t] = "fetch" /\ tgot[t][k] = "none"
    /\ \E g \in IF k = "pay" THEN PayDataInit(tstu[t]) ELSE LearnDataInit(tstu[t]) :
          tgot' = [tgot EXCEPT ![t][k] = g]
    /\ tpc' = [tpc EXCEPT ![t] = IF tgot'[t]["pay"] # "none" /\ tgot'[t]["learn"] # "none"
                                 THEN "incr" ELSE "fetch"]
    /\ UNCHANGED <<database, cache, broker, tstu, tidx, clientVars, told, bounds>>

\* Mutant: the bills stored are counted instead.
NextIndexOfStored == Cardinality(stored) + 1

\* What INCR answers.
NextIndex == count + 1

IncrValue(t) ==
    /\ tpc[t] = "incr"
    /\ \/ /\ count' = count + 1
          /\ tidx' = [tidx EXCEPT ![t] = NextIndex]
          /\ tpc' = [tpc EXCEPT ![t] = "rank"]
          /\ UNCHANGED <<tstu, tgot>>
       \/ /\ May("redis")
          /\ count' \in {count, count + 1}
          /\ TaskEnds(t)
    /\ UNCHANGED <<database, cid, capp, cdata, broker, clientVars, told, bounds>>

\* Mutant: the goroutine ends once the rank is cached.
SaveRankEnds(t) ==
    /\ tpc[t] = "rank"
    /\ CacheRank(tstu[t], tidx[t], 0)
    /\ TaskEnds(t)
    /\ UNCHANGED <<database, cdata, count, broker, clientVars, told, bounds>>

SaveRank(t) ==
    LET s == tstu[t]
    IN  /\ tpc[t] = "rank"
        /\ \/ CacheRank(s, tidx[t], 0) /\ TaskGoto(t, "store")
           \/ /\ May("redis")
              /\ UNCHANGED <<cid, capp>> \/ CacheRank(s, tidx[t], 0)
              /\ TaskEnds(t)
        /\ UNCHANGED <<database, cdata, count, broker, clientVars, told, bounds>>

\* Mutant: the tables accept a second row of a student.
RowsFreeAlways(s) == TRUE

\* The unique index on stu_num refuses a second row.
RowsFree(s) == \A k \in Kind : row[s][k] = "none"

\* Mutant: the error of StorageData is not looked at.
StorageFailedGoesOn(t) == TaskGoto(t, "pay")

\* StorageData returned an error.
StorageFailed(t) == TaskEnds(t)

\* StorageData: both rows and the update of the user's row, or none of them.
\* The error of Commit is not looked at.
StorageData(t) ==
    LET s == tstu[t]
    IN  /\ tpc[t] = "store"
        /\ \/ /\ RowsFree(s)
              /\ row' = [row EXCEPT ![s] = tgot[t]]
              /\ stored' = stored \cup {s}
              /\ rank' = [rank EXCEPT ![s] = tidx[t]]
              /\ TaskGoto(t, "pay")
           \/ /\ ~RowsFree(s) \/ May("db")
              /\ StorageFailed(t) /\ UNCHANGED <<row, stored, rank>>
           \/ /\ May("commit") /\ RowsFree(s)
              /\ TaskGoto(t, "pay") /\ UNCHANGED <<row, stored, rank>>
        /\ UNCHANGED <<made, appraisal, cache, broker, clientVars, told, bounds>>

\* SavePayData, then SaveLearnData.
SaveData(t, k) ==
    LET s == tstu[t]
    IN  /\ tpc[t] = k
        /\ \/ /\ CacheData(s, k, tgot[t][k])
              /\ IF k = "pay" THEN TaskGoto(t, "learn") ELSE TaskEnds(t)
           \/ /\ May("redis")
              /\ UNCHANGED cdata \/ CacheData(s, k, tgot[t][k])
              /\ TaskEnds(t)
        /\ UNCHANGED <<database, cid, capp, count, broker, clientVars, told, bounds>>

TaskStep(t) ==
    \/ Ack(t) \/ CheckRank(t) \/ IncrValue(t) \/ SaveRank(t) \/ StorageData(t)
    \/ \E k \in Kind : Fetch(t, k) \/ SaveData(t, k)

-----------------------------------------------------------------------------
(***************************************************************************)
(* The gateway's session YearBillDataInit, with InfoCheck, GetCertificate  *)
(* and CheckState.                                                         *)
(***************************************************************************)
Goto(c, p) ==
    /\ pc' = [pc EXCEPT ![c] = p]
    /\ UNCHANGED <<stu, kind, srank, sapp, sdata>>

\* The request is answered and its locals are gone.
Answer(c) ==
    /\ pc' = [pc EXCEPT ![c] = "idle"]
    /\ stu' = [stu EXCEPT ![c] = AnyStudent]
    /\ kind' = [kind EXCEPT ![c] = "pay"]
    /\ srank' = [srank EXCEPT ![c] = 0]
    /\ sapp' = [sapp EXCEPT ![c] = 0]
    /\ sdata' = [sdata EXCEPT ![c] = "none"]

FirstStep == [op \in Op |-> CASE op = "init" -> "info"
                              [] op = "rank" -> "rankCache"
                              [] op = "appraise" -> "appraise"
                              [] OTHER -> "dataCache"]

Request(c, s, op) ==
    /\ pc[c] = "idle" /\ requests < MaxRequests
    /\ requests' = requests + 1
    /\ pc' = [pc EXCEPT ![c] = FirstStep[op]]
    /\ stu' = [stu EXCEPT ![c] = s]
    /\ kind' = [kind EXCEPT ![c] = IF op = "learn" THEN "learn" ELSE "pay"]
    /\ UNCHANGED <<database, cache, broker, taskVars, srank, sapp, sdata, told, breaks>>

\* InfoCheck: a student with a cached rank is told the data is there.
InfoCheck(c) ==
    /\ pc[c] = "info"
    /\ \/ Ranked(stu[c]) /\ told' = told \cup {stu[c]} /\ Answer(c)
       \/ /\ ~Ranked(stu[c]) \/ May("redis")
          /\ UNCHANGED told /\ Goto(c, "find")
    /\ UNCHANGED <<database, cache, broker, taskVars, bounds>>

\* GetCertificate: the certificates of the school, then FindUser.
FindUser(c) ==
    LET s == stu[c]
    IN  /\ pc[c] = "find"
        /\ \/ s \notin made /\ Goto(c, "create")
           \/ s \in made \ stored /\ Goto(c, "publish")
           \/ /\ s \in stored
              /\ pc' = [pc EXCEPT ![c] = "refresh"]
              /\ srank' = [srank EXCEPT ![c] = rank[s]]
              /\ sapp' = [sapp EXCEPT ![c] = appraisal[s]]
              /\ UNCHANGED <<stu, kind, sdata>>
           \/ (May("fetch") \/ May("db")) /\ Answer(c)
        /\ UNCHANGED <<database, cache, broker, taskVars, told, bounds>>

\* A second CreateUser of a student is refused by the unique index.
CreateUser(c) ==
    /\ pc[c] = "create"
    /\ \/ /\ stu[c] \notin made /\ made' = made \cup {stu[c]} /\ Goto(c, "publish")
       \/ /\ stu[c] \in made /\ UNCHANGED made /\ Answer(c)
       \/ May("db") /\ made' \in {made, made \cup {stu[c]}} /\ Answer(c)
    /\ UNCHANGED <<stored, rank, appraisal, row, cache, broker, taskVars, told, bounds>>

Producer(c) ==
    /\ pc[c] = "publish"
    /\ \/ channel = "open" /\ queue' = Append(queue, stu[c]) /\ Goto(c, "poll")
       \/ channel = "closed" /\ UNCHANGED queue /\ Answer(c)
       \/ May("mq") /\ queue' \in {queue, Append(queue, stu[c])} /\ Answer(c)
    /\ UNCHANGED <<database, cache, unacked, channel, taskVars, told, bounds>>

\* The data is stored already: its rank is cached again.
RefreshRank(c) ==
    LET s == stu[c]
    IN  /\ pc[c] = "refresh"
        /\ \/ CacheRank(s, srank[c], sapp[c]) /\ Goto(c, "poll")
           \/ /\ May("redis")
              /\ UNCHANGED <<cid, capp>> \/ CacheRank(s, srank[c], sapp[c])
              /\ Answer(c)
        /\ UNCHANGED <<database, cdata, count, broker, taskVars, told, bounds>>

\* One poll of CheckState that finds a rank.
CheckState(c) ==
    /\ pc[c] = "poll" /\ Ranked(stu[c])
    /\ told' = told \cup {stu[c]}
    /\ Answer(c)
    /\ UNCHANGED <<database, cache, broker, taskVars, bounds>>

\* Four minutes have passed, or CheckState failed.
GiveUp(c) ==
    /\ pc[c] = "poll"
    /\ Answer(c)
    /\ UNCHANGED <<database, cache, broker, taskVars, told, bounds>>

-----------------------------------------------------------------------------
(***************************************************************************)
(* The requests for what is prepared, and the appraisal.                   *)
(***************************************************************************)
GetRankCache(c) ==
    /\ pc[c] = "rankCache"
    /\ \/ Ranked(stu[c]) /\ Answer(c)
       \/ (~Ranked(stu[c]) \/ May("redis")) /\ Goto(c, "rankRow")
    /\ UNCHANGED <<database, cache, broker, taskVars, told, bounds>>

GetRankRow(c) ==
    LET s == stu[c]
    IN  /\ pc[c] = "rankRow"
        /\ \/ (s \notin made \/ May("db")) /\ Answer(c)
           \/ /\ s \in made
              /\ pc' = [pc EXCEPT ![c] = "rankSave"]
              /\ srank' = [srank EXCEPT ![c] = rank[s]]
              /\ sapp' = [sapp EXCEPT ![c] = appraisal[s]]
              /\ UNCHANGED <<stu, kind, sdata>>
        /\ UNCHANGED <<database, cache, broker, taskVars, told, bounds>>

\* The row is cached whatever its rank, 0 included; an error is dropped.
GetRankSave(c) ==
    /\ pc[c] = "rankSave"
    /\ \/ CacheRank(stu[c], srank[c], sapp[c])
       \/ May("redis") /\ UNCHANGED <<cid, capp>>
    /\ Answer(c)
    /\ UNCHANGED <<database, cdata, count, broker, taskVars, told, bounds>>

\* GetPayData and GetLearnData: the cache, else the table, which is then cached.
GetDataCache(c) ==
    /\ pc[c] = "dataCache"
    /\ \/ (cdata[stu[c]][kind[c]] # "none" \/ May("redis")) /\ Answer(c)
       \/ cdata[stu[c]][kind[c]] = "none" /\ Goto(c, "dataRow")
    /\ UNCHANGED <<database, cache, broker, taskVars, told, bounds>>

GetDataRow(c) ==
    LET found == row[stu[c]][kind[c]]
    IN  /\ pc[c] = "dataRow"
        /\ \/ (found = "none" \/ May("db")) /\ Answer(c)
           \/ /\ found # "none"
              /\ pc' = [pc EXCEPT ![c] = "dataSave"]
              /\ sdata' = [sdata EXCEPT ![c] = found]
              /\ UNCHANGED <<stu, kind, srank, sapp>>
        /\ UNCHANGED <<database, cache, broker, taskVars, told, bounds>>

GetDataSave(c) ==
    /\ pc[c] = "dataSave"
    /\ \/ CacheData(stu[c], kind[c], sdata[c])
       \/ May("redis") /\ UNCHANGED cdata
    /\ Answer(c)
    /\ UNCHANGED <<database, cid, capp, count, broker, taskVars, told, bounds>>

\* Appraise: the row first (an update of no row is no error), then the cache.
Appraise(c) ==
    /\ pc[c] = "appraise"
    /\ \/ /\ \E v \in 0 .. MaxAppraisal :
                appraisal' = IF stu[c] \in made THEN [appraisal EXCEPT ![stu[c]] = v]
                             ELSE appraisal
          /\ Goto(c, "forget")
       \/ May("db") /\ UNCHANGED appraisal /\ Answer(c)
    /\ UNCHANGED <<made, stored, rank, row, cache, broker, taskVars, told, bounds>>

DelRank(c) ==
    /\ pc[c] = "forget"
    /\ \/ CacheRank(stu[c], 0, 0)
       \/ May("redis") /\ UNCHANGED <<cid, capp>>
    /\ Answer(c)
    /\ UNCHANGED <<database, cdata, count, broker, taskVars, told, bounds>>

ClientStep(c) ==
    \/ InfoCheck(c) \/ FindUser(c) \/ CreateUser(c) \/ Producer(c) \/ RefreshRank(c)
    \/ CheckState(c) \/ GetRankCache(c) \/ GetRankRow(c) \/ GetRankSave(c)
    \/ GetDataCache(c) \/ GetDataRow(c) \/ GetDataSave(c) \/ Appraise(c) \/ DelRank(c)

-----------------------------------------------------------------------------
\* A task stays in the queue for five minutes at most.
Expire ==
    /\ May("expire") /\ queue # <<>>
    /\ queue' = Tail(queue)
    /\ UNCHANGED <<database, cache, unacked, channel, taskVars, clientVars, told, bounds>>

\* The channel breaks.  A task that was not acknowledged goes back to the queue;
\* InitMQ runs at start only, so nothing is published or delivered any more.
Break ==
    /\ breaks < MaxBreak /\ channel = "open"
    /\ breaks' = breaks + 1
    /\ channel' = "closed"
    /\ queue' = unacked \o queue /\ unacked' = <<>>
    /\ UNCHANGED <<database, cache, taskVars, clientVars, told, requests>>

\* The service crashes and is started again: tasks and requests are gone.
Crash ==
    /\ breaks < MaxBreak
    /\ breaks' = breaks + 1
    /\ queue' = unacked \o queue /\ unacked' = <<>> /\ channel' = "open"
    /\ tpc' = [t \in Task |-> "idle"]
    /\ tstu' = [t \in Task |-> AnyStudent]
    /\ tidx' = [t \in Task |-> 0]
    /\ tgot' = [t \in Task |-> NoData]
    /\ pc' = [c \in Client |-> "idle"]
    /\ stu' = [c \in Client |-> AnyStudent]
    /\ kind' = [c \in Client |-> "pay"]
    /\ srank' = [c \in Client |-> 0] /\ sapp' = [c \in Client |-> 0]
    /\ sdata' = [c \in Client |-> "none"]
    /\ UNCHANGED <<database, cache, told, requests>>

Next ==
    \/ \E t \in Task : Deliver(t) \/ TaskStep(t)
    \/ \E c \in Client : ClientStep(c) \/ GiveUp(c)
    \/ \E c \in Client, s \in Student, op \in Ops : Request(c, s, op)
    \/ Expire \/ Break \/ Crash

Spec == Init /\ [][Next]_vars

\* The broker delivers while a goroutine is free, goroutines run on, and a
\* request that was started is served.  No request has to come.
Fairness ==
    /\ \A t \in Task : WF_vars(Deliver(t)) /\ WF_vars(TaskStep(t))
    /\ \A c \in Client : WF_vars(ClientStep(c))

FairSpec == Spec /\ Fairness

-----------------------------------------------------------------------------
(***************************************************************************)
(* Properties.                                                             *)
(***************************************************************************)
\* The type invariant.
TypeOK ==
    /\ made \subseteq Student /\ stored \subseteq Student /\ told \subseteq Student
    /\ rank \in [Student -> Nat] /\ appraisal \in [Student -> 0 .. MaxAppraisal]
    /\ row \in [Student -> [Kind -> Content]]
    /\ cid \in [Student -> Nat] /\ capp \in [Student -> 0 .. MaxAppraisal]
    /\ cdata \in [Student -> [Kind -> Content]]
    /\ count \in Nat /\ queue \in Seq(Student) /\ unacked \in Seq(Student)
    /\ tpc \in [Task -> TaskPC] /\ tstu \in [Task -> Student]
    /\ tidx \in [Task -> Nat] /\ tgot \in [Task -> [Kind -> Content]]
    /\ pc \in [Client -> ClientPC] /\ stu \in [Client -> Student]
    /\ kind \in [Client -> Kind] /\ srank \in [Client -> Nat]
    /\ sapp \in [Client -> 0 .. MaxAppraisal] /\ sdata \in [Client -> Content]
    /\ channel \in {"open", "closed"} /\ requests \in Nat /\ breaks \in Nat

\* Student s holds the index n: in the users table, in the cache, in a task or
\* in a request that has read one of them.
Holds(s, n) ==
    \/ rank[s] = n \/ cid[s] = n
    \/ \E t \in Task : tstu[t] = s /\ tidx[t] = n
    \/ \E c \in Client : stu[c] = s /\ srank[c] = n

\* No two students are ever told the same place: an index handed out by the
\* counter "count" reaches one student only, however tasks, requests that cache
\* a row again, faults and crashes interleave.
IndexHasOneHolder ==
    \A s, r \in Student : \A n \in 1 .. count : Holds(s, n) /\ Holds(r, n) => s = r

\* No student has a place beyond the number of bills counted.
IndexWithinCount ==
    \A s \in Student : rank[s] <= count /\ cid[s] <= count

\* Once StorageData has committed, nothing changes the student's rank or rows: a
\* task that is delivered twice, or published by two sessions, is refused.
StoredOnce ==
    [][\A s \in stored : s \in stored' /\ rank'[s] = rank[s] /\ row'[s] = row[s]]_vars

\* What GetPayData and GetLearnData answer from the cache is what the table holds:
\* a task fills the cache only after its own rows were committed.  StorageData does not
\* look at the error of Commit, so this holds as long as no commit fails.
CacheAgrees ==
    \A s \in Student, k \in Kind : cdata[s][k] # "none" => cdata[s][k] = row[s][k]

\* A student whose rank is cached has data, or a task that is about to store it:
\* what InfoCheck and CheckState take for "initialised" is not left over.
RankedIsCovered ==
    \A s \in Student :
        cid[s] # 0 => s \in stored \/ \E t \in Task : tstu[t] = s /\ tpc[t] = "store"

\* The same for a student whose task was published: until the data is stored, a
\* task for it is queued, delivered or running, so a session need not ask again.
PublishedIsPending ==
    \A s \in made :
        \/ s \in stored
        \/ \E i \in DOMAIN queue : queue[i] = s
        \/ \E t \in Task : tstu[t] = s /\ tpc[t] # "idle"
        \/ \E c \in Client : stu[c] = s /\ pc[c] = "publish"

\* Every student who has a row in users gets the data (DataInit), when nothing fails.
MadeIsStored == \A s \in Student : s \in made ~> s \in stored

\* A student who is told "initialised" has the data in the end.
ToldIsStored == \A s \in Student : s \in told ~> s \in stored

\* Init = 1 means that the data was fetched.
StoredIsFull == \A s \in stored : row[s] = [k \in Kind |-> "full"]

\* The place GetRank answers from the cache is the place in the table.
CachedRankIsStored == \A s \in stored : cid[s] \in {0, rank[s]}

\* The counter counts the students who took part.
CountIsParticipants == \E p \in [1 .. count -> made] : \A i, j \in 1 .. count : p[i] = p[j] => i = j

\* Once all requests are served, a cached appraisal is the one given.
AppraisalIsCurrent ==
    (\A c \in Client : pc[c] = "idle") /\ (\A t \in Task : tpc[t] = "idle")
        => \A s \in Student : cid[s] # 0 => capp[s] = appraisal[s]

-----------------------------------------------------------------------------
\* For TLC: task goroutines and requests are alike.
Alike == Permutations(Task) \cup Permutations(Client)
=============================================================================
