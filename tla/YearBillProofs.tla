--------------------------- MODULE YearBillProofs ---------------------------
(***************************************************************************)
(* Proofs about YearBill, for any number of students, tasks and requests:  *)
(* typing, the indices handed out by the counter and that a stored bill is *)
(* never replaced, for every set of faults; that the cache agrees with the *)
(* tables unless a commit fails; that a cached rank is covered as long as  *)
(* the stores work, and a published task pending as long as nothing fails. *)
(***************************************************************************)
EXTENDS YearBill, TLAPS

LEMMA AnyStudentType == AnyStudent \in Student
  BY StudentAssumption DEF AnyStudent

USE DEF Kind, Content, NoData

\* The program's steps, as the proofs below split them.
Step ==
    \/ \E t \in Task : Deliver(t)
    \/ \E t \in Task : Ack(t)
    \/ \E t \in Task : CheckRank(t)
    \/ \E t \in Task, k \in Kind : Fetch(t, k)
    \/ \E t \in Task : IncrValue(t)
    \/ \E t \in Task : SaveRank(t)
    \/ \E t \in Task : StorageData(t)
    \/ \E t \in Task, k \in Kind : SaveData(t, k)
    \/ \E c \in Client, s \in Student, op \in Ops : Request(c, s, op)
    \/ \E c \in Client : InfoCheck(c)
    \/ \E c \in Client : FindUser(c)
    \/ \E c \in Client : CreateUser(c)
    \/ \E c \in Client : Producer(c)
    \/ \E c \in Client : RefreshRank(c)
    \/ \E c \in Client : CheckState(c)
    \/ \E c \in Client : GiveUp(c)
    \/ \E c \in Client : GetRankCache(c)
    \/ \E c \in Client : GetRankRow(c)
    \/ \E c \in Client : GetRankSave(c)
    \/ \E c \in Client : GetDataCache(c)
    \/ \E c \in Client : GetDataRow(c)
    \/ \E c \in Client : GetDataSave(c)
    \/ \E c \in Client : Appraise(c)
    \/ \E c \in Client : DelRank(c)
    \/ Expire
    \/ Break
    \/ Crash

LEMMA NextIsStep == Next => Step
  BY DEF Next, TaskStep, ClientStep, Step

-----------------------------------------------------------------------------
(***************************************************************************)
(* Typing.                                                                 *)
(***************************************************************************)
\* What a task or a request does with its own locals keeps their types.
TaskTypeOK ==
    /\ tpc \in [Task -> TaskPC] /\ tstu \in [Task -> Student]
    /\ tidx \in [Task -> Nat] /\ tgot \in [Task -> [Kind -> Content]]

ClientTypeOK ==
    /\ pc \in [Client -> ClientPC] /\ stu \in [Client -> Student]
    /\ kind \in [Client -> Kind] /\ srank \in [Client -> Nat]
    /\ sapp \in [Client -> 0 .. MaxAppraisal] /\ sdata \in [Client -> Content]

LEMMA TaskMoves ==
  ASSUME TaskTypeOK, NEW t \in Task, NEW p \in TaskPC, TaskGoto(t, p) \/ TaskEnds(t)
  PROVE  TaskTypeOK'
  <1>1. CASE TaskGoto(t, p)
    BY <1>1 DEF TaskTypeOK, TaskGoto
  <1>2. CASE TaskEnds(t)
    BY <1>2, AnyStudentType DEF TaskTypeOK, TaskEnds, TaskPC
  <1> QED BY <1>1, <1>2

LEMMA ClientMoves ==
  ASSUME ClientTypeOK, NEW c \in Client, NEW p \in ClientPC, Goto(c, p) \/ Answer(c)
  PROVE  ClientTypeOK'
  <1>1. CASE Goto(c, p)
    BY <1>1 DEF ClientTypeOK, Goto
  <1>2. CASE Answer(c)
    BY <1>2, AnyStudentType, BoundAssumption DEF ClientTypeOK, Answer, ClientPC
  <1> QED BY <1>1, <1>2

LEMMA RankMoves ==
  ASSUME cid \in [Student -> Nat], capp \in [Student -> 0 .. MaxAppraisal],
         NEW s \in Student, NEW id \in Nat, NEW app \in 0 .. MaxAppraisal,
         UNCHANGED <<cid, capp>> \/ CacheRank(s, id, app)
  PROVE  cid' \in [Student -> Nat] /\ capp' \in [Student -> 0 .. MaxAppraisal]
  BY DEF CacheRank

LEMMA DataMoves ==
  ASSUME cdata \in [Student -> [Kind -> Content]],
         NEW s \in Student, NEW k \in Kind, NEW data \in Content,
         UNCHANGED cdata \/ CacheData(s, k, data)
  PROVE  cdata' \in [Student -> [Kind -> Content]]
  <1> HIDE DEF Kind, Content
  <1> QED BY DEF CacheData

\* The values of the state stay in their sets: Spec keeps the type invariant.
LEMMA TypeStep == TypeOK /\ [Next]_vars => TypeOK'
<1> SUFFICES ASSUME TypeOK, [Next]_vars PROVE TypeOK'
  OBVIOUS
<1>0. TaskTypeOK /\ ClientTypeOK
  BY DEF TypeOK, TaskTypeOK, ClientTypeOK
<1>a. ASSUME UNCHANGED taskVars PROVE TaskTypeOK'
  BY <1>0, <1>a DEF TaskTypeOK, taskVars
<1>b. ASSUME UNCHANGED clientVars PROVE ClientTypeOK'
  BY <1>0, <1>b DEF ClientTypeOK, clientVars
<1>1. ASSUME NEW t \in Task, Deliver(t) PROVE TypeOK'
  <2>1. Head(queue) \in Student /\ Tail(queue) \in Seq(Student)
    BY <1>1 DEF Deliver, TypeOK
  <2>4. <<Head(queue)>> \in Seq(Student)
    BY <2>1
  <2>2. TaskTypeOK'
    BY <1>0, <1>1, <2>1 DEF Deliver, TaskTypeOK, TaskPC
  <2>3. ClientTypeOK'
    BY <1>b, <1>1 DEF Deliver
  <2> QED BY <1>1, <2>1, <2>2, <2>3, <2>4
          DEF Deliver, TypeOK, TaskTypeOK, ClientTypeOK, database, cache, bounds
<1>2. ASSUME NEW t \in Task, Ack(t) PROVE TypeOK'
  <2>1. TaskTypeOK'
    BY <1>0, <1>2, TaskMoves DEF Ack, TaskPC
  <2>2. ClientTypeOK'
    BY <1>b, <1>2 DEF Ack
  <2>3. <<>> \in Seq(Student)
    OBVIOUS
  <2> QED BY <1>2, <2>1, <2>2, <2>3
          DEF Ack, TypeOK, TaskTypeOK, ClientTypeOK, database, cache, bounds
<1>3. ASSUME NEW t \in Task, CheckRank(t) PROVE TypeOK'
  <2>1. TaskTypeOK'
    BY <1>0, <1>3, TaskMoves DEF CheckRank, TaskPC
  <2>2. ClientTypeOK'
    BY <1>b, <1>3 DEF CheckRank
  <2> QED BY <1>3, <2>1, <2>2
          DEF CheckRank, TypeOK, TaskTypeOK, ClientTypeOK, database, cache, broker, bounds
<1>4. ASSUME NEW t \in Task, NEW k \in Kind, Fetch(t, k) PROVE TypeOK'
  <2>1. PICK g \in Content : tgot' = [tgot EXCEPT ![t][k] = g]
    BY <1>4 DEF Fetch, PayDataInit, LearnDataInit, Response
  <2>2. TaskTypeOK'
    BY <1>0, <1>4, <2>1 DEF Fetch, TaskTypeOK, TaskPC
  <2>3. ClientTypeOK'
    BY <1>b, <1>4 DEF Fetch
  <2> QED BY <1>4, <2>2, <2>3
          DEF Fetch, TypeOK, TaskTypeOK, ClientTypeOK, database, cache, broker, bounds
<1>5. ASSUME NEW t \in Task, IncrValue(t) PROVE TypeOK'
  <2>1. NextIndex \in Nat /\ count' \in Nat
    BY <1>5 DEF IncrValue, NextIndex, TypeOK
  <2>2. TaskTypeOK'
    <3>1. CASE TaskEnds(t)
      BY <1>0, <3>1, TaskMoves DEF TaskPC
    <3>2. CASE ~TaskEnds(t)
      BY <1>0, <1>5, <2>1, <3>2 DEF IncrValue, TaskTypeOK, TaskPC
    <3> QED BY <3>1, <3>2
  <2>3. ClientTypeOK'
    BY <1>b, <1>5 DEF IncrValue
  <2> QED BY <1>5, <2>1, <2>2, <2>3
          DEF IncrValue, TypeOK, TaskTypeOK, ClientTypeOK, database, broker, bounds
<1>6. ASSUME NEW t \in Task, SaveRank(t) PROVE TypeOK'
  <2>1. TaskTypeOK'
    BY <1>0, <1>6, TaskMoves DEF SaveRank, TaskPC
  <2>2. ClientTypeOK'
    BY <1>b, <1>6 DEF SaveRank
  <2>3. cid' \in [Student -> Nat] /\ capp' \in [Student -> 0 .. MaxAppraisal]
    <3>1. tstu[t] \in Student /\ tidx[t] \in Nat
      BY DEF TypeOK
    <3>2. UNCHANGED <<cid, capp>> \/ CacheRank(tstu[t], tidx[t], 0)
      BY <1>6 DEF SaveRank
    <3> QED BY <3>1, <3>2, RankMoves, BoundAssumption DEF TypeOK
  <2> QED BY <1>6, <2>1, <2>2, <2>3
          DEF SaveRank, TypeOK, TaskTypeOK, ClientTypeOK, database, broker, bounds
<1>7. ASSUME NEW t \in Task, StorageData(t) PROVE TypeOK'
  <2>1. TaskTypeOK'
    BY <1>0, <1>7, TaskMoves DEF StorageData, StorageFailed, TaskPC
  <2>2. ClientTypeOK'
    BY <1>b, <1>7 DEF StorageData
  <2>3. row' \in [Student -> [Kind -> Content]] /\ rank' \in [Student -> Nat] /\ stored' \subseteq Student
    <3>1. tstu[t] \in Student /\ tidx[t] \in Nat /\ tgot[t] \in [Kind -> Content]
      BY DEF TypeOK
    <3>2. \/ UNCHANGED <<row, stored, rank>>
          \/ /\ row' = [row EXCEPT ![tstu[t]] = tgot[t]]
             /\ stored' = stored \cup {tstu[t]}
             /\ rank' = [rank EXCEPT ![tstu[t]] = tidx[t]]
      BY <1>7 DEF StorageData
    <3>3. row \in [Student -> [Kind -> Content]] /\ rank \in [Student -> Nat]
          /\ stored \subseteq Student
      BY DEF TypeOK
    <3> HIDE DEF Kind, Content
    <3> QED BY <3>1, <3>2, <3>3
  <2> QED BY <1>7, <2>1, <2>2, <2>3
          DEF StorageData, TypeOK, TaskTypeOK, ClientTypeOK, cache, broker, bounds
<1>8. ASSUME NEW t \in Task, NEW k \in Kind, SaveData(t, k) PROVE TypeOK'
  <2>1. TaskTypeOK'
    BY <1>0, <1>8, TaskMoves DEF SaveData, TaskPC
  <2>2. ClientTypeOK'
    BY <1>b, <1>8 DEF SaveData
  <2>3. cdata' \in [Student -> [Kind -> Content]]
    <3>1. UNCHANGED cdata \/ CacheData(tstu[t], k, tgot[t][k])
      BY <1>8 DEF SaveData
    <3>2. tstu[t] \in Student /\ tgot[t][k] \in Content /\ cdata \in [Student -> [Kind -> Content]]
      BY DEF TypeOK
    <3> QED BY <3>1, <3>2, DataMoves
  <2> QED BY <1>8, <2>1, <2>2, <2>3
          DEF SaveData, TypeOK, TaskTypeOK, ClientTypeOK, database, broker, bounds
<1>9. ASSUME NEW c \in Client, NEW s \in Student, NEW op \in Ops, Request(c, s, op)
      PROVE  TypeOK'
  <2>1. FirstStep[op] \in ClientPC
    BY OpsAssumption DEF FirstStep, ClientPC, Op
  <2>2. ClientTypeOK'
    BY <1>0, <1>9, <2>1 DEF Request, ClientTypeOK
  <2>3. TaskTypeOK'
    BY <1>a, <1>9 DEF Request
  <2>4. requests' \in Nat
    BY <1>9 DEF Request, TypeOK
  <2>5. UNCHANGED <<made, stored, rank, appraisal, row, cid, capp, cdata, count, queue,
                    unacked, channel, told, breaks>>
    BY <1>9 DEF Request, database, cache, broker
  <2> QED BY <2>2, <2>3, <2>4, <2>5 DEF TypeOK, TaskTypeOK, ClientTypeOK
<1>10. ASSUME NEW c \in Client,
              InfoCheck(c) \/ CheckState(c) \/ GiveUp(c) \/ GetRankCache(c) \/ GetDataCache(c)
       PROVE  TypeOK'
  <2>1. ClientTypeOK'
    BY <1>0, <1>10, ClientMoves
       DEF InfoCheck, CheckState, GiveUp, GetRankCache, GetDataCache, ClientPC
  <2>2. TaskTypeOK'
    BY <1>a, <1>10 DEF InfoCheck, CheckState, GiveUp, GetRankCache, GetDataCache
  <2>3. told' \subseteq Student
    BY <1>10 DEF InfoCheck, CheckState, GiveUp, GetRankCache, GetDataCache, TypeOK
  <2> QED BY <1>10, <2>1, <2>2, <2>3, ZenonT(40)
          DEF InfoCheck, CheckState, GiveUp, GetRankCache, GetDataCache, TypeOK, TaskTypeOK,
              ClientTypeOK, database, cache, broker, bounds
<1>11. ASSUME NEW c \in Client, FindUser(c) \/ GetRankRow(c) \/ GetDataRow(c)
       PROVE  TypeOK'
  <2>1. ClientTypeOK'
    <3>1. CASE Answer(c) \/ Goto(c, "create") \/ Goto(c, "publish")
      BY <1>0, <3>1, ClientMoves DEF ClientPC
    <3>2. CASE ~(Answer(c) \/ Goto(c, "create") \/ Goto(c, "publish"))
      <4>1. /\ rank[stu[c]] \in Nat /\ appraisal[stu[c]] \in 0 .. MaxAppraisal
            /\ row[stu[c]][kind[c]] \in Content
        <5>1. stu[c] \in Student /\ kind[c] \in Kind
          BY DEF TypeOK
        <5>2. /\ rank \in [Student -> Nat] /\ appraisal \in [Student -> 0 .. MaxAppraisal]
              /\ row \in [Student -> [Kind -> Content]]
          BY DEF TypeOK
        <5> HIDE DEF Kind, Content
        <5> QED BY <5>1, <5>2
      <4>2. CASE FindUser(c) \/ GetRankRow(c)
        <5>1. /\ \E p \in {"refresh", "rankSave"} : pc' = [pc EXCEPT ![c] = p]
              /\ srank' = [srank EXCEPT ![c] = rank[stu[c]]]
              /\ sapp' = [sapp EXCEPT ![c] = appraisal[stu[c]]]
              /\ UNCHANGED <<stu, kind, sdata>>
          <6>1. CASE FindUser(c)
            BY <3>2, <6>1 DEF FindUser
          <6>2. CASE GetRankRow(c)
            BY <3>2, <6>2 DEF GetRankRow
          <6> QED BY <4>2, <6>1, <6>2
        <5> QED BY <1>0, <4>1, <5>1 DEF ClientTypeOK, ClientPC
      <4>3. CASE GetDataRow(c)
        BY <1>0, <3>2, <4>1, <4>3 DEF GetDataRow, ClientTypeOK, ClientPC
      <4> QED BY <1>11, <4>2, <4>3
    <3> QED BY <3>1, <3>2
  <2>2. TaskTypeOK'
    BY <1>a, <1>11 DEF FindUser, GetRankRow, GetDataRow
  <2> QED BY <1>11, <2>1, <2>2
          DEF FindUser, GetRankRow, GetDataRow, TypeOK, TaskTypeOK, ClientTypeOK, database,
              cache, broker, bounds
<1>12. ASSUME NEW c \in Client, CreateUser(c) \/ Appraise(c) PROVE TypeOK'
  <2>1. ClientTypeOK'
    BY <1>0, <1>12, ClientMoves DEF CreateUser, Appraise, ClientPC
  <2>2. TaskTypeOK'
    BY <1>a, <1>12 DEF CreateUser, Appraise
  <2>3. made' \subseteq Student /\ appraisal' \in [Student -> 0 .. MaxAppraisal]
    <3>1. stu[c] \in Student /\ made \subseteq Student
          /\ appraisal \in [Student -> 0 .. MaxAppraisal]
      BY DEF TypeOK
    <3>2. CASE CreateUser(c)
      BY <3>1, <3>2 DEF CreateUser
    <3>3. CASE Appraise(c)
      BY <3>1, <3>3 DEF Appraise
    <3> QED BY <1>12, <3>2, <3>3
  <2> QED BY <1>12, <2>1, <2>2, <2>3
          DEF CreateUser, Appraise, TypeOK, TaskTypeOK, ClientTypeOK, cache, broker, bounds
<1>13. ASSUME NEW c \in Client, Producer(c) PROVE TypeOK'
  <2>1. ClientTypeOK'
    BY <1>0, <1>13, ClientMoves DEF Producer, ClientPC
  <2>2. TaskTypeOK'
    BY <1>a, <1>13 DEF Producer
  <2>3. Append(queue, stu[c]) \in Seq(Student)
    BY DEF TypeOK
  <2> QED BY <1>13, <2>1, <2>2, <2>3
          DEF Producer, TypeOK, TaskTypeOK, ClientTypeOK, database, cache, bounds
<1>14. ASSUME NEW c \in Client, RefreshRank(c) \/ GetRankSave(c) \/ DelRank(c)
       PROVE  TypeOK'
  <2>1. ClientTypeOK'
    BY <1>0, <1>14, ClientMoves DEF RefreshRank, GetRankSave, DelRank, ClientPC
  <2>2. TaskTypeOK'
    BY <1>a, <1>14 DEF RefreshRank, GetRankSave, DelRank
  <2>3. cid' \in [Student -> Nat] /\ capp' \in [Student -> 0 .. MaxAppraisal]
    <3>1. \/ UNCHANGED <<cid, capp>>
          \/ CacheRank(stu[c], srank[c], sapp[c])
          \/ CacheRank(stu[c], 0, 0)
      BY <1>14 DEF RefreshRank, GetRankSave, DelRank
    <3>2. stu[c] \in Student /\ srank[c] \in Nat /\ sapp[c] \in 0 .. MaxAppraisal
      BY DEF TypeOK
    <3> QED BY <3>1, <3>2, RankMoves, BoundAssumption DEF TypeOK
  <2> QED BY <1>14, <2>1, <2>2, <2>3
          DEF RefreshRank, GetRankSave, DelRank, TypeOK, TaskTypeOK, ClientTypeOK,
              database, broker, bounds
<1>15. ASSUME NEW c \in Client, GetDataSave(c) PROVE TypeOK'
  <2>1. ClientTypeOK'
    BY <1>0, <1>15, ClientMoves DEF GetDataSave, ClientPC
  <2>2. TaskTypeOK'
    BY <1>a, <1>15 DEF GetDataSave
  <2>3. cdata' \in [Student -> [Kind -> Content]]
    <3>1. UNCHANGED cdata \/ CacheData(stu[c], kind[c], sdata[c])
      BY <1>15 DEF GetDataSave
    <3>2. /\ stu[c] \in Student /\ kind[c] \in Kind /\ sdata[c] \in Content
          /\ cdata \in [Student -> [Kind -> Content]]
      BY DEF TypeOK
    <3> QED BY <3>1, <3>2, DataMoves
  <2> QED BY <1>15, <2>1, <2>2, <2>3
          DEF GetDataSave, TypeOK, TaskTypeOK, ClientTypeOK, database, broker, bounds
<1>16. ASSUME Expire PROVE TypeOK'
  <2>1. Tail(queue) \in Seq(Student)
    BY <1>16 DEF Expire, TypeOK
  <2>2. TaskTypeOK' /\ ClientTypeOK'
    BY <1>a, <1>b, <1>16 DEF Expire
  <2> QED BY <1>16, <2>1, <2>2
          DEF Expire, TypeOK, TaskTypeOK, ClientTypeOK, database, cache, bounds
<1>17. ASSUME Break PROVE TypeOK'
  <2>1. unacked \o queue \in Seq(Student) /\ <<>> \in Seq(Student)
    BY DEF TypeOK
  <2>2. TaskTypeOK' /\ ClientTypeOK'
    BY <1>a, <1>b, <1>17 DEF Break
  <2> QED BY <1>17, <2>1, <2>2
          DEF Break, TypeOK, TaskTypeOK, ClientTypeOK, database, cache
<1>18. ASSUME Crash PROVE TypeOK'
  <2>1. unacked \o queue \in Seq(Student) /\ <<>> \in Seq(Student)
    BY DEF TypeOK
  <2>2. TaskTypeOK' /\ ClientTypeOK'
    BY <1>18, AnyStudentType, BoundAssumption
       DEF Crash, TaskTypeOK, ClientTypeOK, TaskPC, ClientPC
  <2>3. /\ queue' \in Seq(Student) /\ unacked' \in Seq(Student) /\ channel' \in {"open", "closed"}
        /\ requests' \in Nat /\ breaks' \in Nat
    BY <1>18, <2>1 DEF Crash, TypeOK
  <2>4. UNCHANGED <<made, stored, told, rank, appraisal, row, cid, capp, cdata, count>>
    BY <1>18 DEF Crash, database, cache
  <2> QED BY <2>2, <2>3, <2>4 DEF TypeOK, TaskTypeOK, ClientTypeOK
<1>19. CASE UNCHANGED vars
  BY <1>19 DEF TypeOK, vars, database, cache, broker, taskVars, clientVars, bounds
<1> QED
  BY <1>1, <1>2, <1>3, <1>4, <1>5, <1>6, <1>7, <1>8, <1>9, <1>10, <1>11, <1>12, <1>13,
     <1>14, <1>15, <1>16, <1>17, <1>18, <1>19, NextIsStep DEF Step

\* Spec keeps the type invariant.
THEOREM Typing == Spec => []TypeOK
<1>1. Init => TypeOK
  BY AnyStudentType, BoundAssumption DEF Init, TypeOK, TaskPC, ClientPC
<1> QED BY <1>1, TypeStep, PTL DEF Spec

-----------------------------------------------------------------------------
(***************************************************************************)
(* Indices.  A step copies an index only between places of one student;    *)
(* the one index that may appear is count + 1, taken by IncrValue.         *)
(***************************************************************************)
IndexInv ==
    /\ \A s \in Student, n \in Nat : Holds(s, n) => n <= count
    /\ \A s, r \in Student, n \in Nat \ {0} : Holds(s, n) /\ Holds(r, n) => s = r

\* The indices a step brings to w: none, or the next one.
Inherits(w) ==
    /\ count <= count'
    /\ \A s \in Student, n \in Nat \ {0} :
          Holds(s, n)' => Holds(s, n) \/ (s = w /\ n = count + 1 /\ n <= count')

LEMMA TaskHolds ==
  ASSUME TypeOK, NEW t \in Task, NEW p, TaskGoto(t, p) \/ TaskEnds(t),
         NEW u \in Task, NEW n \in Nat \ {0}, tidx'[u] = n
  PROVE  tidx[u] = n /\ tstu'[u] = tstu[u]
  BY DEF TypeOK, TaskGoto, TaskEnds

LEMMA ClientHolds ==
  ASSUME TypeOK, NEW c \in Client, NEW p, Goto(c, p) \/ Answer(c),
         NEW d \in Client, NEW n \in Nat \ {0}, srank'[d] = n
  PROVE  srank[d] = n /\ stu'[d] = stu[d]
  BY DEF TypeOK, Goto, Answer

\* A task or request that is not running holds no index.
IdleInv ==
    /\ \A t \in Task : tpc[t] = "idle" => tidx[t] = 0
    /\ \A c \in Client : pc[c] = "idle" => srank[c] = 0

LEMMA IdleStep == TypeOK /\ IdleInv /\ [Next]_vars => IdleInv'
<1> SUFFICES ASSUME TypeOK, IdleInv, [Next]_vars PROVE IdleInv'
  OBVIOUS
<1> USE DEF IdleInv
<1>a. ASSUME NEW t \in Task, NEW p \in TaskPC \ {"idle"}, TaskGoto(t, p) \/ TaskEnds(t),
             UNCHANGED clientVars
      PROVE  IdleInv'
  BY <1>a DEF TypeOK, TaskGoto, TaskEnds, clientVars
<1>b. ASSUME NEW c \in Client, NEW p \in ClientPC \ {"idle"}, Goto(c, p) \/ Answer(c),
             UNCHANGED taskVars
      PROVE  IdleInv'
  BY <1>b DEF TypeOK, Goto, Answer, taskVars
<1>1. ASSUME NEW t \in Task,
             Deliver(t) \/ (\E k \in Kind : Fetch(t, k)) \/ IncrValue(t)
      PROVE  IdleInv'
  <2>1. CASE IncrValue(t) /\ TaskEnds(t)
    BY <1>a, <2>1 DEF IncrValue, TaskPC
  <2>2. CASE ~(IncrValue(t) /\ TaskEnds(t))
    <3>1. /\ UNCHANGED clientVars
          /\ \E p \in {"ack", "fetch", "incr", "rank"} : tpc' = [tpc EXCEPT ![t] = p]
          /\ tidx' = tidx \/ \E n : tidx' = [tidx EXCEPT ![t] = n]
      BY <1>1, <2>2 DEF Deliver, Fetch, IncrValue
    <3>2. tpc \in [Task -> TaskPC] /\ tidx \in [Task -> Nat]
      BY DEF TypeOK
    <3> QED BY <3>1, <3>2 DEF clientVars
  <2> QED BY <2>1, <2>2
<1>2. ASSUME NEW t \in Task,
             \/ Ack(t) \/ CheckRank(t) \/ SaveRank(t) \/ StorageData(t)
             \/ \E k \in Kind : SaveData(t, k)
      PROVE  IdleInv'
  BY <1>2, <1>a
     DEF Ack, CheckRank, SaveRank, StorageData, StorageFailed, SaveData, TaskPC
<1>3. ASSUME NEW c \in Client, NEW s \in Student, NEW op \in Ops, Request(c, s, op)
      PROVE  IdleInv'
  <2>1. FirstStep[op] # "idle"
    BY OpsAssumption DEF FirstStep, Op
  <2> QED BY <1>3, <2>1 DEF Request, TypeOK, taskVars
<1>4. ASSUME NEW c \in Client,
             \/ InfoCheck(c) \/ CheckState(c) \/ GiveUp(c) \/ GetRankCache(c)
             \/ GetDataCache(c) \/ CreateUser(c) \/ Producer(c) \/ GetDataSave(c)
             \/ Appraise(c) \/ RefreshRank(c) \/ GetRankSave(c) \/ DelRank(c)
      PROVE  IdleInv'
  BY <1>4, <1>b
     DEF InfoCheck, CheckState, GiveUp, GetRankCache, GetDataCache, CreateUser, Producer,
         GetDataSave, Appraise, RefreshRank, GetRankSave, DelRank, ClientPC
<1>5. ASSUME NEW c \in Client, FindUser(c) \/ GetRankRow(c) \/ GetDataRow(c)
      PROVE  IdleInv'
  <2>1. CASE Answer(c) \/ Goto(c, "create") \/ Goto(c, "publish")
    BY <1>5, <2>1, <1>b DEF FindUser, GetRankRow, GetDataRow, ClientPC
  <2>2. CASE ~(Answer(c) \/ Goto(c, "create") \/ Goto(c, "publish"))
    <3>1. /\ UNCHANGED <<tpc, tidx>>
          /\ \E p \in {"refresh", "rankSave", "dataSave"} : pc' = [pc EXCEPT ![c] = p]
          /\ srank' = srank \/ \E n : srank' = [srank EXCEPT ![c] = n]
      BY <1>5, <2>2 DEF FindUser, GetRankRow, GetDataRow, taskVars
    <3>2. pc \in [Client -> ClientPC] /\ srank \in [Client -> Nat]
      BY DEF TypeOK
    <3> QED BY <3>1, <3>2
  <2> QED BY <2>1, <2>2
<1>6. ASSUME Expire \/ Break PROVE IdleInv'
  BY <1>6 DEF Expire, Break, taskVars, clientVars
<1>7. ASSUME Crash PROVE IdleInv'
  BY <1>7 DEF Crash
<1>8. CASE UNCHANGED vars
  BY <1>8 DEF vars, taskVars, clientVars
<1> QED
  <2>1. CASE Next
    <3>1. Step
      BY <2>1, NextIsStep
    <3> QED BY <3>1, <1>1, <1>2, <1>3, <1>4, <1>5, <1>6, <1>7 DEF Step
  <2> QED BY <2>1, <1>8

\* An index held after a step was held before, or it is the counter's next one.
LEMMA InheritStep ==
  ASSUME TypeOK, IdleInv, Next PROVE \E w \in Student : Inherits(w)
<1>0. count \in Nat /\ AnyStudent \in Student
  BY AnyStudentType DEF TypeOK
<1>t. /\ tidx \in [Task -> Nat] /\ tstu \in [Task -> Student]
      /\ srank \in [Client -> Nat] /\ stu \in [Client -> Student]
      /\ cid \in [Student -> Nat] /\ rank \in [Student -> Nat]
  BY DEF TypeOK
<1>a. ASSUME NEW t \in Task, NEW p, TaskGoto(t, p) \/ TaskEnds(t), count' = count,
             UNCHANGED <<stu, srank>>,
             \A s \in Student : \/ rank'[s] = rank[s]
                                \/ s = tstu[t] /\ rank'[s] = tidx[t],
             \A s \in Student : \/ cid'[s] = cid[s]
                                \/ s = tstu[t] /\ cid'[s] = tidx[t]
      PROVE  Inherits(AnyStudent)
  BY <1>0, <1>a, TaskHolds DEF Holds, Inherits
<1>b. ASSUME NEW c \in Client, NEW p, Goto(c, p) \/ Answer(c), UNCHANGED <<count, rank, tstu, tidx>>,
             \A s \in Student : \/ cid'[s] \in {0, cid[s]}
                                \/ s = stu[c] /\ cid'[s] = srank[c]
      PROVE  Inherits(AnyStudent)
  BY <1>0, <1>b, ClientHolds DEF Holds, Inherits
<1>1. ASSUME NEW t \in Task, Deliver(t) PROVE Inherits(AnyStudent)
  <2>1. UNCHANGED <<count, rank, cid, stu, srank, tidx>>
    BY <1>1 DEF Deliver, database, cache, clientVars
  <2>2. \A u \in Task : tidx[u] # 0 => tstu'[u] = tstu[u]
    BY <1>1, <1>t DEF Deliver, IdleInv
  <2> QED BY <1>0, <1>t, <2>1, <2>2 DEF Holds, Inherits
<1>2. ASSUME NEW t \in Task, NEW k \in Kind, Fetch(t, k) PROVE Inherits(AnyStudent)
  BY <1>0, <1>2 DEF Fetch, Holds, Inherits, database, cache, clientVars
<1>3. ASSUME NEW t \in Task, IncrValue(t) PROVE Inherits(tstu[t])
  <2>1. UNCHANGED <<rank, cid, stu, srank>> /\ count' \in {count, count + 1}
    BY <1>3 DEF IncrValue, database, clientVars
  <2>2. ASSUME NEW u \in Task, NEW n \in Nat \ {0}, tidx'[u] = n
        PROVE  \/ tidx[u] = n /\ tstu'[u] = tstu[u]
               \/ /\ u = t /\ tstu'[u] = tstu[t]
                  /\ n = count + 1 /\ count' = count + 1
    <3>1. CASE TaskEnds(t)
      BY <2>2, <3>1, TaskHolds
    <3>2. CASE ~TaskEnds(t)
      <4>1. /\ tidx' = [tidx EXCEPT ![t] = count + 1]
            /\ tstu' = tstu /\ count' = count + 1
        BY <1>3, <3>2 DEF IncrValue, NextIndex
      <4>2. CASE u = t
        <5>1. tidx'[u] = count + 1
          BY <1>t, <4>1, <4>2
        <5> QED BY <2>2, <4>1, <4>2, <5>1
      <4>3. CASE u # t
        <5>1. tidx'[u] = tidx[u]
          BY <1>t, <4>1, <4>3
        <5> QED BY <2>2, <4>1, <5>1
      <4> QED BY <4>2, <4>3
    <3> QED BY <3>1, <3>2
  <2> QED BY <1>0, <2>1, <2>2 DEF Holds, Inherits
<1>4. ASSUME NEW t \in Task, NEW k \in Kind, Ack(t) \/ CheckRank(t) \/ SaveData(t, k)
      PROVE  Inherits(AnyStudent)
  <2>1. /\ count' = count /\ UNCHANGED <<stu, srank, rank, cid>>
        /\ \E p \in TaskPC : TaskGoto(t, p) \/ TaskEnds(t)
    BY <1>4 DEF Ack, CheckRank, SaveData, TaskPC, database, cache, clientVars
  <2> QED BY <2>1, <1>a
<1>5. ASSUME NEW t \in Task, SaveRank(t) PROVE Inherits(AnyStudent)
  <2>1. /\ count' = count /\ UNCHANGED <<stu, srank, rank>>
        /\ \E p \in TaskPC : TaskGoto(t, p) \/ TaskEnds(t)
    BY <1>5 DEF SaveRank, TaskPC, database, clientVars
  <2>2. \A s \in Student : cid'[s] = cid[s] \/ (s = tstu[t] /\ cid'[s] = tidx[t])
    <3>1. UNCHANGED <<cid, capp>> \/ CacheRank(tstu[t], tidx[t], 0)
      BY <1>5 DEF SaveRank
    <3> QED BY <1>t, <3>1 DEF CacheRank
  <2>3. PICK p \in TaskPC : TaskGoto(t, p) \/ TaskEnds(t)
    BY <2>1
  <2> QED BY <2>1, <2>2, <2>3, <1>a
<1>6. ASSUME NEW t \in Task, StorageData(t) PROVE Inherits(AnyStudent)
  <2>1. /\ count' = count /\ UNCHANGED <<stu, srank, cid>>
        /\ \E p \in TaskPC : TaskGoto(t, p) \/ TaskEnds(t)
    BY <1>6 DEF StorageData, StorageFailed, TaskPC, cache, clientVars
  <2>2. \A s \in Student : rank'[s] = rank[s] \/ (s = tstu[t] /\ rank'[s] = tidx[t])
    <3>1. rank' \in {rank, [rank EXCEPT ![tstu[t]] = tidx[t]]}
      BY <1>6 DEF StorageData
    <3> QED BY <1>t, <3>1
  <2>3. PICK p \in TaskPC : TaskGoto(t, p) \/ TaskEnds(t)
    BY <2>1
  <2> QED BY <2>1, <2>2, <2>3, <1>a
<1>7. ASSUME NEW c \in Client, NEW s \in Student, NEW op \in Ops, Request(c, s, op)
      PROVE  Inherits(AnyStudent)
  <2>1. UNCHANGED <<count, rank, cid, tstu, tidx, srank>>
    BY <1>7 DEF Request, database, cache, taskVars
  <2>2. \A d \in Client : srank[d] # 0 => stu'[d] = stu[d]
    BY <1>7, <1>t DEF Request, IdleInv
  <2> QED BY <1>0, <1>t, <2>1, <2>2 DEF Holds, Inherits
<1>8. ASSUME NEW c \in Client,
             \/ InfoCheck(c) \/ CheckState(c) \/ GiveUp(c) \/ GetRankCache(c)
             \/ GetDataCache(c) \/ CreateUser(c) \/ Producer(c) \/ GetDataSave(c)
             \/ Appraise(c)
      PROVE  Inherits(AnyStudent)
  <2>1. /\ UNCHANGED <<count, rank, cid, tstu, tidx>>
        /\ \E p \in ClientPC : Goto(c, p) \/ Answer(c)
    BY <1>8 DEF InfoCheck, CheckState, GiveUp, GetRankCache, GetDataCache, CreateUser,
                Producer, GetDataSave, Appraise, ClientPC, database, cache, taskVars
  <2> QED BY <2>1, <1>b
<1>9. ASSUME NEW c \in Client, RefreshRank(c) \/ GetRankSave(c) \/ DelRank(c)
      PROVE  Inherits(AnyStudent)
  <2>1. /\ UNCHANGED <<count, rank, tstu, tidx>>
        /\ \E p \in ClientPC : Goto(c, p) \/ Answer(c)
    BY <1>9 DEF RefreshRank, GetRankSave, DelRank, ClientPC, database, taskVars
  <2>2. \A s \in Student : cid'[s] \in {0, cid[s]} \/ (s = stu[c] /\ cid'[s] = srank[c])
    <3>1. \/ UNCHANGED <<cid, capp>>
          \/ CacheRank(stu[c], srank[c], sapp[c])
          \/ CacheRank(stu[c], 0, 0)
      BY <1>9 DEF RefreshRank, GetRankSave, DelRank
    <3> QED BY <1>t, <3>1 DEF CacheRank
  <2>3. PICK p \in ClientPC : Goto(c, p) \/ Answer(c)
    BY <2>1
  <2> QED BY <2>1, <2>2, <2>3, <1>b
<1>10. ASSUME NEW c \in Client, FindUser(c) \/ GetRankRow(c) \/ GetDataRow(c)
       PROVE  Inherits(AnyStudent)
  <2>1. UNCHANGED <<count, rank, cid, tstu, tidx>>
    BY <1>10 DEF FindUser, GetRankRow, GetDataRow, database, cache, taskVars
  <2>2. CASE \E p \in ClientPC : Goto(c, p) \/ Answer(c)
    BY <2>1, <2>2, <1>b
  <2>3. CASE ~\E p \in ClientPC : Goto(c, p) \/ Answer(c)
    <3>1. /\ stu' = stu
          /\ srank' \in {srank, [srank EXCEPT ![c] = rank[stu[c]]]}
      BY <1>10, <2>3 DEF FindUser, GetRankRow, GetDataRow, ClientPC
    <3>2. srank \in [Client -> Nat] /\ stu[c] \in Student
      BY <1>0 DEF TypeOK
    <3>3. \A d \in Client : srank'[d] = srank[d] \/ (d = c /\ srank'[d] = rank[stu[c]])
      BY <3>1, <3>2
    <3>4. ASSUME NEW s \in Student, NEW n \in Nat \ {0}, Holds(s, n)'
          PROVE  Holds(s, n)
      <4>1. CASE \E d \in Client : stu'[d] = s /\ srank'[d] = n
        BY <2>1, <3>1, <3>3, <4>1 DEF Holds
      <4>2. CASE ~\E d \in Client : stu'[d] = s /\ srank'[d] = n
        BY <2>1, <3>4, <4>2 DEF Holds
      <4> QED BY <4>1, <4>2
    <3> QED BY <1>0, <2>1, <3>4 DEF Inherits, TypeOK
  <2> QED BY <2>2, <2>3
<1>11. ASSUME Expire \/ Break PROVE Inherits(AnyStudent)
  BY <1>0, <1>11
     DEF Expire, Break, Holds, Inherits, database, cache, taskVars, clientVars
<1>12. ASSUME Crash PROVE Inherits(AnyStudent)
  BY <1>0, <1>12 DEF Crash, Holds, Inherits, database, cache
<1>13. \A t \in Task : tstu[t] \in Student
  BY DEF TypeOK
<1> QED
  BY <1>0, <1>1, <1>2, <1>3, <1>4, <1>5, <1>6, <1>7, <1>8, <1>9, <1>10, <1>11, <1>12, <1>13,
     NextIsStep DEF Step

\* IndexInv is inductive.
LEMMA IndexStep == TypeOK /\ TypeOK' /\ IdleInv /\ IndexInv /\ [Next]_vars => IndexInv'
<1> SUFFICES ASSUME TypeOK, TypeOK', IdleInv, IndexInv, [Next]_vars PROVE IndexInv'
  OBVIOUS
<1>0. count \in Nat /\ count' \in Nat
  BY DEF TypeOK
<1>1. CASE Next
  <2>1. PICK w \in Student : Inherits(w)
    BY <1>1, InheritStep
  <2>2. ASSUME NEW s \in Student, NEW n \in Nat, Holds(s, n)' PROVE n <= count'
    BY <1>0, <2>1, <2>2 DEF IndexInv, Inherits
  <2>3. ASSUME NEW s \in Student, NEW r \in Student, NEW n \in Nat \ {0},
               Holds(s, n)', Holds(r, n)'
        PROVE  s = r
    BY <1>0, <2>1, <2>3 DEF IndexInv, Inherits
  <2> QED BY <2>2, <2>3 DEF IndexInv
<1>2. CASE UNCHANGED vars
  BY <1>2 DEF IndexInv, Holds, vars, database, cache, taskVars, clientVars
<1> QED BY <1>1, <1>2

\* Idle tasks and requests hold no index; an index held lies within the counter
\* and has one holder.
THEOREM IndexInvHolds == Spec => [](IdleInv /\ IndexInv)
<1>1. Init => IdleInv /\ IndexInv
  <2> SUFFICES ASSUME Init PROVE IdleInv /\ IndexInv
    OBVIOUS
  <2>1. IdleInv
    BY DEF Init, IdleInv
  <2>2. \A s \in Student, n \in Nat : Holds(s, n) => n = 0
    BY DEF Init, Holds
  <2> QED BY <2>1, <2>2 DEF Init, IndexInv
<1> QED BY <1>1, IdleStep, IndexStep, Typing, PTL DEF Spec

\* An index reaches one student only.
THEOREM IndexSafety == Spec => []IndexHasOneHolder
<1>1. IndexInv /\ TypeOK => IndexHasOneHolder
  BY DEF IndexInv, IndexHasOneHolder, TypeOK
<1> QED BY <1>1, IndexInvHolds, Typing, PTL

\* No place lies beyond the counter.
THEOREM CountSafety == Spec => []IndexWithinCount
<1>1. IndexInv /\ TypeOK => IndexWithinCount
  BY DEF IndexInv, IndexWithinCount, Holds, TypeOK
<1> QED BY <1>1, IndexInvHolds, Typing, PTL

-----------------------------------------------------------------------------
(***************************************************************************)
(* Stored bills.  Only StorageData writes rows, and it is refused when the *)
(* student has one; what it writes is never empty, so a stored student has *)
(* a row and the refusal lasts.                                            *)
(***************************************************************************)
FetchedInv ==
    \A t \in Task : tpc[t] \in {"incr", "rank", "store"} => tgot[t]["pay"] # "none"

StoredInv == \A s \in stored : ~RowsFree(s)

LEMMA FetchedStep == TypeOK /\ FetchedInv /\ [Next]_vars => FetchedInv'
<1> SUFFICES ASSUME TypeOK, FetchedInv, [Next]_vars PROVE FetchedInv'
  OBVIOUS
<1>t. tpc \in [Task -> TaskPC] /\ tgot \in [Task -> [Kind -> Content]]
  BY DEF TypeOK
<1>1. ASSUME NEW t \in Task, NEW p, TaskGoto(t, p),
             p \in {"incr", "rank", "store"} => tpc[t] \in {"incr", "rank", "store"}
      PROVE  FetchedInv'
  BY <1>t, <1>1 DEF FetchedInv, TaskGoto
<1>2. ASSUME NEW t \in Task, TaskEnds(t) PROVE FetchedInv'
  BY <1>t, <1>2 DEF FetchedInv, TaskEnds
<1>3. ASSUME UNCHANGED <<tpc, tgot>> PROVE FetchedInv'
  BY <1>3 DEF FetchedInv
<1>4. ASSUME NEW t \in Task, Deliver(t) PROVE FetchedInv'
  BY <1>t, <1>4 DEF FetchedInv, Deliver
<1>5. ASSUME NEW t \in Task, NEW k \in Kind, Fetch(t, k) PROVE FetchedInv'
  <2>1. /\ tpc[t] = "fetch"
        /\ tpc' = [tpc EXCEPT ![t] = IF tgot'[t]["pay"] # "none" /\ tgot'[t]["learn"] # "none"
                                     THEN "incr" ELSE "fetch"]
    BY <1>5 DEF Fetch
  <2>2. \A u \in Task \ {t} : tgot'[u] = tgot[u]
    BY <1>t, <1>5 DEF Fetch
  <2> QED BY <1>t, <2>1, <2>2 DEF FetchedInv
<1>6. ASSUME NEW t \in Task, IncrValue(t) PROVE FetchedInv'
  <2>1. CASE TaskEnds(t)
    BY <1>2, <2>1
  <2>2. CASE ~TaskEnds(t)
    BY <1>t, <1>6, <2>2 DEF FetchedInv, IncrValue
  <2> QED BY <2>1, <2>2
<1>7. ASSUME NEW t \in Task, \/ Ack(t) \/ CheckRank(t) \/ SaveRank(t) \/ StorageData(t)
                             \/ \E k \in Kind : SaveData(t, k)
      PROVE  FetchedInv'
  BY <1>1, <1>2, <1>7
     DEF Ack, CheckRank, SaveRank, StorageData, StorageFailed, SaveData
<1>8. ASSUME \E c \in Client :
                \/ \E s \in Student, op \in Ops : Request(c, s, op)
                \/ InfoCheck(c) \/ FindUser(c) \/ CreateUser(c) \/ Producer(c)
                \/ RefreshRank(c) \/ CheckState(c) \/ GiveUp(c) \/ GetRankCache(c)
                \/ GetRankRow(c) \/ GetRankSave(c) \/ GetDataCache(c) \/ GetDataRow(c)
                \/ GetDataSave(c) \/ Appraise(c) \/ DelRank(c)
      PROVE  FetchedInv'
  BY <1>3, <1>8
     DEF Request, InfoCheck, FindUser, CreateUser, Producer, RefreshRank, CheckState,
         GiveUp, GetRankCache, GetRankRow, GetRankSave, GetDataCache, GetDataRow,
         GetDataSave, Appraise, DelRank, taskVars
<1>9. ASSUME Expire \/ Break PROVE FetchedInv'
  BY <1>3, <1>9 DEF Expire, Break, taskVars
<1>10. ASSUME Crash PROVE FetchedInv'
  BY <1>10 DEF Crash, FetchedInv
<1>11. CASE UNCHANGED vars
  BY <1>3, <1>11 DEF vars, taskVars
<1> QED
  <2>1. CASE Next
    BY <2>1, NextIsStep, <1>4, <1>5, <1>6, <1>7, <1>8, <1>9, <1>10 DEF Step
  <2> QED BY <2>1, <1>11

\* Only a task at "store" whose student has no row writes the stored bills.
LEMMA StoreWrites ==
  ASSUME [Next]_vars
  PROVE  \/ UNCHANGED <<stored, rank, row>>
         \/ \E t \in Task : /\ tpc[t] = "store" /\ RowsFree(tstu[t])
                            /\ row' = [row EXCEPT ![tstu[t]] = tgot[t]]
                            /\ stored' = stored \cup {tstu[t]}
                            /\ rank' = [rank EXCEPT ![tstu[t]] = tidx[t]]
<1>1. ASSUME NEW t \in Task, \/ Deliver(t) \/ Ack(t) \/ CheckRank(t) \/ IncrValue(t)
                             \/ SaveRank(t) \/ \E k \in Kind : Fetch(t, k) \/ SaveData(t, k)
      PROVE  UNCHANGED <<stored, rank, row>>
  BY <1>1 DEF Deliver, Ack, CheckRank, IncrValue, SaveRank, Fetch, SaveData, database
<1>2. ASSUME NEW c \in Client,
             \/ \E s \in Student, op \in Ops : Request(c, s, op)
             \/ InfoCheck(c) \/ FindUser(c) \/ CreateUser(c) \/ Producer(c)
             \/ RefreshRank(c) \/ CheckState(c) \/ GiveUp(c) \/ GetRankCache(c)
             \/ GetRankRow(c) \/ GetRankSave(c) \/ GetDataCache(c) \/ GetDataRow(c)
             \/ GetDataSave(c) \/ Appraise(c) \/ DelRank(c)
      PROVE  UNCHANGED <<stored, rank, row>>
  BY <1>2
     DEF Request, InfoCheck, FindUser, CreateUser, Producer, RefreshRank, CheckState,
         GiveUp, GetRankCache, GetRankRow, GetRankSave, GetDataCache, GetDataRow,
         GetDataSave, Appraise, DelRank, database
<1>3. ASSUME Expire \/ Break \/ Crash \/ UNCHANGED vars PROVE UNCHANGED <<stored, rank, row>>
  BY <1>3 DEF Expire, Break, Crash, vars, database
<1>4. ASSUME NEW t \in Task, StorageData(t), ~UNCHANGED <<stored, rank, row>>
      PROVE  /\ tpc[t] = "store" /\ RowsFree(tstu[t])
             /\ row' = [row EXCEPT ![tstu[t]] = tgot[t]]
             /\ stored' = stored \cup {tstu[t]}
             /\ rank' = [rank EXCEPT ![tstu[t]] = tidx[t]]
  BY <1>4 DEF StorageData
<1> QED BY NextIsStep, <1>1, <1>2, <1>3, <1>4 DEF Step

LEMMA StoredStep == TypeOK /\ FetchedInv /\ StoredInv /\ [Next]_vars => StoredInv'
<1> SUFFICES ASSUME TypeOK, FetchedInv, StoredInv, [Next]_vars PROVE StoredInv'
  OBVIOUS
<1>1. CASE UNCHANGED <<stored, rank, row>>
  BY <1>1 DEF StoredInv, RowsFree
<1>2. ASSUME NEW t \in Task, tpc[t] = "store", row' = [row EXCEPT ![tstu[t]] = tgot[t]],
             stored' = stored \cup {tstu[t]}
      PROVE  StoredInv'
  <2>1. tgot[t]["pay"] # "none"
    BY <1>2 DEF FetchedInv
  <2>2. row \in [Student -> [Kind -> Content]] /\ tstu[t] \in Student /\ stored \subseteq Student
    BY DEF TypeOK
  <2> SUFFICES ASSUME NEW s \in stored' PROVE ~RowsFree(s)'
    BY DEF StoredInv
  <2>3. CASE s = tstu[t]
    BY <1>2, <2>1, <2>2, <2>3 DEF RowsFree
  <2>4. CASE s # tstu[t]
    BY <1>2, <2>2, <2>4 DEF RowsFree, StoredInv
  <2> QED BY <2>3, <2>4
<1> QED BY <1>1, <1>2, StoreWrites

\* What a task has fetched is not empty, and a stored student has a row.
THEOREM StoredInvHolds == Spec => [](FetchedInv /\ StoredInv)
<1>1. Init => FetchedInv /\ StoredInv
  BY DEF Init, FetchedInv, StoredInv
<1> QED BY <1>1, FetchedStep, StoredStep, Typing, PTL DEF Spec

\* A stored bill is never replaced: a task of StorageData that comes second, by a
\* second delivery or a second session, is refused by the unique index.
THEOREM StoredForGood == Spec => StoredOnce
<1>1. TypeOK /\ StoredInv /\ [Next]_vars
        => [\A s \in stored : s \in stored' /\ rank'[s] = rank[s] /\ row'[s] = row[s]]_vars
  <2> SUFFICES ASSUME TypeOK, StoredInv, [Next]_vars, NEW s \in stored
               PROVE  s \in stored' /\ rank'[s] = rank[s] /\ row'[s] = row[s]
    OBVIOUS
  <2>1. CASE UNCHANGED <<stored, rank, row>>
    BY <2>1
  <2>2. ASSUME NEW t \in Task, RowsFree(tstu[t]), row' = [row EXCEPT ![tstu[t]] = tgot[t]],
               stored' = stored \cup {tstu[t]}, rank' = [rank EXCEPT ![tstu[t]] = tidx[t]]
        PROVE  s \in stored' /\ rank'[s] = rank[s] /\ row'[s] = row[s]
    BY <2>2 DEF StoredInv, TypeOK
  <2> QED BY <2>1, <2>2, StoreWrites
<1> QED BY <1>1, StoredInvHolds, Typing, PTL DEF Spec, StoredOnce

-----------------------------------------------------------------------------
(***************************************************************************)
(* The cached data.  A task at "pay" or "learn" holds what its own commit  *)
(* wrote, a request at "dataSave" what it read from the table, and a row   *)
(* that is written once stays; so whatever is cached is in the table.      *)
(***************************************************************************)
TaskAgrees(t) ==
    tpc[t] \in {"pay", "learn"} => row[tstu[t]] = tgot[t] /\ tgot[t]["pay"] # "none"

ClientAgrees(c) ==
    pc[c] = "dataSave" => sdata[c] = row[stu[c]][kind[c]] /\ sdata[c] # "none"

AgreeInv ==
    /\ CacheAgrees
    /\ \A t \in Task : TaskAgrees(t)
    /\ \A c \in Client : ClientAgrees(c)

\* A row that holds anything is never written again.
LEMMA RowStays ==
  ASSUME TypeOK, [Next]_vars, NEW s \in Student, ~RowsFree(s) PROVE row'[s] = row[s]
<1>1. row \in [Student -> [Kind -> Content]]
  BY DEF TypeOK
<1> QED BY <1>1, StoreWrites

\* What agrees with the table goes on agreeing while its holder does not move.
LEMMA StillAgrees ==
  ASSUME TypeOK, [Next]_vars
  PROVE  /\ \A s \in Student, k \in Kind :
               cdata[s][k] = row[s][k] /\ row[s][k] # "none" => row'[s][k] = cdata[s][k]
         /\ \A t \in Task : /\ TaskAgrees(t)
                            /\ tpc'[t] \in {"pay", "learn"} => tpc[t] \in {"pay", "learn"}
                            /\ tstu'[t] = tstu[t] /\ tgot'[t] = tgot[t]
                            => TaskAgrees(t)'
         /\ \A c \in Client : /\ ClientAgrees(c)
                              /\ pc'[c] = "dataSave" => pc[c] = "dataSave"
                              /\ stu'[c] = stu[c] /\ kind'[c] = kind[c] /\ sdata'[c] = sdata[c]
                              => ClientAgrees(c)'
<1>1. \A s \in Student, k \in Kind : row[s][k] # "none" => row'[s] = row[s]
  BY RowStays DEF RowsFree
<1>2. ASSUME NEW t \in Task, TaskAgrees(t),
             tpc'[t] \in {"pay", "learn"} => tpc[t] \in {"pay", "learn"},
             tstu'[t] = tstu[t], tgot'[t] = tgot[t]
      PROVE  TaskAgrees(t)'
  <2>1. tstu[t] \in Student
    BY DEF TypeOK
  <2> QED BY <1>1, <1>2, <2>1 DEF TaskAgrees
<1>3. ASSUME NEW c \in Client, ClientAgrees(c), pc'[c] = "dataSave" => pc[c] = "dataSave",
             stu'[c] = stu[c], kind'[c] = kind[c], sdata'[c] = sdata[c]
      PROVE  ClientAgrees(c)'
  <2>1. stu[c] \in Student /\ kind[c] \in Kind
    BY DEF TypeOK
  <2> QED BY <1>1, <1>3, <2>1 DEF ClientAgrees
<1> QED BY <1>1, <1>2, <1>3

\* CacheData replaces one entry.
LEMMA CachedData ==
  ASSUME cdata \in [Student -> [Kind -> Content]], NEW s \in Student, NEW k \in Kind, NEW data,
         CacheData(s, k, data), NEW r \in Student, NEW j \in Kind
  PROVE  cdata'[r][j] = IF r = s /\ j = k THEN data ELSE cdata[r][j]
<1>1. cdata[r] \in [Kind -> Content]
  OBVIOUS
<1> HIDE DEF Kind, Content
<1>2. CASE r = s
  <2>1. cdata'[r] = [cdata[r] EXCEPT ![k] = data]
    BY <1>2 DEF CacheData
  <2> QED BY <1>1, <1>2, <2>1
<1>3. CASE r # s
  BY <1>3 DEF CacheData
<1> QED BY <1>2, <1>3

\* AgreeInv is inductive as long as no commit fails.
LEMMA AgreeStep ==
  ASSUME "commit" \notin Faults
  PROVE  TypeOK /\ FetchedInv /\ AgreeInv /\ [Next]_vars => AgreeInv'
<1> SUFFICES ASSUME TypeOK, FetchedInv, AgreeInv, [Next]_vars PROVE AgreeInv'
  OBVIOUS
<1>t. /\ tpc \in [Task -> TaskPC] /\ tstu \in [Task -> Student]
      /\ tgot \in [Task -> [Kind -> Content]] /\ row \in [Student -> [Kind -> Content]]
      /\ pc \in [Client -> ClientPC] /\ stu \in [Client -> Student]
      /\ kind \in [Client -> Kind] /\ sdata \in [Client -> Content]
      /\ cdata \in [Student -> [Kind -> Content]]
  BY DEF TypeOK
<1>c. ASSUME UNCHANGED cdata PROVE CacheAgrees'
  BY <1>c, <1>t, StillAgrees DEF AgreeInv, CacheAgrees
<1>a. ASSUME UNCHANGED taskVars PROVE \A t \in Task : TaskAgrees(t)'
  BY <1>a, StillAgrees DEF AgreeInv, taskVars
<1>b. ASSUME UNCHANGED clientVars PROVE \A c \in Client : ClientAgrees(c)'
  BY <1>b, StillAgrees DEF AgreeInv, clientVars
<1>g. ASSUME NEW t \in Task, NEW p, TaskGoto(t, p),
             p \in {"pay", "learn"} => tpc[t] \in {"pay", "learn"}
      PROVE  \A u \in Task : TaskAgrees(u)'
  BY <1>g, <1>t, StillAgrees DEF AgreeInv, TaskGoto
<1>e. ASSUME NEW t \in Task, TaskEnds(t) PROVE \A u \in Task : TaskAgrees(u)'
  <2> SUFFICES ASSUME NEW u \in Task PROVE TaskAgrees(u)'
    OBVIOUS
  <2>1. CASE u = t
    BY <1>e, <1>t, <2>1 DEF TaskEnds, TaskAgrees
  <2>2. CASE u # t
    BY <1>e, <1>t, <2>2, StillAgrees DEF AgreeInv, TaskEnds
  <2> QED BY <2>1, <2>2
<1>h. ASSUME NEW c \in Client, NEW p, Goto(c, p) \/ Answer(c), p # "dataSave"
      PROVE  \A d \in Client : ClientAgrees(d)'
  <2> SUFFICES ASSUME NEW d \in Client PROVE ClientAgrees(d)'
    OBVIOUS
  <2>1. CASE d = c
    BY <1>h, <1>t, <2>1 DEF Goto, Answer, ClientAgrees
  <2>2. CASE d # c
    BY <1>h, <1>t, <2>2, StillAgrees DEF AgreeInv, Goto, Answer
  <2> QED BY <2>1, <2>2
<1>1. ASSUME NEW t \in Task, Deliver(t) \/ (\E k \in Kind : Fetch(t, k)) \/ IncrValue(t)
      PROVE  AgreeInv'
  <2>1. UNCHANGED <<cdata, clientVars>>
    BY <1>1 DEF Deliver, Fetch, IncrValue, cache
  <2>2. /\ tpc'[t] \notin {"pay", "learn"}
        /\ \A u \in Task \ {t} : tpc'[u] = tpc[u] /\ tstu'[u] = tstu[u] /\ tgot'[u] = tgot[u]
    <3>1. CASE Deliver(t)
      BY <3>1, <1>t DEF Deliver
    <3>2. ASSUME NEW k \in Kind, Fetch(t, k)
          PROVE  /\ tpc'[t] \notin {"pay", "learn"}
                 /\ \A u \in Task \ {t} :
                       tpc'[u] = tpc[u] /\ tstu'[u] = tstu[u] /\ tgot'[u] = tgot[u]
      <4>1. \A u \in Task \ {t} : tgot'[u] = tgot[u]
        BY <1>t, <3>2 DEF Fetch
      <4>2. tstu' = tstu /\ \E p \in {"incr", "fetch"} : tpc' = [tpc EXCEPT ![t] = p]
        BY <3>2 DEF Fetch
      <4> QED BY <1>t, <4>1, <4>2
    <3>3. CASE IncrValue(t)
      BY <3>3, <1>t DEF IncrValue, TaskEnds
    <3> QED BY <1>1, <3>1, <3>2, <3>3
  <2>3. ASSUME NEW u \in Task PROVE TaskAgrees(u)'
    <3>1. CASE u = t
      BY <2>2, <3>1 DEF TaskAgrees
    <3>2. CASE u # t
      BY <2>2, <3>2, StillAgrees DEF AgreeInv
    <3> QED BY <3>1, <3>2
  <2> QED BY <1>c, <1>b, <2>1, <2>3 DEF AgreeInv
<1>2. ASSUME NEW t \in Task, Ack(t) \/ CheckRank(t) \/ SaveRank(t) PROVE AgreeInv'
  <2>1. UNCHANGED <<cdata, clientVars>>
    BY <1>2 DEF Ack, CheckRank, SaveRank, cache
  <2>2. TaskEnds(t) \/ TaskGoto(t, "check") \/ TaskGoto(t, "fetch") \/ TaskGoto(t, "store")
    BY <1>2 DEF Ack, CheckRank, SaveRank
  <2> QED BY <1>c, <1>b, <1>e, <1>g, <2>1, <2>2 DEF AgreeInv
<1>3. ASSUME NEW t \in Task, StorageData(t) PROVE AgreeInv'
  <2>1. UNCHANGED <<cdata, clientVars>>
    BY <1>3 DEF StorageData, cache
  <2>2. CASE TaskEnds(t)
    BY <1>c, <1>b, <1>e, <2>1, <2>2 DEF AgreeInv
  <2>3. CASE ~TaskEnds(t)
    <3>1. tpc[t] = "store" /\ row' = [row EXCEPT ![tstu[t]] = tgot[t]] /\ TaskGoto(t, "pay")
      BY <1>3, <2>3 DEF StorageData, StorageFailed, May
    <3>2. ASSUME NEW u \in Task PROVE TaskAgrees(u)'
      <4>1. CASE u = t
        BY <1>t, <3>1, <4>1 DEF TaskAgrees, TaskGoto, FetchedInv
      <4>2. CASE u # t
        BY <1>t, <3>1, <4>2, StillAgrees DEF AgreeInv, TaskGoto
      <4> QED BY <4>1, <4>2
    <3> QED BY <1>c, <1>b, <2>1, <3>2 DEF AgreeInv
  <2> QED BY <2>2, <2>3
<1>4. ASSUME NEW t \in Task, NEW k \in Kind, SaveData(t, k) PROVE AgreeInv'
  <2>1. UNCHANGED <<row, clientVars>> /\ tpc[t] = k
    BY <1>4 DEF SaveData, database
  <2>2. row[tstu[t]] = tgot[t]
    BY <2>1 DEF AgreeInv, TaskAgrees
  <2>3. CacheAgrees'
    <3>1. cdata' = cdata \/ CacheData(tstu[t], k, tgot[t][k])
      BY <1>4 DEF SaveData
    <3>2. tstu[t] \in Student
      BY <1>t
    <3> HIDE DEF Kind, Content
    <3>3. ASSUME NEW s \in Student, NEW j \in Kind
          PROVE  cdata'[s][j] = cdata[s][j] \/ cdata'[s][j] = row[s][j]
      BY <1>t, <2>2, <3>1, <3>2, CachedData
    <3> QED BY <2>1, <3>3 DEF AgreeInv, CacheAgrees
  <2>4. TaskEnds(t) \/ TaskGoto(t, "learn")
    BY <1>4 DEF SaveData
  <2> QED BY <1>b, <1>e, <1>g, <2>1, <2>3, <2>4 DEF AgreeInv
<1>5. ASSUME NEW c \in Client, NEW s \in Student, NEW op \in Ops, Request(c, s, op)
      PROVE  AgreeInv'
  <2>1. FirstStep[op] # "dataSave"
    BY OpsAssumption DEF FirstStep, Op
  <2>2. UNCHANGED <<cdata, taskVars>>
    BY <1>5 DEF Request, cache
  <2>3. ASSUME NEW d \in Client PROVE ClientAgrees(d)'
    <3>1. CASE d = c
      BY <1>5, <1>t, <2>1, <3>1 DEF Request, ClientAgrees
    <3>2. CASE d # c
      BY <1>5, <1>t, <3>2, StillAgrees DEF AgreeInv, Request
    <3> QED BY <3>1, <3>2
  <2> QED BY <1>c, <1>a, <2>2, <2>3 DEF AgreeInv
<1>6. ASSUME NEW c \in Client,
             \/ InfoCheck(c) \/ CheckState(c) \/ GiveUp(c) \/ GetRankCache(c)
             \/ GetDataCache(c) \/ CreateUser(c) \/ Producer(c)
             \/ Appraise(c) \/ RefreshRank(c) \/ GetRankSave(c) \/ DelRank(c)
      PROVE  AgreeInv'
  <2>1. UNCHANGED <<cdata, taskVars>>
    BY <1>6 DEF InfoCheck, CheckState, GiveUp, GetRankCache, GetDataCache, CreateUser, Producer,
       Appraise, RefreshRank, GetRankSave, DelRank, cache
  <2>2. \E p \in {"find", "publish", "poll", "rankRow", "dataRow", "forget"} :
           Goto(c, p) \/ Answer(c)
    BY <1>6 DEF InfoCheck, CheckState, GiveUp, GetRankCache, GetDataCache, CreateUser, Producer,
       Appraise, RefreshRank, GetRankSave, DelRank
  <2> QED BY <1>c, <1>a, <1>h, <2>1, <2>2 DEF AgreeInv
<1>7. ASSUME NEW c \in Client, FindUser(c) \/ GetRankRow(c) \/ GetDataRow(c) PROVE AgreeInv'
  <2>1. UNCHANGED <<cdata, row, taskVars>>
    BY <1>7 DEF FindUser, GetRankRow, GetDataRow, cache, database
  <2>2. CASE \E p \in {"create", "publish"} : Goto(c, p) \/ Answer(c)
    BY <1>c, <1>a, <1>h, <2>1, <2>2 DEF AgreeInv
  <2>3. CASE ~(\E p \in {"create", "publish"} : Goto(c, p) \/ Answer(c))
    <3>1. /\ UNCHANGED <<stu, kind>>
          /\ \/ sdata' = sdata /\ \E p \in {"refresh", "rankSave"} : pc' = [pc EXCEPT ![c] = p]
             \/ /\ sdata' = [sdata EXCEPT ![c] = row[stu[c]][kind[c]]]
                /\ pc' = [pc EXCEPT ![c] = "dataSave"] /\ row[stu[c]][kind[c]] # "none"
      BY <1>7, <2>3 DEF FindUser, GetRankRow, GetDataRow
    <3>2. ASSUME NEW d \in Client PROVE ClientAgrees(d)'
      <4>1. CASE d = c
        BY <1>t, <2>1, <3>1, <4>1 DEF ClientAgrees
      <4>2. CASE d # c
        BY <1>t, <3>1, <4>2, StillAgrees DEF AgreeInv
      <4> QED BY <4>1, <4>2
    <3> QED BY <1>c, <1>a, <2>1, <3>2 DEF AgreeInv
  <2> QED BY <2>2, <2>3
<1>8. ASSUME NEW c \in Client, GetDataSave(c) PROVE AgreeInv'
  <2>1. UNCHANGED <<row, taskVars>> /\ sdata[c] = row[stu[c]][kind[c]] /\ Answer(c)
    BY <1>8 DEF GetDataSave, database, AgreeInv, ClientAgrees
  <2>2. CacheAgrees'
    <3>1. cdata' = cdata \/ CacheData(stu[c], kind[c], sdata[c])
      BY <1>8 DEF GetDataSave
    <3>2. stu[c] \in Student /\ kind[c] \in Kind
      BY <1>t
    <3> HIDE DEF Kind, Content
    <3>3. ASSUME NEW s \in Student, NEW j \in Kind
          PROVE  cdata'[s][j] = cdata[s][j] \/ cdata'[s][j] = row[s][j]
      BY <1>t, <2>1, <3>1, <3>2, CachedData
    <3> QED BY <2>1, <3>3 DEF AgreeInv, CacheAgrees
  <2>3. \A d \in Client : ClientAgrees(d)'
    BY <1>h, <2>1
  <2> QED BY <1>a, <2>1, <2>2, <2>3 DEF AgreeInv
<1>9. ASSUME Expire \/ Break \/ UNCHANGED vars PROVE AgreeInv'
  BY <1>9, <1>a, <1>b, <1>c DEF Expire, Break, vars, cache, AgreeInv
<1>10. ASSUME Crash PROVE AgreeInv'
  <2>1. UNCHANGED cdata
    BY <1>10 DEF Crash, cache
  <2>2. ASSUME NEW t \in Task PROVE TaskAgrees(t)'
    BY <1>10 DEF Crash, TaskAgrees
  <2>3. ASSUME NEW c \in Client PROVE ClientAgrees(c)'
    BY <1>10 DEF Crash, ClientAgrees
  <2> QED BY <1>c, <2>1, <2>2, <2>3 DEF AgreeInv
<1> QED
  <2>1. CASE Next
    <3>1. Step
      BY <2>1, NextIsStep
    <3> QED BY <3>1, <1>1, <1>2, <1>3, <1>4, <1>5, <1>6, <1>7, <1>8, <1>9, <1>10 DEF Step
  <2> QED BY <2>1, <1>9

\* What the cache answers of a student's data is what the tables hold, whatever other
\* faults, crashes and doubled tasks there are, as long as no commit of StorageData fails
\* without being noticed.
THEOREM CacheSafety ==
  ASSUME "commit" \notin Faults PROVE Spec => []CacheAgrees
<1>1. Init => AgreeInv
  BY DEF Init, AgreeInv, CacheAgrees, TaskAgrees, ClientAgrees
<1>2. TypeOK /\ FetchedInv /\ AgreeInv /\ [Next]_vars => AgreeInv'
  BY AgreeStep
<1>3. AgreeInv => CacheAgrees
  BY DEF AgreeInv
<1> QED BY <1>1, <1>2, <1>3, StoredInvHolds, Typing, PTL DEF Spec

-----------------------------------------------------------------------------
(***************************************************************************)
(* Ranked students and published tasks, when the stores work and nothing   *)
(* breaks.  A rank is cached by a task that goes on to store its data, or  *)
(* from the row of a student whose data is stored.                         *)
(***************************************************************************)
StoresWork == Faults \cap {"redis", "db", "commit"} = {} /\ MaxBreak = 0

CoveredInv ==
    /\ RankedIsCovered
    /\ \A s \in Student : rank[s] # 0 \/ ~RowsFree(s) => s \in stored
    /\ \A t \in Task : tpc[t] \in {"pay", "learn"} => tstu[t] \in stored
    /\ \A c \in Client : srank[c] # 0 => stu[c] \in stored

\* The tasks and requests that CoveredInv speaks of, while they do not move.
LEMMA StillCovered ==
  ASSUME TypeOK, CoveredInv, [Next]_vars
  PROVE  /\ stored \subseteq stored'
         /\ \A t \in Task : /\ tpc'[t] \in {"pay", "learn"} => tpc[t] \in {"pay", "learn"}
                            /\ tstu'[t] = tstu[t]
                            => (tpc'[t] \in {"pay", "learn"} => tstu'[t] \in stored')
         /\ \A s \in Student : rank'[s] # 0 \/ ~RowsFree(s)' => s \in stored'
<1>1. stored \subseteq stored'
  BY StoreWrites
<1>2. ASSUME NEW s \in Student, rank'[s] # 0 \/ ~RowsFree(s)' PROVE s \in stored'
  <2>1. rank \in [Student -> Nat] /\ row \in [Student -> [Kind -> Content]]
    BY DEF TypeOK
  <2>2. CASE rank'[s] = rank[s] /\ row'[s] = row[s]
    BY <1>1, <1>2, <2>2 DEF CoveredInv, RowsFree
  <2>3. CASE ~(rank'[s] = rank[s] /\ row'[s] = row[s])
    BY <2>1, <2>3, StoreWrites
  <2> QED BY <2>2, <2>3
<1> QED BY <1>1, <1>2 DEF CoveredInv

\* CoveredInv is inductive when the stores work and nothing breaks.
LEMMA CoveredStep ==
  ASSUME StoresWork PROVE TypeOK /\ IdleInv /\ CoveredInv /\ [Next]_vars => CoveredInv'
<1> SUFFICES ASSUME TypeOK, IdleInv, CoveredInv, [Next]_vars PROVE CoveredInv'
  OBVIOUS
<1>f. ~May("redis") /\ ~May("db") /\ ~May("commit") /\ ~(breaks < MaxBreak)
  BY DEF StoresWork, May, TypeOK
<1>t. /\ tpc \in [Task -> TaskPC] /\ tstu \in [Task -> Student]
      /\ srank \in [Client -> Nat] /\ stu \in [Client -> Student]
      /\ cid \in [Student -> Nat]
  BY DEF TypeOK
<1>s. /\ stored \subseteq stored'
      /\ \A s \in Student : rank'[s] # 0 \/ ~RowsFree(s)' => s \in stored'
  BY StillCovered
\* Three things are left to show of a step: ranks, tasks and requests stay covered.
<1>q. ASSUME RankedIsCovered',
             \A t \in Task : tpc'[t] \in {"pay", "learn"} => tstu'[t] \in stored',
             \A c \in Client : srank'[c] # 0 => stu'[c] \in stored'
      PROVE  CoveredInv'
  BY <1>q, <1>s DEF CoveredInv
<1>r. ASSUME UNCHANGED cid,
             \A t \in Task : tpc[t] = "store" /\ tstu[t] \notin stored'
                                => tpc'[t] = "store" /\ tstu'[t] = tstu[t]
      PROVE  RankedIsCovered'
  BY <1>r, <1>s DEF CoveredInv, RankedIsCovered
<1>a. ASSUME UNCHANGED taskVars
      PROVE  /\ \A t \in Task : tpc'[t] \in {"pay", "learn"} => tstu'[t] \in stored'
             /\ UNCHANGED cid => RankedIsCovered'
  BY <1>a, <1>r, <1>s DEF CoveredInv, taskVars
<1>b. ASSUME UNCHANGED clientVars PROVE \A c \in Client : srank'[c] # 0 => stu'[c] \in stored'
  BY <1>b, <1>s DEF CoveredInv, clientVars
<1>h. ASSUME NEW c \in Client, NEW p, Goto(c, p) \/ Answer(c)
      PROVE  \A d \in Client : srank'[d] # 0 => stu'[d] \in stored'
  BY <1>h, <1>s, <1>t DEF CoveredInv, Goto, Answer
<1>k. ASSUME NEW s \in Student, NEW id, NEW app, CacheRank(s, id, app), UNCHANGED taskVars,
             id # 0 => s \in stored
      PROVE  RankedIsCovered'
  <2>1. \A r \in Student : cid'[r] = IF r = s THEN id ELSE cid[r]
    BY <1>k, <1>t DEF CacheRank
  <2> QED BY <1>k, <1>s, <2>1 DEF CoveredInv, RankedIsCovered, taskVars
<1>1. ASSUME NEW t \in Task, \/ Deliver(t) \/ Ack(t) \/ CheckRank(t) \/ IncrValue(t)
                             \/ \E k \in Kind : Fetch(t, k)
      PROVE  CoveredInv'
  <2>1. /\ UNCHANGED <<cid, clientVars>> /\ tpc[t] # "store"
        /\ tpc'[t] \notin {"pay", "learn", "store"}
        /\ \A u \in Task \ {t} : tpc'[u] = tpc[u] /\ tstu'[u] = tstu[u]
    <3>1. CASE Deliver(t)
      BY <3>1, <1>t DEF Deliver, cache
    <3>2. CASE Ack(t) \/ CheckRank(t)
      BY <3>2, <1>t DEF Ack, CheckRank, TaskGoto, TaskEnds, cache
    <3>3. CASE IncrValue(t)
      BY <3>3, <1>t DEF IncrValue, TaskEnds
    <3>4. ASSUME NEW k \in Kind, Fetch(t, k)
          PROVE  /\ UNCHANGED <<cid, clientVars, tstu>> /\ tpc[t] = "fetch"
                 /\ \E p \in {"incr", "fetch"} : tpc' = [tpc EXCEPT ![t] = p]
      BY <3>4 DEF Fetch, cache
    <3> QED BY <1>1, <1>t, <3>1, <3>2, <3>3, <3>4
  <2>2. \A u \in Task : tpc'[u] \in {"pay", "learn"} => tstu'[u] \in stored'
    BY <1>s, <2>1 DEF CoveredInv
  <2> QED BY <1>b, <1>q, <1>r, <2>1, <2>2
<1>2. ASSUME NEW t \in Task, SaveRank(t) PROVE CoveredInv'
  <2>1. /\ CacheRank(tstu[t], tidx[t], 0) /\ TaskGoto(t, "store") /\ tpc[t] = "rank"
        /\ UNCHANGED clientVars
    BY <1>2, <1>f DEF SaveRank
  <2>2. RankedIsCovered'
    <3> SUFFICES ASSUME NEW s \in Student, cid'[s] # 0
                 PROVE  s \in stored' \/ \E u \in Task : tstu'[u] = s /\ tpc'[u] = "store"
      BY DEF RankedIsCovered
    <3>1. CASE s = tstu[t]
      BY <1>t, <2>1, <3>1 DEF TaskGoto
    <3>2. CASE s # tstu[t]
      <4>1. cid[s] # 0
        BY <1>t, <2>1, <3>2 DEF CacheRank
      <4> QED BY <1>s, <1>t, <2>1, <4>1 DEF CoveredInv, RankedIsCovered, TaskGoto
    <3> QED BY <3>1, <3>2
  <2>3. \A u \in Task : tpc'[u] \in {"pay", "learn"} => tstu'[u] \in stored'
    BY <1>s, <1>t, <2>1 DEF CoveredInv, TaskGoto
  <2> QED BY <1>b, <1>q, <2>1, <2>2, <2>3
<1>3. ASSUME NEW t \in Task, StorageData(t) PROVE CoveredInv'
  <2>1. UNCHANGED <<cid, clientVars>> /\ (TaskGoto(t, "pay") \/ TaskEnds(t))
    BY <1>3 DEF StorageData, StorageFailed, cache
  <2>2. tstu[t] \in stored'
    <3>1. tstu[t] \in stored' \/ ~RowsFree(tstu[t])
      BY <1>3, <1>f DEF StorageData
    <3> QED BY <1>s, <1>t, <3>1 DEF CoveredInv
  <2>3. RankedIsCovered'
    BY <1>r, <1>t, <2>1, <2>2 DEF TaskGoto, TaskEnds
  <2>4. \A u \in Task : tpc'[u] \in {"pay", "learn"} => tstu'[u] \in stored'
    BY <1>s, <1>t, <2>1, <2>2 DEF CoveredInv, TaskGoto, TaskEnds
  <2> QED BY <1>b, <1>q, <2>1, <2>3, <2>4
<1>4. ASSUME NEW t \in Task, NEW k \in Kind, SaveData(t, k) PROVE CoveredInv'
  <2>1. /\ UNCHANGED <<cid, clientVars>> /\ tpc[t] \in {"pay", "learn"}
        /\ TaskGoto(t, "learn") \/ TaskEnds(t)
    BY <1>4 DEF SaveData
  <2>2. RankedIsCovered'
    BY <1>r, <1>t, <2>1 DEF TaskGoto, TaskEnds
  <2>3. \A u \in Task : tpc'[u] \in {"pay", "learn"} => tstu'[u] \in stored'
    BY <1>s, <1>t, <2>1 DEF CoveredInv, TaskGoto, TaskEnds
  <2> QED BY <1>b, <1>q, <2>1, <2>2, <2>3
<1>5. ASSUME NEW c \in Client, NEW s \in Student, NEW op \in Ops, Request(c, s, op)
      PROVE  CoveredInv'
  <2>1. UNCHANGED <<cid, taskVars, srank>> /\ srank[c] = 0 /\ stu' = [stu EXCEPT ![c] = s]
    BY <1>5 DEF Request, cache, IdleInv
  <2>2. \A d \in Client : srank'[d] # 0 => stu'[d] \in stored'
    BY <1>s, <1>t, <2>1 DEF CoveredInv
  <2> QED BY <1>a, <1>q, <2>1, <2>2
<1>6. ASSUME NEW c \in Client,
             \/ InfoCheck(c) \/ CheckState(c) \/ GiveUp(c) \/ GetRankCache(c)
             \/ GetDataCache(c) \/ CreateUser(c) \/ Producer(c) \/ GetDataSave(c)
             \/ Appraise(c)
      PROVE  CoveredInv'
  <2>1. UNCHANGED <<cid, taskVars>> /\ \E p : Goto(c, p) \/ Answer(c)
    BY <1>6 DEF InfoCheck, CheckState, GiveUp, GetRankCache, GetDataCache, CreateUser, Producer,
       GetDataSave, Appraise, cache
  <2> QED BY <1>a, <1>h, <1>q, <2>1
<1>7. ASSUME NEW c \in Client, FindUser(c) \/ GetRankRow(c) \/ GetDataRow(c) PROVE CoveredInv'
  <2>1. UNCHANGED <<cid, taskVars, stored>>
    BY <1>7 DEF FindUser, GetRankRow, GetDataRow, cache, database
  <2>2. CASE \E p \in {"create", "publish"} : Goto(c, p) \/ Answer(c)
    BY <1>a, <1>h, <1>q, <2>1, <2>2
  <2>3. CASE ~(\E p \in {"create", "publish"} : Goto(c, p) \/ Answer(c))
    <3>1. stu' = stu /\ (srank' = srank \/ srank' = [srank EXCEPT ![c] = rank[stu[c]]])
      BY <1>7, <2>3 DEF FindUser, GetRankRow, GetDataRow
    <3>2. \A d \in Client : srank'[d] # 0 => stu'[d] \in stored'
      BY <1>s, <1>t, <3>1 DEF CoveredInv
    <3> QED BY <1>a, <1>q, <2>1, <3>2
  <2> QED BY <2>2, <2>3
<1>8. ASSUME NEW c \in Client, RefreshRank(c) \/ GetRankSave(c) \/ DelRank(c) PROVE CoveredInv'
  <2>1. /\ UNCHANGED taskVars /\ \E p : Goto(c, p) \/ Answer(c)
        /\ CacheRank(stu[c], srank[c], sapp[c]) \/ CacheRank(stu[c], 0, 0)
    BY <1>8, <1>f DEF RefreshRank, GetRankSave, DelRank
  <2>2. srank[c] # 0 => stu[c] \in stored
    BY DEF CoveredInv
  <2>3. RankedIsCovered'
    BY <1>k, <1>t, <2>1, <2>2
  <2> QED BY <1>a, <1>h, <1>q, <2>1, <2>3
<1>9. ASSUME Expire \/ UNCHANGED vars PROVE CoveredInv'
  BY <1>9, <1>a, <1>b, <1>q DEF Expire, vars, cache
<1>10. ~Break /\ ~Crash
  BY <1>f DEF Break, Crash
<1> QED
  <2>1. CASE Next
    <3>1. Step
      BY <2>1, NextIsStep
    <3> QED BY <3>1, <1>1, <1>2, <1>3, <1>4, <1>5, <1>6, <1>7, <1>8, <1>9, <1>10 DEF Step
  <2> QED BY <2>1, <1>9

\* When Redis and the database work and the service does not break, a student with a
\* cached rank has data or a task about to store it: for any number of students, tasks
\* and requests, tasks lost at the broker and failed fetches included.
THEOREM CoveredSafety == ASSUME StoresWork PROVE Spec => []RankedIsCovered
<1>1. Init => CoveredInv
  BY DEF Init, CoveredInv, RankedIsCovered, RowsFree
<1>2. TypeOK /\ IdleInv /\ CoveredInv /\ [Next]_vars => CoveredInv'
  BY CoveredStep
<1>3. CoveredInv => RankedIsCovered
  BY DEF CoveredInv
<1> QED BY <1>1, <1>2, <1>3, IndexInvHolds, Typing, PTL DEF Spec

(***************************************************************************)
(* The same with a broker that neither refuses nor expires a task: the     *)
(* bill of a student who has a row is stored or on its way.                *)
(***************************************************************************)
AllWorks == StoresWork /\ Faults \cap {"mq", "expire"} = {}

OnItsWay(s) ==
    \/ s \in stored
    \/ \E i \in DOMAIN queue : queue[i] = s
    \/ \E t \in Task : tstu[t] = s /\ tpc[t] # "idle"
    \/ \E c \in Client : stu[c] = s /\ pc[c] = "publish"

PendingInv == channel = "open" /\ \A s \in made : OnItsWay(s)

\* PendingInv is inductive when everything works.
LEMMA PendingStep ==
  ASSUME AllWorks
  PROVE  TypeOK /\ CoveredInv /\ PendingInv /\ [Next]_vars => PendingInv'
<1> SUFFICES ASSUME TypeOK, CoveredInv, PendingInv, [Next]_vars PROVE PendingInv'
  OBVIOUS
<1>f. /\ ~May("redis") /\ ~May("db") /\ ~May("commit") /\ ~May("mq") /\ ~May("expire")
      /\ ~(breaks < MaxBreak)
  BY DEF AllWorks, StoresWork, May, TypeOK
<1>t. /\ tpc \in [Task -> TaskPC] /\ tstu \in [Task -> Student] /\ queue \in Seq(Student)
      /\ pc \in [Client -> ClientPC] /\ stu \in [Client -> Student] /\ made \subseteq Student
  BY DEF TypeOK
<1>s. stored \subseteq stored'
  BY StoreWrites
\* Whatever is on its way stays so when the queue, the tasks and the publishing requests
\* that carry it do.
<1>k. ASSUME UNCHANGED <<channel, made, queue>>,
             \A t \in Task : tpc[t] # "idle" =>
                \/ tpc'[t] # "idle" /\ tstu'[t] = tstu[t]
                \/ \A s \in Student : s = tstu[t] => OnItsWay(s)',
             \A c \in Client : pc[c] = "publish" => pc'[c] = "publish" /\ stu'[c] = stu[c]
      PROVE  PendingInv'
  <2> SUFFICES ASSUME NEW s \in made PROVE OnItsWay(s)'
    BY <1>k DEF PendingInv
  <2>1. OnItsWay(s)
    BY DEF PendingInv
  <2>2. CASE \E t \in Task : tstu[t] = s /\ tpc[t] # "idle"
    <3>1. PICK t \in Task : tstu[t] = s /\ tpc[t] # "idle"
      BY <2>2
    <3>2. CASE tpc'[t] # "idle" /\ tstu'[t] = tstu[t]
      BY <3>1, <3>2 DEF OnItsWay
    <3> QED BY <1>k, <1>t, <3>1, <3>2
  <2>3. CASE \E c \in Client : stu[c] = s /\ pc[c] = "publish"
    BY <1>k, <2>3 DEF OnItsWay
  <2> QED BY <1>k, <1>s, <2>1, <2>2, <2>3 DEF OnItsWay
<1>1. ASSUME NEW t \in Task, Deliver(t) PROVE PendingInv'
  <2>1. /\ UNCHANGED <<channel, made, pc, stu>> /\ tpc[t] = "idle" /\ queue # <<>>
        /\ queue' = Tail(queue) /\ tpc' = [tpc EXCEPT ![t] = "ack"]
        /\ tstu' = [tstu EXCEPT ![t] = Head(queue)]
    BY <1>1 DEF Deliver, database, clientVars
  <2> SUFFICES ASSUME NEW s \in made PROVE OnItsWay(s)'
    BY <2>1 DEF PendingInv
  <2>2. CASE \E i \in DOMAIN queue : queue[i] = s
    <3>1. PICK i \in DOMAIN queue : queue[i] = s
      BY <2>2
    <3>2. CASE i = 1
      BY <1>t, <2>1, <3>1, <3>2 DEF OnItsWay
    <3>3. CASE i # 1
      <4>1. i - 1 \in DOMAIN Tail(queue) /\ Tail(queue)[i - 1] = s
        BY <1>t, <2>1, <3>1, <3>3
      <4> QED BY <2>1, <4>1 DEF OnItsWay
    <3> QED BY <3>2, <3>3
  <2>3. CASE ~(\E i \in DOMAIN queue : queue[i] = s)
    <3>1. \/ s \in stored
          \/ \E u \in Task : tstu[u] = s /\ tpc[u] # "idle"
          \/ \E c \in Client : stu[c] = s /\ pc[c] = "publish"
      BY <2>3 DEF PendingInv, OnItsWay
    <3> QED BY <1>s, <1>t, <2>1, <3>1 DEF OnItsWay
  <2> QED BY <2>2, <2>3
<1>2. ASSUME NEW t \in Task, NEW p \in TaskPC \ {"idle"}, tpc' = [tpc EXCEPT ![t] = p],
             UNCHANGED <<tstu, channel, made, queue, pc, stu>>
      PROVE  PendingInv'
  BY <1>2, <1>k, <1>t
<1>3. ASSUME NEW t \in Task, TaskEnds(t), NEW s \in Student, s = tstu[t], OnItsWay(s)',
             UNCHANGED <<channel, made, queue, pc, stu>>
      PROVE  PendingInv'
  BY <1>3, <1>k, <1>t DEF TaskEnds
<1>4. ASSUME NEW t \in Task, \/ Ack(t) \/ IncrValue(t) \/ SaveRank(t)
                             \/ \E k \in Kind : Fetch(t, k)
      PROVE  PendingInv'
  <2>1. UNCHANGED <<tstu, channel, made, queue, pc, stu>>
    BY <1>4, <1>f DEF Ack, IncrValue, SaveRank, Fetch, TaskGoto, broker, database, clientVars
  <2>2. \E p \in {"check", "rank", "store", "incr", "fetch"} : tpc' = [tpc EXCEPT ![t] = p]
    BY <1>4, <1>f DEF Ack, IncrValue, SaveRank, Fetch, TaskGoto
  <2> QED BY <1>2, <2>1, <2>2 DEF TaskPC
<1>5. ASSUME NEW t \in Task, CheckRank(t) PROVE PendingInv'
  <2>1. UNCHANGED <<channel, made, queue, pc, stu>> /\ tpc[t] = "check"
    BY <1>5 DEF CheckRank, broker, database, clientVars
  <2>2. CASE Ranked(tstu[t]) /\ TaskEnds(t)
    <3>1. \/ tstu[t] \in stored
          \/ \E u \in Task : tstu[u] = tstu[t] /\ tpc[u] = "store"
      BY <1>t, <2>2 DEF Ranked, CoveredInv, RankedIsCovered
    <3>2. PICK s \in Student : s = tstu[t]
      BY <1>t
    <3>3. s \in stored' \/ \E u \in Task : tstu'[u] = s /\ tpc'[u] # "idle"
      BY <1>s, <1>t, <2>1, <2>2, <3>1, <3>2 DEF TaskEnds
    <3> QED BY <1>3, <2>1, <2>2, <3>2, <3>3 DEF OnItsWay
  <2>3. CASE TaskGoto(t, "fetch")
    BY <1>2, <2>1, <2>3 DEF TaskGoto, TaskPC
  <2> QED BY <1>5, <2>2, <2>3 DEF CheckRank
<1>6. ASSUME NEW t \in Task, StorageData(t) PROVE PendingInv'
  <2>1. UNCHANGED <<channel, made, queue, pc, stu>> /\ tpc[t] = "store"
    BY <1>6 DEF StorageData, broker, clientVars
  <2>2. CASE TaskGoto(t, "pay")
    BY <1>2, <2>1, <2>2 DEF TaskGoto, TaskPC
  <2>3. CASE TaskEnds(t) /\ ~RowsFree(tstu[t])
    <3>1. PICK s \in Student : s = tstu[t] /\ s \in stored'
      BY <1>s, <1>t, <2>3 DEF CoveredInv
    <3> QED BY <1>3, <2>1, <2>3, <3>1 DEF OnItsWay
  <2> QED BY <1>6, <1>f, <2>2, <2>3 DEF StorageData, StorageFailed
<1>7. ASSUME NEW t \in Task, NEW k \in Kind, SaveData(t, k) PROVE PendingInv'
  <2>1. UNCHANGED <<channel, made, queue, pc, stu>> /\ tpc[t] \in {"pay", "learn"}
    BY <1>7 DEF SaveData, broker, database, clientVars
  <2>2. CASE TaskGoto(t, "learn")
    BY <1>2, <2>1, <2>2 DEF TaskGoto, TaskPC
  <2>3. CASE TaskEnds(t)
    <3>1. PICK s \in Student : s = tstu[t] /\ s \in stored'
      BY <1>s, <1>t, <2>1 DEF CoveredInv
    <3> QED BY <1>3, <2>1, <2>3, <3>1 DEF OnItsWay
  <2> QED BY <1>7, <2>2, <2>3 DEF SaveData
<1>8. ASSUME NEW c \in Client, NEW s \in Student, NEW op \in Ops, Request(c, s, op)
      PROVE  PendingInv'
  BY <1>8, <1>k, <1>t DEF Request, broker, database, taskVars
<1>9. ASSUME NEW c \in Client,
             \/ InfoCheck(c) \/ CheckState(c) \/ GiveUp(c) \/ GetRankCache(c)
             \/ GetDataCache(c) \/ GetDataSave(c) \/ Appraise(c) \/ RefreshRank(c)
             \/ GetRankSave(c) \/ DelRank(c) \/ FindUser(c) \/ GetRankRow(c) \/ GetDataRow(c)
      PROVE  PendingInv'
  <2>1. UNCHANGED <<channel, made, queue, tpc, tstu>> /\ pc[c] # "publish"
    BY <1>9 DEF InfoCheck, CheckState, GiveUp, GetRankCache, GetDataCache, GetDataSave, Appraise,
       RefreshRank, GetRankSave, DelRank, FindUser, GetRankRow, GetDataRow, broker, database,
       taskVars
  <2>2. \A d \in Client \ {c} : pc'[d] = pc[d] /\ stu'[d] = stu[d]
    BY <1>9, <1>t DEF InfoCheck, CheckState, GiveUp, GetRankCache, GetDataCache, GetDataSave,
       Appraise, RefreshRank, GetRankSave, DelRank, FindUser, GetRankRow, GetDataRow, Goto, Answer
  <2> QED BY <1>k, <2>1, <2>2
<1>10. ASSUME NEW c \in Client, CreateUser(c) PROVE PendingInv'
  <2>1. UNCHANGED <<channel, queue, tpc, tstu>> /\ pc[c] = "create"
    BY <1>10 DEF CreateUser, broker, taskVars
  <2>2. CASE made' = made \cup {stu[c]} /\ Goto(c, "publish")
    <3> SUFFICES ASSUME NEW s \in made' PROVE OnItsWay(s)'
      BY <2>1 DEF PendingInv
    <3>1. CASE s = stu[c]
      BY <1>t, <2>2, <3>1 DEF OnItsWay, Goto
    <3>2. CASE s # stu[c]
      <4>1. OnItsWay(s)
        BY <2>2, <3>2 DEF PendingInv
      <4> QED BY <1>s, <1>t, <2>1, <2>2, <4>1 DEF OnItsWay, Goto
    <3> QED BY <3>1, <3>2
  <2>3. CASE made' = made /\ Answer(c)
    BY <1>k, <1>t, <2>1, <2>3 DEF Answer
  <2> QED BY <1>10, <1>f, <2>2, <2>3 DEF CreateUser
<1>11. ASSUME NEW c \in Client, Producer(c) PROVE PendingInv'
  <2>1. /\ UNCHANGED <<channel, made, tpc, tstu>> /\ pc[c] = "publish"
        /\ queue' = Append(queue, stu[c]) /\ Goto(c, "poll")
    BY <1>11, <1>f DEF Producer, PendingInv, database, taskVars
  <2> SUFFICES ASSUME NEW s \in made PROVE OnItsWay(s)'
    BY <2>1 DEF PendingInv
  <2>2. stu[c] \in Student
    BY <1>t
  <2>3. CASE s = stu[c]
    <3>1. Len(queue) + 1 \in DOMAIN queue' /\ queue'[Len(queue) + 1] = s
      BY <1>t, <2>1, <2>2, <2>3
    <3> QED BY <3>1 DEF OnItsWay
  <2>4. CASE s # stu[c]
    <3>1. OnItsWay(s)
      BY DEF PendingInv
    <3>2. \A i \in DOMAIN queue : i \in DOMAIN queue' /\ queue'[i] = queue[i]
      BY <1>t, <2>1, <2>2
    <3>3. \A d \in Client : stu[d] = s /\ pc[d] = "publish" => stu'[d] = s /\ pc'[d] = "publish"
      BY <1>t, <2>1, <2>4 DEF Goto
    <3> QED BY <1>s, <2>1, <3>1, <3>2, <3>3 DEF OnItsWay
  <2> QED BY <2>3, <2>4
<1>12. ~Expire /\ ~Break /\ ~Crash
  BY <1>f DEF Expire, Break, Crash
<1>13. CASE UNCHANGED vars
  BY <1>13, <1>k DEF vars, broker, database, taskVars, clientVars
<1> QED
  <2>1. CASE Next
    <3>1. Step
      BY <2>1, NextIsStep
    <3> QED BY <3>1, <1>1, <1>4, <1>5, <1>6, <1>7, <1>8, <1>9, <1>10, <1>11, <1>12 DEF Step
  <2> QED BY <2>1, <1>13

\* When nothing but a fetch fails, the bill of every student who has a row in users is
\* stored, queued, in a task or about to be published: a task that CheckRank drops has
\* another one ahead of it.
THEOREM PendingSafety == ASSUME AllWorks PROVE Spec => []PublishedIsPending
<1>0. StoresWork
  BY DEF AllWorks
<1>1. Init => CoveredInv /\ PendingInv
  BY DEF Init, CoveredInv, RankedIsCovered, RowsFree, PendingInv
<1>2. TypeOK /\ IdleInv /\ CoveredInv /\ [Next]_vars => CoveredInv'
  BY <1>0, CoveredStep
<1>3. TypeOK /\ CoveredInv /\ PendingInv /\ [Next]_vars => PendingInv'
  BY PendingStep
<1>4. PendingInv => PublishedIsPending
  BY DEF PendingInv, OnItsWay, PublishedIsPending
<1> QED BY <1>1, <1>2, <1>3, <1>4, IndexInvHolds, Typing, PTL DEF Spec
=============================================================================
