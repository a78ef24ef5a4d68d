---------------------------- MODULE BoBingProofs ----------------------------
(***************************************************************************)
(* Proofs about BoBing: typing, the spare rows, the bounds on extra throws *)
(* and on counted throws, the agreement of the scores, and the ban of      *)
(* repeated dice positions, for any requests, quotas and dice results.     *)
(* Only the agreement and the ban need stores that do not fail.            *)
(***************************************************************************)
EXTENDS BoBing, FiniteSetTheorems, WellFoundedInduction, TLAPS

\* Control points of a request, of the goroutine that updates and of the one that records.
PC == {"start", "exist", "rank", "creatRank", "create", "read", "getKey", "unlink", "decode",
       "existQuat", "saveQuat", "join", "zhuangYuan", "total", "day", "rareKey", "update",
       "remCount", "addCount", "ban", "done"}
UPC == {"off", "update", "count", "add", "ban", "done"}
RPC == {"off", "record", "done"}

\* Where a request has not yet found a row; where a publish has read one and not started
\* its goroutines; where it has not started them.
Rowless == {"start", "exist", "rank", "creatRank", "create", "done"}
Opening == {"getKey", "unlink", "decode", "existQuat", "saveQuat"}
Early == (Rowless \ {"done"}) \cup {"read", "ban"} \cup Opening

\* The program's steps, as the proofs below split them.
Step ==
    \/ BoBingKey \/ KeyExpires
    \/ \E r \in Req : Start(r)
    \/ \E r \in Req : Fails(r)
    \/ \E r \in Req : ExistDaySubmission(r)
    \/ \E r \in Req : ExistRank(r)
    \/ \E r \in Req : CreatRank(r)
    \/ \E r \in Req : CreateDaySubmission(r)
    \/ \E r \in Req : GetDaySubmission(r)
    \/ \E p \in Keyed : GetKey(p)
    \/ \E p \in Keyed : UnlinkKey(p)
    \/ \E p \in Keyed : Decode(p)
    \/ \E p \in Publish : ExistQuaternion(p)
    \/ \E p \in Publish : SaveCheat(p)
    \/ \E p \in Publish : SaveQuaternion(p)
    \/ \E p \in Publish : UpdateRank(p)
    \/ \E p \in Publish : UpdateCount(p)
    \/ \E p \in Publish : Ban(p)
    \/ \E p \in Publish : Panic(p)
    \/ \E p \in Publish : SaveRecord(p)
    \/ \E p \in Publish : Join(p)
    \/ \E p \in Publish : SaveZhuangYuan(p)
    \/ \E p \in Publish : SaveToTalScore(p)
    \/ \E p \in Publish : SaveDayScore(p)
    \/ \E p \in Publish : SaveRareKey(p)
    \/ \E f \in Forward : UpdateSubmission(f)
    \/ \E r \in Forward \cup Query : SaveDayCount(r)

LEMMA NextIsStep == Next => Step
  BY DEF Next, Common, Opened, Throw, Step

-----------------------------------------------------------------------------
(***************************************************************************)
(* What the arithmetic of a throw and the writes to the rows do.           *)
(***************************************************************************)
LEMMA ScoreType == \A f \in Flags : ScoreOf(f) \in Nat /\ BonusOf(f) \in 0 .. 2
  BY FlagAssumption DEF ScoreOf, BonusOf

LEMMA NoRowType == NoRow \in Row
  BY DEF NoRow, Row

\* A throw costs one or two of the throws that are left, never more than are left.
LEMMA ThrownFits ==
  ASSUME NEW s \in Row, NEW f \in Flags
  PROVE  /\ Thrown(s, f) \in Row
         /\ s.cond <= Thrown(s, f).cond /\ Thrown(s, f).cond <= s.cond + BonusOf(f)
         /\ HasThrows(s) => Thrown(s, f).count <= s.cond + Base
  <1>1. /\ s.count \in Int /\ s.cond \in Int /\ s.tui \in Int
        /\ s = [count |-> s.count, cond |-> s.cond, tui |-> s.tui]
    BY DEF Row
  <1>2. BonusOf(f) \in 0 .. 2 /\ Base \in Nat
    BY ScoreType, CountAssumption
  <1>3. CASE f = 1
    <2>1. PICK c \in {s.count + 1, s.count + 2} :
              /\ Thrown(s, f) = [count |-> c, cond |-> s.cond, tui |-> s.tui]
              /\ c = s.count + 1 \/ s.cond + Base - (s.count + 2) >= 0
      BY <1>1, <1>2, <1>3 DEF Thrown
    <2> QED
      BY <1>1, <1>2, <2>1 DEF HasThrows, Row
  <1>4. CASE f # 1
    <2>1. Thrown(s, f) = [count |-> s.count + 1, cond |-> s.cond + BonusOf(f), tui |-> s.tui]
      BY <1>1, <1>4 DEF Thrown
    <2> QED
      BY <1>1, <1>2, <2>1 DEF HasThrows, Row
  <1> QED
    BY <1>3, <1>4

LEMMA RowFields ==
  ASSUME NEW a \in Int, NEW b \in Int, NEW c \in Int
  PROVE  [count |-> a, cond |-> b, tui |-> c] \in Row
  BY DEF Row

LEMMA FieldTypes ==
  ASSUME NEW s \in Row
  PROVE  s.count \in Int /\ s.cond \in Int /\ s.tui \in Int
  BY DEF Row

LEMMA WrittenFields ==
  ASSUME NEW row \in Row, NEW s \in Row
  PROVE  /\ Written(row, s) \in Row
         /\ Written(row, s).count = s.count /\ Written(row, s).cond = s.cond
  BY RowFields, FieldTypes DEF Written

\* UpdateRank writes the oldest row and no other.
LEMMA FirstWrite ==
  ASSUME NEW S, NEW q \in Seq(S), NEW x \in S, NEW w, w = [q EXCEPT ![1] = x]
  PROVE  /\ w \in Seq(S) /\ DOMAIN w = DOMAIN q /\ Len(w) = Len(q)
         /\ \A i \in DOMAIN q : w[i] = IF i = 1 THEN x ELSE q[i]
  <1>1. DOMAIN q = 1 .. Len(q) /\ Len(q) \in Nat /\ \A i \in 1 .. Len(q) : q[i] \in S
    OBVIOUS
  <1>2. DOMAIN w = 1 .. Len(q) /\ \A i \in 1 .. Len(q) : w[i] = IF i = 1 THEN x ELSE q[i]
    BY <1>1
  <1>3. w \in [1 .. Len(q) -> S]
    BY <1>1, <1>2
  <1>4. w \in Seq(S) /\ Len(w) = Len(q)
    BY <1>1, <1>3
  <1> QED
    BY <1>1, <1>2, <1>4

\* UpdateSubmission writes every row and leaves the counts alone.
Rewritten(q, b, c) == [i \in DOMAIN q |-> [count |-> q[i].count, cond |-> b, tui |-> c]]

LEMMA SubmissionWrite ==
  ASSUME NEW q \in Seq(Row), NEW b \in Int, NEW c \in Int,
         NEW w, w = Rewritten(q, b, c)
  PROVE  /\ w \in Seq(Row) /\ DOMAIN w = DOMAIN q /\ Len(w) = Len(q)
         /\ \A i \in DOMAIN q : w[i].count = q[i].count /\ w[i].cond = b
  <1> DEFINE g(i) == [count |-> q[i].count, cond |-> b, tui |-> c]
  <1>1. DOMAIN q = 1 .. Len(q) /\ Len(q) \in Nat /\ \A i \in DOMAIN q : q[i] \in Row
    OBVIOUS
  <1>2. \A i \in DOMAIN q : g(i) \in Row
    BY <1>1, RowFields, FieldTypes
  <1>3. w = [i \in DOMAIN q |-> g(i)]
    BY DEF Rewritten
  <1>4. \A i \in DOMAIN q : g(i).count = q[i].count /\ g(i).cond = b
    OBVIOUS
  <1> HIDE DEF g
  <1>5. w \in [1 .. Len(q) -> Row] /\ \A i \in DOMAIN q : w[i] = g(i)
    BY <1>1, <1>2, <1>3, SMTT(30)
  <1>6. w \in Seq(Row) /\ DOMAIN w = DOMAIN q /\ Len(w) = Len(q)
    BY <1>1, <1>5
  <1> QED
    BY <1>4, <1>5, <1>6

-----------------------------------------------------------------------------
(***************************************************************************)
(* Typing.  A request reads a row only after there is one, so the data     *)
(* stays typed only together with where the requests of each kind can be.  *)
(***************************************************************************)
StoreOK ==
    /\ rank \in BOOLEAN /\ score \in Nat /\ rows \in Seq(Row) /\ records \in Seq(Flags)
    /\ quats \subseteq Quaternions /\ blacklist \in BOOLEAN /\ dayCount \in Int
    /\ total \in Nat /\ day \in Nat /\ tianxuan \in Nat /\ granted \in Nat

LocalOK ==
    /\ pc \in [Req -> PC] /\ snap \in [Req -> Row]
    /\ flag \in [Publish -> Flags] /\ quat \in [Publish -> [1 .. Dice -> Quaternions]]
    /\ upc \in [Publish -> UPC] /\ rpc \in [Publish -> RPC]
    /\ err \in [Publish -> {"nil", "error", "cheat", "banned"}]

Placed ==
    /\ \A b \in Broadcast : pc[b] \in {"start", "getKey", "unlink", "decode", "done"}
    /\ \A d \in DayInit : pc[d] \in Rowless

HasRow ==
    /\ \A r \in Req \ Broadcast : pc[r] \in Rowless \/ rows # <<>>
    /\ \A p \in Publish : upc[p] = "off" \/ rows # <<>>

DataInv == StoreOK /\ LocalOK /\ Placed /\ HasRow

LEMMA RecordSaved ==
  ASSUME NEW p \in Publish, SaveRecord(p)
  PROVE  records' = records \/ records' = Append(records, flag[p])
  BY SMTT(30) DEF SaveRecord

USE DEF Req, Keyed, PC, UPC, RPC, Rowless, Goto, FirstIndex, First, fetched

LEMMA DataStep == DataInv /\ [Next]_vars => DataInv'
  <1> SUFFICES ASSUME DataInv, [Next]_vars PROVE DataInv'
    OBVIOUS
  <1> USE KindAssumption, CountAssumption DEF DataInv, StoreOK, LocalOK, Placed, HasRow,
          stored, ranks, redis, input, threads, local, ghost
  <1>0. CASE UNCHANGED vars
    BY <1>0 DEF vars
  <1>1. CASE BoBingKey \/ KeyExpires
    BY <1>1 DEF BoBingKey, KeyExpires
  <1>2. ASSUME NEW r \in Req, Start(r) PROVE DataInv'
    <2>1. PICK x \in {"exist", "getKey", "done"} :
              /\ pc' = [pc EXCEPT ![r] = x]
              /\ (x = "exist" => r \notin Broadcast) /\ (x = "getKey" => r \in Broadcast)
      BY <1>2 DEF Start
    <2>2. UNCHANGED <<stored, redis, snap, flag, quat, threads, granted>>
      BY <1>2 DEF Start
    <2> QED
      BY <2>1, <2>2
  <1>3. ASSUME NEW r \in Req, Fails(r) PROVE DataInv'
    BY <1>3 DEF Fails
  <1>4. ASSUME NEW r \in Req, ExistDaySubmission(r) PROVE DataInv'
    BY <1>4 DEF ExistDaySubmission
  <1>5. ASSUME NEW r \in Req, ExistRank(r) PROVE DataInv'
    BY <1>5 DEF ExistRank
  <1>6. ASSUME NEW r \in Req, CreatRank(r) PROVE DataInv'
    BY <1>6 DEF CreatRank
  <1>7. ASSUME NEW r \in Req, CreateDaySubmission(r) PROVE DataInv'
    <2>1. rows' \in Seq(Row) /\ rows' # <<>>
      BY <1>7, RowFields DEF CreateDaySubmission
    <2> QED
      BY <1>7, <2>1 DEF CreateDaySubmission
  <1>8. ASSUME NEW r \in Req, GetDaySubmission(r) PROVE DataInv'
    <2>1. rows[1] \in Row /\ r \in Publish \cup Forward \cup Query
      BY <1>8, SMTT(30) DEF GetDaySubmission
    <2> QED
      BY <1>8, <2>1 DEF GetDaySubmission
  <1>9. ASSUME NEW p \in Keyed, GetKey(p) PROVE DataInv'
    BY <1>9 DEF GetKey
  <1>10. ASSUME NEW p \in Keyed, UnlinkKey(p) PROVE DataInv'
    BY <1>10 DEF UnlinkKey
  <1>11. ASSUME NEW p \in Keyed, Decode(p) PROVE DataInv'
    <2>1. PICK x \in {"existQuat", "ban", "done"} :
              pc' = [pc EXCEPT ![p] = x] /\ pc[p] = "decode" /\ (p \in Broadcast => x = "done")
      BY <1>11 DEF Decode
    <2>2. UNCHANGED <<stored, redis, snap, input, threads, granted>>
      BY <1>11 DEF Decode
    <2> QED
      BY <2>1, <2>2
  <1>12. ASSUME NEW p \in Publish, ExistQuaternion(p) PROVE DataInv'
    <2>1. PICK x \in {"existQuat", "saveQuat", "ban"} :
              pc' = [pc EXCEPT ![p] = x] /\ pc[p] = "existQuat"
      BY <1>12 DEF ExistQuaternion
    <2>2. UNCHANGED <<stored, redis, snap, input, threads, granted>>
      BY <1>12 DEF ExistQuaternion
    <2> QED
      BY <2>1, <2>2
  <1>26. ASSUME NEW p \in Publish, SaveCheat(p) PROVE DataInv'
    BY <1>26 DEF SaveCheat, SaveBlacklist
  <1>13. ASSUME NEW p \in Publish, SaveQuaternion(p) PROVE DataInv'
    <2>1. UNCHANGED <<stored, blacklist, dayCount, ranks, snap, flag, quat, err, granted>>
      BY <1>13 DEF SaveQuaternion
    <2>5. quats' \subseteq Quaternions
      <3>1. quat[p] \in [1 .. Dice -> Quaternions] /\ quats \subseteq Quaternions
        OBVIOUS
      <3>2. quats' = quats \cup {quat[p][i] : i \in 1 .. Dice}
        BY <1>13 DEF SaveQuaternion
      <3>3. \A i \in 1 .. Dice : quat[p][i] \in Quaternions
        BY <3>1, Zenon
      <3> QED
        BY ONLY <3>1, <3>2, <3>3
    <2>2. PICK x \in {"join", "done", "ban"} : pc' = [pc EXCEPT ![p] = x]
      BY <1>13 DEF SaveQuaternion
    <2>3. upc' \in [Publish -> UPC] /\ rpc' \in [Publish -> RPC]
      BY <1>13 DEF SaveQuaternion
    <2>4. rows # <<>>
      BY <1>13 DEF SaveQuaternion
    <2>7. StoreOK'
      BY <2>1, <2>5
    <2>8. HasRow'
      BY <2>1, <2>2, <2>4
    <2>9. LocalOK'
      BY <2>1, <2>2, <2>3
    <2> QED
      BY <2>2, <2>7, <2>8, <2>9
  <1>14. ASSUME NEW p \in Publish, UpdateRank(p) PROVE DataInv'
    <2> DEFINE new == Thrown(snap[p], flag[p])
    <2>1. rows # <<>> /\ rows[1] \in Row /\ new \in Row
      BY <1>14, ThrownFits DEF UpdateRank
    <2>2. Written(rows[1], new) \in Row /\ NoRow \in Row
      BY <2>1, WrittenFields, NoRowType
    <2>3. rows' \in Seq(Row) /\ rows' # <<>>
      BY <1>14, <2>1, <2>2, FirstWrite DEF UpdateRank
    <2>4. snap' \in [Req -> Row]
      BY <1>14, <2>2 DEF UpdateRank
    <2>5. ScoreOf(flag[p]) \in Nat /\ BonusOf(flag[p]) \in Nat
      BY ScoreType
    <2>6. score' \in Nat /\ granted' \in Nat
      BY <1>14, <2>5 DEF UpdateRank
    <2> QED
      BY <1>14, <2>3, <2>4, <2>6 DEF UpdateRank
  <1>15. ASSUME NEW p \in Publish, UpdateCount(p) PROVE DataInv'
    <2>1. dayCount' \in Int
      BY <1>15, FieldTypes DEF UpdateCount, Removed, Filed, Remaining, NoCount
    <2> QED
      BY <1>15, <2>1 DEF UpdateCount
  <1>16. ASSUME NEW p \in Publish, Ban(p) PROVE DataInv'
    BY <1>16 DEF Ban
  <1>17. ASSUME NEW p \in Publish, Panic(p) PROVE DataInv'
    BY <1>17 DEF Panic
  <1>18. ASSUME NEW p \in Publish, SaveRecord(p) PROVE DataInv'
    <2>1. records' \in Seq(Flags)
      <3>1. records' = records \/ records' = Append(records, flag[p])
        BY <1>18, RecordSaved
      <3>2. flag[p] \in Flags /\ records \in Seq(Flags)
        OBVIOUS
      <3>3. Append(records, flag[p]) \in Seq(Flags)
        BY ONLY <3>2
      <3> QED
        BY ONLY <3>1, <3>2, <3>3
    <2>2. /\ rpc' \in [Publish -> RPC]
          /\ err' \in [Publish -> {"nil", "error", "cheat", "banned"}]
      BY <1>18 DEF SaveRecord
    <2>3. UNCHANGED <<rank, score, rows, redis, pc, snap, input, upc, granted>>
      BY <1>18 DEF SaveRecord
    <2> QED
      BY <2>1, <2>2, <2>3
  <1>19. ASSUME NEW p \in Publish, Join(p) PROVE DataInv'
    BY <1>19 DEF Join
  <1>20. ASSUME NEW p \in Publish, SaveZhuangYuan(p) PROVE DataInv'
    BY <1>20 DEF SaveZhuangYuan
  <1>21. ASSUME NEW p \in Publish, SaveToTalScore(p) PROVE DataInv'
    BY <1>21, ScoreType DEF SaveToTalScore
  <1>22. ASSUME NEW p \in Publish, SaveDayScore(p) PROVE DataInv'
    BY <1>22, ScoreType DEF SaveDayScore
  <1>23. ASSUME NEW p \in Publish, SaveRareKey(p) PROVE DataInv'
    BY <1>23 DEF SaveRareKey
  <1>24. ASSUME NEW f \in Forward, UpdateSubmission(f) PROVE DataInv'
    <2>1. snap[f].cond + 1 \in Int /\ snap[f].tui - 1 \in Int /\ snap[f].count \in Int
      BY FieldTypes
    <2>0. rows' = Rewritten(rows, snap[f].cond + 1, snap[f].tui - 1)
      BY <1>24 DEF UpdateSubmission, Rewritten
    <2>2. rows' \in Seq(Row) /\ Len(rows') = Len(rows)
      BY <2>0, <2>1, SubmissionWrite
    <2>3. snap' \in [Req -> Row]
      BY <1>24, <2>1, RowFields DEF UpdateSubmission
    <2>4. rows # <<>>
      BY <1>24 DEF UpdateSubmission
    <2>5. rows' # <<>>
      BY <2>2, <2>4
    <2> QED
      BY <1>24, <2>2, <2>3, <2>5 DEF UpdateSubmission
  <1>25. ASSUME NEW r \in Forward \cup Query, SaveDayCount(r) PROVE DataInv'
    <2>1. dayCount' \in Int
      BY <1>25, FieldTypes DEF SaveDayCount, Remaining, NoCount
    <2>2. blacklist' \in BOOLEAN
      BY <1>25 DEF SaveDayCount, SaveBlacklist
    <2>3. PICK x \in {"addCount", "done"} :
              pc' = [pc EXCEPT ![r] = x] /\ pc[r] \in {"remCount", "addCount"}
      BY <1>25 DEF SaveDayCount
    <2>4. UNCHANGED <<stored, quats, ranks, snap, input, threads, granted>>
      BY <1>25 DEF SaveDayCount
    <2>5. StoreOK'
      BY <2>1, <2>2, <2>4
    <2> QED
      BY <2>3, <2>4, <2>5
  <1> QED
    BY NextIsStep, <1>0, <1>1, <1>2, <1>3, <1>4, <1>5, <1>6, <1>7, <1>8, <1>9, <1>10, <1>11,
       <1>12, <1>13, <1>14, <1>15, <1>16, <1>17, <1>18, <1>19, <1>20, <1>21, <1>22, <1>23,
       <1>24, <1>25, <1>26 DEF Step

-----------------------------------------------------------------------------
(***************************************************************************)
(* The keys.  BoBingKey stops at MaxKey; beyond it only a publish on its   *)
(* way out issues a key, one each.                                         *)
(***************************************************************************)
Served == {p \in Publish : pc[p] = "done"}

KeyInv ==
    /\ issued \in Nat /\ key \in 0 .. issued
    /\ ekey \in [Keyed -> 0 .. issued] /\ gkey \in [Keyed -> 0 .. issued]
    /\ issued <= MaxKey + Cardinality(Served)

\* A served request stays served.
LEMMA ServedStays ==
  DataInv /\ [Next]_vars => \A r \in Req : pc[r] = "done" => pc'[r] = "done"
  <1> DEFINE Stays == \A r \in Req : pc[r] = "done" => pc'[r] = "done"
  <1> SUFFICES ASSUME pc \in [Req -> PC], [Next]_vars PROVE Stays
    BY DEF DataInv, LocalOK
  <1> USE KindAssumption DEF local
  <1>0. CASE UNCHANGED vars
    BY <1>0 DEF vars
  <1>1. CASE BoBingKey \/ KeyExpires
    BY <1>1 DEF BoBingKey, KeyExpires
  <1>2. ASSUME NEW r \in Req, Start(r) PROVE Stays
    BY <1>2 DEF Start
  <1>3. ASSUME NEW r \in Req, Fails(r) PROVE Stays
    BY <1>3 DEF Fails
  <1>4. ASSUME NEW r \in Req, ExistDaySubmission(r) PROVE Stays
    BY <1>4 DEF ExistDaySubmission
  <1>5. ASSUME NEW r \in Req, ExistRank(r) PROVE Stays
    BY <1>5 DEF ExistRank
  <1>6. ASSUME NEW r \in Req, CreatRank(r) PROVE Stays
    BY <1>6 DEF CreatRank
  <1>7. ASSUME NEW r \in Req, CreateDaySubmission(r) PROVE Stays
    BY <1>7 DEF CreateDaySubmission
  <1>8. ASSUME NEW r \in Req, GetDaySubmission(r) PROVE Stays
    BY <1>8 DEF GetDaySubmission
  <1>9. ASSUME NEW p \in Keyed, GetKey(p) PROVE Stays
    BY <1>9 DEF GetKey
  <1>10. ASSUME NEW p \in Keyed, UnlinkKey(p) PROVE Stays
    BY <1>10 DEF UnlinkKey
  <1>11. ASSUME NEW p \in Keyed, Decode(p) PROVE Stays
    BY <1>11 DEF Decode
  <1>12. ASSUME NEW p \in Publish, ExistQuaternion(p) PROVE Stays
    BY <1>12 DEF ExistQuaternion
  <1>26. ASSUME NEW p \in Publish, SaveCheat(p) PROVE Stays
    BY <1>26 DEF SaveCheat
  <1>13. ASSUME NEW p \in Publish, SaveQuaternion(p) PROVE Stays
    BY <1>13 DEF SaveQuaternion
  <1>14. ASSUME NEW p \in Publish, UpdateRank(p) PROVE Stays
    BY <1>14 DEF UpdateRank
  <1>15. ASSUME NEW p \in Publish, UpdateCount(p) PROVE Stays
    BY <1>15 DEF UpdateCount
  <1>16. ASSUME NEW p \in Publish, Ban(p) PROVE Stays
    BY <1>16 DEF Ban
  <1>17. ASSUME NEW p \in Publish, Panic(p) PROVE Stays
    BY <1>17 DEF Panic
  <1>18. ASSUME NEW p \in Publish, SaveRecord(p) PROVE Stays
    BY <1>18 DEF SaveRecord
  <1>19. ASSUME NEW p \in Publish, Join(p) PROVE Stays
    BY <1>19 DEF Join
  <1>20. ASSUME NEW p \in Publish, SaveZhuangYuan(p) PROVE Stays
    BY <1>20 DEF SaveZhuangYuan
  <1>21. ASSUME NEW p \in Publish, SaveToTalScore(p) PROVE Stays
    BY <1>21 DEF SaveToTalScore
  <1>22. ASSUME NEW p \in Publish, SaveDayScore(p) PROVE Stays
    BY <1>22 DEF SaveDayScore
  <1>23. ASSUME NEW p \in Publish, SaveRareKey(p) PROVE Stays
    BY <1>23 DEF SaveRareKey
  <1>24. ASSUME NEW f \in Forward, UpdateSubmission(f) PROVE Stays
    BY <1>24 DEF UpdateSubmission
  <1>25. ASSUME NEW r \in Forward \cup Query, SaveDayCount(r) PROVE Stays
    BY <1>25 DEF SaveDayCount
  <1> QED
    BY NextIsStep, <1>0, <1>1, <1>2, <1>3, <1>4, <1>5, <1>6, <1>7, <1>8, <1>9, <1>10, <1>11,
       <1>12, <1>13, <1>14, <1>15, <1>16, <1>17, <1>18, <1>19, <1>20, <1>21, <1>22, <1>23,
       <1>24, <1>25, <1>26 DEF Step

LEMMA ServedCounts ==
  ASSUME DataInv, [Next]_vars
  PROVE  /\ Cardinality(Served) \in Nat /\ Cardinality(Served') \in Nat
         /\ Cardinality(Served) <= Cardinality(Served')
         /\ \A p \in Publish : pc[p] # "done" /\ pc'[p] = "done" =>
                Cardinality(Served) + 1 <= Cardinality(Served')
  <1>1. IsFiniteSet(Served) /\ IsFiniteSet(Served')
    BY PublishAssumption, FS_Subset DEF Served
  <1>2. Served \subseteq Served'
    BY ServedStays DEF Served
  <1>3. /\ Cardinality(Served) \in Nat /\ Cardinality(Served') \in Nat
        /\ Cardinality(Served) <= Cardinality(Served')
    BY <1>1, <1>2, FS_Subset, FS_CardinalityType
  <1>4. ASSUME NEW p \in Publish, pc[p] # "done", pc'[p] = "done"
        PROVE  Cardinality(Served) + 1 <= Cardinality(Served')
    <2>1. p \notin Served /\ Served \cup {p} \subseteq Served'
      BY <1>2, <1>4 DEF Served
    <2>2. Cardinality(Served \cup {p}) = Cardinality(Served) + 1
      BY <1>1, <2>1, FS_AddElement
    <2> QED
      BY <1>1, <2>1, <2>2, FS_Subset
  <1> QED
    BY <1>3, <1>4

LEMMA KeyStep == DataInv /\ KeyInv /\ [Next]_vars => KeyInv'
  <1> SUFFICES ASSUME DataInv, KeyInv, [Next]_vars PROVE KeyInv'
    OBVIOUS
  <1> DEFINE n == Cardinality(Served)
             m == Cardinality(Served')
  <1>1. /\ n \in Nat /\ m \in Nat /\ n <= m /\ MaxKey \in Nat
        /\ \A p \in Publish : pc[p] # "done" /\ pc'[p] = "done" => n + 1 <= m
    BY ServedCounts, CountAssumption
  <1>2. issued \in Nat /\ issued <= MaxKey + n
    BY DEF KeyInv
  <1> HIDE DEF n, m
  <1>3. CASE UNCHANGED <<key, issued, ekey, gkey>>
    <2>1. issued' <= MaxKey + m
      BY <1>1, <1>2, <1>3
    <2> QED
      BY <1>3, <2>1 DEF KeyInv, m
  <1>4. CASE BoBingKey
    <2>1. issued' = issued + 1 /\ key' = issued + 1 /\ UNCHANGED <<ekey, gkey>> /\ issued < MaxKey
      BY <1>4 DEF BoBingKey, NewKey, local, input
    <2>2. issued' <= MaxKey + m
      BY <1>1, <1>2, <2>1
    <2> QED
      BY <1>2, <2>1, <2>2 DEF KeyInv, m
  <1>5. CASE KeyExpires \/ \E p \in Keyed : UnlinkKey(p)
    <2>1. key' = 0 /\ UNCHANGED <<issued, ekey, gkey>>
      BY <1>5 DEF KeyExpires, UnlinkKey, local, input, NoKey
    <2>2. issued' <= MaxKey + m
      BY <1>1, <1>2, <2>1
    <2> QED
      BY <1>2, <2>1, <2>2 DEF KeyInv, m
  <1>6. ASSUME NEW r \in Req, Start(r) PROVE KeyInv'
    <2>1. UNCHANGED <<key, issued, gkey>>
      BY <1>6 DEF Start, redis
    <2>2. ekey' \in [Keyed -> 0 .. issued]
      BY <1>2, <1>6 DEF Start, KeyInv
    <2>3. issued' <= MaxKey + m
      BY <1>1, <1>2, <2>1
    <2> QED
      BY <2>1, <2>2, <2>3 DEF KeyInv, m
  <1>7. ASSUME NEW p \in Keyed, GetKey(p) PROVE KeyInv'
    <2>1. UNCHANGED <<key, issued, ekey>>
      BY <1>7 DEF GetKey, redis, input
    <2>2. gkey' \in [Keyed -> 0 .. issued]
      BY <1>7 DEF GetKey, KeyInv
    <2>3. issued' <= MaxKey + m
      BY <1>1, <1>2, <2>1
    <2> QED
      BY <2>1, <2>2, <2>3 DEF KeyInv, m
  <1>8. ASSUME NEW p \in Publish, SaveRareKey(p) PROVE KeyInv'
    <2>1. issued' = issued + 1 /\ key' = issued + 1 /\ UNCHANGED <<ekey, gkey>>
      BY <1>8 DEF SaveRareKey, NewKey, input
    <2>2. pc[p] # "done" /\ pc'[p] = "done"
      BY <1>8 DEF SaveRareKey, DataInv, LocalOK
    <2>3. issued' <= MaxKey + m
      BY <1>1, <1>2, <2>1, <2>2
    <2> QED
      BY <1>2, <2>1, <2>3 DEF KeyInv, m
  <1> QED
    <2> SUFFICES ASSUME ~(BoBingKey \/ KeyExpires), \A p \in Keyed : ~UnlinkKey(p) /\ ~GetKey(p),
                        \A r \in Req : ~Start(r), \A p \in Publish : ~SaveRareKey(p)
                 PROVE  UNCHANGED <<key, issued, ekey, gkey>>
      BY <1>3, <1>4, <1>5, <1>6, <1>7, <1>8
    <2> QED
      BY NextIsStep DEF Step, vars, redis, local, input, Fails, ExistDaySubmission, ExistRank,
         CreatRank, CreateDaySubmission, GetDaySubmission, Decode, ExistQuaternion,
         SaveCheat, SaveQuaternion, UpdateRank, UpdateCount, Ban, Panic, SaveRecord, Join, SaveZhuangYuan,
         SaveToTalScore, SaveDayScore, UpdateSubmission, SaveDayCount

-----------------------------------------------------------------------------
(***************************************************************************)
(* The quota.  A publish writes what it computed from the submission it    *)
(* read long before, a forward likewise.  What makes the rows sound is     *)
(* that a submission that is yet to be written was within the grants when  *)
(* it was read, and that grants are never taken back; that is an invariant *)
(* of the requests in flight, not of the rows.                             *)
(***************************************************************************)
\* A publish that still has its goroutines ahead of it has not started them.
NotForked == \A p \in Publish : pc[p] \in Early => upc[p] = "off"

\* The submission a request is still going to write is within the grants; one that a
\* failed commit left behind need not be.
SnapGranted ==
    \A r \in Req : (r \in Publish => upc[r] \in {"off", "update"}) => snap[r].cond <= granted

\* A publish that may still throw read a submission with a throw left.
SnapHasThrows ==
    \A p \in Publish : pc[p] \in Opening \/ upc[p] = "update" => HasThrows(snap[p])

\* No row counts more throws than the base and everything that was granted.
CountWithinGrants == \A i \in DOMAIN rows : rows[i].count <= granted + Base

FlightInv == NotForked /\ SnapGranted /\ SnapHasThrows
RowInv == ConditionWithinGrants /\ CountWithinGrants /\ DuplicateRowsUnused
QuotaInv == FlightInv /\ RowInv

\* What steps other than CreateDaySubmission, GetDaySubmission, SaveQuaternion, UpdateRank
\* and UpdateSubmission do to the quota: no publish moves back, nothing is written.
Harmless ==
    /\ UNCHANGED <<rows, snap, granted>>
    /\ \A p \in Publish : /\ pc'[p] \in Early => pc[p] \in Early
                          /\ pc'[p] \in Opening => pc[p] \in Opening
                          /\ upc'[p] # upc[p] => upc'[p] \notin {"off", "update"}
                          /\ upc'[p] # upc[p] => pc'[p] \notin Early

LEMMA HarmlessStep == DataInv /\ QuotaInv /\ Harmless => QuotaInv'
  <1> SUFFICES ASSUME DataInv, QuotaInv, Harmless PROVE QuotaInv'
    OBVIOUS
  <1>1. RowInv'
    BY DEF Harmless, QuotaInv, RowInv, ConditionWithinGrants, CountWithinGrants,
           DuplicateRowsUnused
  <1>2. NotForked'
    BY DEF Harmless, QuotaInv, FlightInv, NotForked
  <1>3. SnapGranted'
    BY DEF Harmless, QuotaInv, FlightInv, SnapGranted
  <1>4. SnapHasThrows'
    BY DEF Harmless, QuotaInv, FlightInv, SnapHasThrows, HasThrows
  <1> QED
    BY <1>1, <1>2, <1>3, <1>4 DEF QuotaInv, FlightInv

LEMMA MostlyHarmless ==
  ASSUME DataInv, QuotaInv, [Next]_vars,
         \A r \in Req : ~CreateDaySubmission(r) /\ ~GetDaySubmission(r),
         \A p \in Publish : ~SaveQuaternion(p) /\ ~UpdateRank(p),
         \A f \in Forward : ~UpdateSubmission(f)
  PROVE  Harmless
  <1> USE KindAssumption DEF Harmless, DataInv, LocalOK, Placed, QuotaInv, FlightInv, NotForked,
          Early, Opening, stored, local, threads, ghost
  <1>0. CASE UNCHANGED vars
    BY <1>0 DEF vars
  <1>1. CASE BoBingKey \/ KeyExpires
    BY <1>1 DEF BoBingKey, KeyExpires
  <1>2. ASSUME NEW r \in Req, Start(r) PROVE Harmless
    BY <1>2 DEF Start
  <1>3. ASSUME NEW r \in Req, Fails(r) PROVE Harmless
    BY <1>3 DEF Fails
  <1>4. ASSUME NEW r \in Req, ExistDaySubmission(r) PROVE Harmless
    BY <1>4 DEF ExistDaySubmission
  <1>5. ASSUME NEW r \in Req, ExistRank(r) PROVE Harmless
    BY <1>5 DEF ExistRank
  <1>6. ASSUME NEW r \in Req, CreatRank(r) PROVE Harmless
    BY <1>6 DEF CreatRank
  <1>7. ASSUME NEW p \in Keyed, GetKey(p) PROVE Harmless
    BY <1>7 DEF GetKey
  <1>8. ASSUME NEW p \in Keyed, UnlinkKey(p) PROVE Harmless
    BY <1>8 DEF UnlinkKey
  <1>9. ASSUME NEW p \in Keyed, Decode(p) PROVE Harmless
    <2>1. PICK x \in {"existQuat", "ban", "done"} :
              pc[p] = "decode" /\ pc' = [pc EXCEPT ![p] = x]
      BY <1>9 DEF Decode
    <2>2. UNCHANGED <<rows, snap, granted, upc>>
      BY <1>9 DEF Decode
    <2> QED
      BY <2>1, <2>2
  <1>10. ASSUME NEW p \in Publish, ExistQuaternion(p) PROVE Harmless
    <2>1. PICK x \in {"existQuat", "saveQuat", "ban"} :
              pc[p] = "existQuat" /\ pc' = [pc EXCEPT ![p] = x]
      BY <1>10 DEF ExistQuaternion
    <2>2. UNCHANGED <<rows, snap, granted, upc>>
      BY <1>10 DEF ExistQuaternion
    <2> QED
      BY <2>1, <2>2
  <1>21. ASSUME NEW p \in Publish, SaveCheat(p) PROVE Harmless
    BY <1>21 DEF SaveCheat
  <1>11. ASSUME NEW p \in Publish, UpdateCount(p) PROVE Harmless
    BY <1>11 DEF UpdateCount
  <1>12. ASSUME NEW p \in Publish, Ban(p) PROVE Harmless
    BY <1>12 DEF Ban
  <1>13. ASSUME NEW p \in Publish, Panic(p) PROVE Harmless
    BY <1>13 DEF Panic
  <1>14. ASSUME NEW p \in Publish, SaveRecord(p) PROVE Harmless
    BY <1>14 DEF SaveRecord
  <1>15. ASSUME NEW p \in Publish, Join(p) PROVE Harmless
    BY <1>15 DEF Join
  <1>16. ASSUME NEW p \in Publish, SaveZhuangYuan(p) PROVE Harmless
    BY <1>16 DEF SaveZhuangYuan
  <1>17. ASSUME NEW p \in Publish, SaveToTalScore(p) PROVE Harmless
    BY <1>17 DEF SaveToTalScore
  <1>18. ASSUME NEW p \in Publish, SaveDayScore(p) PROVE Harmless
    BY <1>18 DEF SaveDayScore
  <1>19. ASSUME NEW p \in Publish, SaveRareKey(p) PROVE Harmless
    BY <1>19 DEF SaveRareKey
  <1>20. ASSUME NEW r \in Forward \cup Query, SaveDayCount(r) PROVE Harmless
    BY <1>20 DEF SaveDayCount
  <1> QED
    BY NextIsStep, <1>0, <1>1, <1>2, <1>3, <1>4, <1>5, <1>6, <1>7, <1>8, <1>9, <1>10, <1>11,
       <1>12, <1>13, <1>14, <1>15, <1>16, <1>17, <1>18, <1>19, <1>20, <1>21 DEF Step

\* The steps that read or write the rows.
LEMMA CreateKeepsQuota ==
  ASSUME DataInv, QuotaInv, NEW r \in Req, CreateDaySubmission(r) PROVE QuotaInv'
  <1> DEFINE x == [count |-> 0, cond |-> 0, tui |-> TuiWen]
  <1>1. /\ pc[r] = "create" /\ rows' = Append(rows, x)
        /\ UNCHANGED <<snap, upc, granted>>
        /\ pc' = [pc EXCEPT ![r] = IF r \in DayInit THEN "done" ELSE "read"]
    BY DEF CreateDaySubmission, threads, ghost
  <1>2. /\ rows \in Seq(Row) /\ x \in Row /\ granted \in Nat /\ Base \in Nat
        /\ x.count = 0 /\ x.cond = 0
    BY CountAssumption, RowFields DEF DataInv, StoreOK
  <1> HIDE DEF x
  <1>3. /\ DOMAIN rows' = DOMAIN rows \cup {Len(rows) + 1}
        /\ rows'[Len(rows) + 1] = x
        /\ \A i \in DOMAIN rows : rows'[i] = rows[i]
    BY <1>1, <1>2
  <1>4. RowInv'
    BY <1>1, <1>2, <1>3 DEF QuotaInv, RowInv, ConditionWithinGrants, CountWithinGrants,
       DuplicateRowsUnused
  <1>5. NotForked' /\ SnapGranted'
    BY <1>1 DEF QuotaInv, FlightInv, NotForked, SnapGranted, DataInv, LocalOK, Early, Opening
  <1>6. SnapHasThrows'
    BY <1>1 DEF QuotaInv, FlightInv, SnapHasThrows, HasThrows, DataInv, LocalOK, Opening
  <1> QED
    BY <1>4, <1>5, <1>6 DEF QuotaInv, FlightInv

LEMMA ReadKeepsQuota ==
  ASSUME DataInv, QuotaInv, NEW r \in Req, GetDaySubmission(r) PROVE QuotaInv'
  <1>1. /\ r \in Publish \cup Forward \cup Query /\ rows # <<>>
        /\ pc \in [Req -> PC] /\ snap \in [Req -> Row] /\ rows \in Seq(Row)
        /\ pc[r] = "read"
    BY KindAssumption DEF GetDaySubmission, DataInv, LocalOK, StoreOK, Placed, HasRow
  <1>2. 1 \in DOMAIN rows /\ rows[1] \in Row
    BY <1>1
  <1>3. /\ snap' = [snap EXCEPT ![r] = rows[1]] /\ UNCHANGED <<rows, upc, granted>>
    BY DEF GetDaySubmission, stored, threads, ghost
  <1>4. PICK x \in PC : /\ pc' = [pc EXCEPT ![r] = x] /\ x \notin Early \ Opening
                        /\ r \in Publish /\ x \in Opening => HasThrows(rows[1])
    BY <1>1, KindAssumption DEF GetDaySubmission, Early, Opening
  <1>5. RowInv'
    BY <1>3 DEF QuotaInv, RowInv, ConditionWithinGrants, CountWithinGrants, DuplicateRowsUnused
  <1>6. NotForked'
    BY <1>1, <1>3, <1>4 DEF QuotaInv, FlightInv, NotForked, Early, Opening
  <1>7. SnapGranted'
    BY <1>1, <1>2, <1>3 DEF QuotaInv, FlightInv, SnapGranted, RowInv, ConditionWithinGrants
  <1>8. ASSUME NEW p \in Publish, pc'[p] \in Opening \/ upc'[p] = "update"
        PROVE  HasThrows(snap'[p])
    <2>1. CASE p = r
      <3>1. upc[p] = "off" /\ snap'[p] = rows[1] /\ pc'[p] \in Opening
        BY <1>1, <1>3, <1>8, <2>1 DEF QuotaInv, FlightInv, NotForked, Early
      <3> QED
        BY <1>1, <1>4, <2>1, <3>1
    <2>2. CASE p # r
      BY <1>1, <1>3, <1>4, <1>8, <2>2 DEF QuotaInv, FlightInv, SnapHasThrows
    <2> QED
      BY <2>1, <2>2
  <1>9. SnapHasThrows'
    BY <1>8 DEF SnapHasThrows, HasThrows
  <1> QED
    BY <1>5, <1>6, <1>7, <1>9 DEF QuotaInv, FlightInv

LEMMA ForkKeepsQuota ==
  ASSUME DataInv, QuotaInv, NEW p \in Publish, SaveQuaternion(p) PROVE QuotaInv'
  <1>1. /\ pc[p] = "saveQuat" /\ UNCHANGED <<rows, snap, granted>>
    BY DEF SaveQuaternion, stored, ghost
  <1>2. PICK x \in {"join", "done", "ban"} :
            pc' = [pc EXCEPT ![p] = x] /\ (x # "join" => upc' = upc)
    BY DEF SaveQuaternion
  <1>3. PICK y \in {upc[p], "update"} :
            upc' = [upc EXCEPT ![p] = y] /\ (x # "join" => y = upc[p])
    BY <1>2 DEF SaveQuaternion, DataInv, LocalOK
  <1>4. upc[p] = "off" /\ HasThrows(snap[p])
    BY <1>1 DEF QuotaInv, FlightInv, NotForked, SnapHasThrows, Early, Opening
  <1>5. pc \in [Req -> PC] /\ upc \in [Publish -> UPC]
    BY DEF DataInv, LocalOK
  <1>6. RowInv'
    BY <1>1 DEF QuotaInv, RowInv, ConditionWithinGrants, CountWithinGrants, DuplicateRowsUnused
  <1>7. NotForked'
    BY <1>2, <1>3, <1>4, <1>5 DEF QuotaInv, FlightInv, NotForked, Early, Opening
  <1>8. SnapGranted'
    BY <1>1, <1>3, <1>4, <1>5 DEF QuotaInv, FlightInv, SnapGranted
  <1>9. SnapHasThrows'
    BY <1>1, <1>2, <1>3, <1>4, <1>5 DEF QuotaInv, FlightInv, SnapHasThrows, HasThrows, Opening
  <1> QED
    BY <1>6, <1>7, <1>8, <1>9 DEF QuotaInv, FlightInv

LEMMA ThrowKeepsQuota ==
  ASSUME DataInv, QuotaInv, NEW p \in Publish, UpdateRank(p) PROVE QuotaInv'
  <1> DEFINE s == snap[p]
             f == flag[p]
             new == Thrown(s, f)
             row == Written(rows[1], new)
  <1>1. /\ s \in Row /\ f \in Flags /\ rows \in Seq(Row) /\ rows # <<>> /\ upc[p] = "update"
        /\ snap \in [Req -> Row] /\ upc \in [Publish -> UPC] /\ granted \in Nat
    BY DEF UpdateRank, DataInv, LocalOK, StoreOK, HasRow
  <1>2. /\ new \in Row /\ new.cond <= s.cond + BonusOf(f) /\ new.count <= s.cond + Base
        /\ s.cond <= granted
    BY <1>1, ThrownFits DEF QuotaInv, FlightInv, SnapHasThrows, SnapGranted
  <1>3. /\ s.cond \in Int /\ new.cond \in Int /\ new.count \in Int /\ BonusOf(f) \in Nat
        /\ Base \in Nat
    <2> HIDE DEF s, f, new
    <2>1. s.cond \in Int /\ new.cond \in Int /\ new.count \in Int
      BY <1>1, <1>2, FieldTypes
    <2>2. BonusOf(f) \in Nat
      BY <1>1, ScoreType
    <2> QED
      BY <2>1, <2>2, CountAssumption
  <1>4. /\ UNCHANGED pc /\ upc' = [upc EXCEPT ![p] = "count"]
        /\ \A r \in Req : r # p => snap'[r] = snap[r]
    BY <1>1 DEF UpdateRank
  <1>5. \/ UNCHANGED <<rows, granted>>
        \/ rows' = [rows EXCEPT ![1] = row] /\ granted' = granted + BonusOf(f)
    BY DEF UpdateRank
  <1>6. 1 \in DOMAIN rows /\ rows[1] \in Row
    BY <1>1
  <1>7. row \in Row /\ row.count = new.count /\ row.cond = new.cond
    BY <1>2, <1>6, WrittenFields
  <1>8. granted' \in Nat /\ granted <= granted'
    BY <1>1, <1>3, <1>5
  <1> HIDE DEF s, f, new, row
  <1>9. \A i \in DOMAIN rows : rows[i].cond \in Int /\ rows[i].count \in Int
    BY <1>1, FieldTypes
  <1>10. RowInv'
    <2>1. CASE UNCHANGED <<rows, granted>>
      BY <2>1 DEF QuotaInv, RowInv, ConditionWithinGrants, CountWithinGrants,
         DuplicateRowsUnused
    <2>2. CASE rows' = [rows EXCEPT ![1] = row] /\ granted' = granted + BonusOf(f)
      <3>1. /\ DOMAIN rows' = DOMAIN rows
            /\ \A i \in DOMAIN rows : rows'[i] = IF i = 1 THEN row ELSE rows[i]
        BY <1>1, <1>7, <2>2, FirstWrite
      <3>2. row.cond <= granted' /\ row.count <= granted' + Base
        <4>1. granted \in Nat /\ granted' = granted + BonusOf(f)
          BY <1>1, <2>2
        <4> QED
          BY ONLY <1>2, <1>3, <1>7, <4>1
      <3>3. ConditionWithinGrants'
        BY <1>1, <1>8, <1>9, <3>1, <3>2 DEF QuotaInv, RowInv, ConditionWithinGrants
      <3>4. CountWithinGrants'
        BY <1>1, <1>3, <1>8, <1>9, <3>1, <3>2 DEF QuotaInv, RowInv, CountWithinGrants
      <3>5. DuplicateRowsUnused'
        BY <3>1 DEF QuotaInv, RowInv, DuplicateRowsUnused
      <3> QED
        BY <3>3, <3>4, <3>5 DEF RowInv
    <2> QED
      BY <1>5, <2>1, <2>2
  <1>11. NotForked'
    BY <1>1, <1>4 DEF QuotaInv, FlightInv, NotForked
  <1>12. SnapGranted'
    <2>1. \A r \in Req : snap[r].cond \in Int
      BY <1>1, FieldTypes
    <2> QED
      BY <1>1, <1>4, <1>8, <2>1 DEF QuotaInv, FlightInv, SnapGranted
  <1>13. SnapHasThrows'
    <2>1. pc[p] \notin Opening
      BY <1>1 DEF QuotaInv, FlightInv, NotForked, Early
    <2> QED
      BY <1>1, <1>4, <2>1 DEF QuotaInv, FlightInv, SnapHasThrows, HasThrows
  <1> QED
    BY <1>10, <1>11, <1>12, <1>13 DEF QuotaInv, FlightInv

LEMMA ForwardKeepsQuota ==
  ASSUME DataInv, QuotaInv, NEW f \in Forward, UpdateSubmission(f) PROVE QuotaInv'
  <1> DEFINE b == snap[f].cond + 1
             c == snap[f].tui - 1
  <1>1. /\ snap \in [Req -> Row] /\ rows \in Seq(Row) /\ granted \in Nat /\ Base \in Nat
        /\ f \notin Publish /\ pc[f] = "update" /\ pc \in [Req -> PC]
    BY KindAssumption, CountAssumption DEF UpdateSubmission, DataInv, LocalOK, StoreOK
  <1>2. /\ snap[f].cond \in Int /\ snap[f].tui \in Int /\ snap[f].cond <= granted
        /\ \A r \in Req : snap[r].cond \in Int
    BY <1>1, FieldTypes DEF QuotaInv, FlightInv, SnapGranted
  <1>3. rows' = Rewritten(rows, b, c)
    BY DEF UpdateSubmission, Rewritten
  <1>4. /\ granted' = granted + 1 /\ pc' = [pc EXCEPT ![f] = "remCount"] /\ UNCHANGED upc
        /\ snap' = [snap EXCEPT ![f] = [count |-> snap[f].count, cond |-> b, tui |-> c]]
    BY DEF UpdateSubmission, threads
  <1>5. b \in Int /\ c \in Int /\ b <= granted'
    <2>1. granted' = granted + 1 /\ granted \in Nat
      BY <1>1, <1>4
    <2> QED
      BY ONLY <1>2, <2>1
  <1>6. snap'[f].cond = b /\ \A r \in Req : r # f => snap'[r] = snap[r]
    BY <1>1, <1>4
  <1> HIDE DEF b, c
  <1>7. /\ DOMAIN rows' = DOMAIN rows
        /\ \A i \in DOMAIN rows : rows'[i].count = rows[i].count /\ rows'[i].cond = b
    <2>1. rows \in Seq(Row) /\ b \in Int /\ c \in Int
      BY <1>1, <1>5
    <2> QED
      BY ONLY <1>3, <2>1, SubmissionWrite
  <1>8. \A i \in DOMAIN rows : rows[i].cond \in Int /\ rows[i].count \in Int
    BY <1>1, FieldTypes
  <1>9. ConditionWithinGrants' /\ DuplicateRowsUnused'
    BY <1>5, <1>7 DEF QuotaInv, RowInv, ConditionWithinGrants, DuplicateRowsUnused
  <1>10. CountWithinGrants'
    BY <1>1, <1>4, <1>7, <1>8 DEF QuotaInv, RowInv, CountWithinGrants
  <1>11. NotForked'
    BY <1>1, <1>4 DEF QuotaInv, FlightInv, NotForked
  <1>12. SnapGranted'
    BY <1>1, <1>2, <1>4, <1>5, <1>6 DEF QuotaInv, FlightInv, SnapGranted
  <1>13. SnapHasThrows'
    BY <1>1, <1>4, <1>6 DEF QuotaInv, FlightInv, SnapHasThrows, HasThrows
  <1> QED
    BY <1>9, <1>10, <1>11, <1>12, <1>13 DEF QuotaInv, FlightInv, RowInv

LEMMA QuotaStep == DataInv /\ QuotaInv /\ [Next]_vars => QuotaInv'
  BY MostlyHarmless, HarmlessStep, CreateKeepsQuota, ReadKeepsQuota, ForkKeepsQuota,
     ThrowKeepsQuota, ForwardKeepsQuota

-----------------------------------------------------------------------------
(***************************************************************************)
(* While nobody forwards, a row is also within its own quota.  A forward   *)
(* that read a row before others raised its condition writes the old one   *)
(* back, so with forwards only CountWithinGrants remains.                  *)
(***************************************************************************)
LEMMA OverdraftStep ==
  ASSUME Forward = {}, DataInv, QuotaInv, NeverOverdrawn, [Next]_vars
  PROVE  NeverOverdrawn'
  <1>1. CASE UNCHANGED rows
    BY <1>1 DEF NeverOverdrawn
  <1>2. ASSUME NEW r \in Req, CreateDaySubmission(r) PROVE NeverOverdrawn'
    <2> DEFINE x == [count |-> 0, cond |-> 0, tui |-> TuiWen]
    <2>1. rows' = Append(rows, x)
      BY <1>2 DEF CreateDaySubmission
    <2>2. rows \in Seq(Row) /\ x \in Row /\ x.count = 0 /\ x.cond = 0 /\ Base \in Nat
      BY CountAssumption, RowFields DEF DataInv, StoreOK
    <2> HIDE DEF x
    <2>3. /\ DOMAIN rows' = DOMAIN rows \cup {Len(rows) + 1}
          /\ rows'[Len(rows) + 1] = x
          /\ \A i \in DOMAIN rows : rows'[i] = rows[i]
      BY <2>1, <2>2
    <2> QED
      BY <2>2, <2>3 DEF NeverOverdrawn
  <1>3. ASSUME NEW p \in Publish, UpdateRank(p), ~UNCHANGED rows PROVE NeverOverdrawn'
    <2> DEFINE s == snap[p]
               new == Thrown(s, flag[p])
               row == Written(rows[1], new)
    <2>1. /\ s \in Row /\ flag[p] \in Flags /\ rows \in Seq(Row) /\ rows # <<>>
          /\ upc[p] = "update"
      BY <1>3 DEF UpdateRank, DataInv, LocalOK, StoreOK, HasRow
    <2>2. new \in Row /\ s.cond <= new.cond /\ new.count <= s.cond + Base
      BY <2>1, ThrownFits DEF QuotaInv, FlightInv, SnapHasThrows
    <2>3. rows' = [rows EXCEPT ![1] = row]
      BY <1>3 DEF UpdateRank
    <2>4. row \in Row /\ row.count = new.count /\ row.cond = new.cond
      BY <2>1, <2>2, WrittenFields
    <2> HIDE DEF s, new, row
    <2>5. s.cond \in Int /\ new.cond \in Int /\ new.count \in Int /\ Base \in Nat
      BY <2>1, <2>2, FieldTypes, CountAssumption
    <2>6. row.count <= row.cond + Base
      BY <2>2, <2>4, <2>5
    <2>7. /\ DOMAIN rows' = DOMAIN rows
          /\ \A i \in DOMAIN rows : rows'[i] = IF i = 1 THEN row ELSE rows[i]
      BY <2>1, <2>3, <2>4, FirstWrite
    <2> QED
      BY <2>6, <2>7 DEF NeverOverdrawn
  <1>4. ASSUME \A r \in Req : ~CreateDaySubmission(r), \A p \in Publish : ~UpdateRank(p)
        PROVE  UNCHANGED rows
    BY <1>4, NextIsStep DEF Step, vars, stored, BoBingKey, KeyExpires, Start, Fails,
       ExistDaySubmission, ExistRank, CreatRank, GetDaySubmission, GetKey, UnlinkKey, Decode,
       ExistQuaternion, SaveCheat, SaveQuaternion, UpdateCount, Ban, Panic, SaveRecord, Join,
       SaveZhuangYuan, SaveToTalScore, SaveDayScore, SaveRareKey, SaveDayCount
  <1> QED
    BY <1>1, <1>2, <1>3, <1>4

-----------------------------------------------------------------------------
(***************************************************************************)
(* The ban of repeated positions.  A throw with a position that was filed  *)
(* stays on the way to the ban while a filed position is among those it    *)
(* has not looked up; what is filed is never removed.                      *)
(***************************************************************************)
Unlooked == Early \ {"existQuat", "saveQuat", "ban"}

LookInv ==
    /\ looked \in [Publish -> 0 .. Dice] /\ replay \in [Publish -> BOOLEAN]
    /\ \A p \in Publish : /\ pc[p] \in Early => upc[p] = "off" /\ rpc[p] = "off"
                          /\ pc[p] \in Unlooked => looked[p] = 0 /\ ~replay[p]
                          /\ pc[p] = "existQuat" => looked[p] < Dice

ReplayInv ==
    ~Faults => \A p \in Publish : replay[p] =>
        /\ upc[p] = "off" /\ rpc[p] = "off" /\ pc[p] \in {"existQuat", "ban", "done"}
        /\ pc[p] = "existQuat" => \E i \in looked[p] + 1 .. Dice : quat[p][i] \in quats
        /\ pc[p] = "done" => blacklist \/ crashed

\* What the steps other than Decode and ExistQuaternion do to this.
Calm ==
    /\ UNCHANGED <<looked, replay, quat>> /\ quats \subseteq quats'
    /\ blacklist => blacklist'
    /\ crashed => crashed'
    /\ \A p \in Publish :
          /\ upc[p] = "off" /\ rpc[p] = "off" =>
                \/ pc[p] = "saveQuat" /\ pc'[p] = "join"
                \/ upc'[p] = "off" /\ rpc'[p] = "off"
          /\ \/ pc'[p] = pc[p]
             \/ pc[p] \in Unlooked /\ pc'[p] \in Unlooked
             \/ pc[p] \notin {"existQuat", "ban", "done"} /\ pc'[p] \notin Early
             \/ pc[p] = "saveQuat" /\ pc'[p] = "ban"
             \/ pc[p] = "ban" /\ pc'[p] = "done" /\ (Faults \/ blacklist')
             \/ pc'[p] = "done" /\ crashed'

LEMMA CalmStep == LookInv /\ ReplayInv /\ Calm => LookInv' /\ ReplayInv'
  <1> SUFFICES ASSUME LookInv, ReplayInv, Calm PROVE LookInv' /\ ReplayInv'
    OBVIOUS
  <1>1. LookInv'
    BY DEF LookInv, Calm, Unlooked, Early, Opening
  <1>2. ASSUME ~Faults, NEW p \in Publish, replay'[p]
        PROVE  /\ upc'[p] = "off" /\ rpc'[p] = "off" /\ pc'[p] \in {"existQuat", "ban", "done"}
               /\ pc'[p] = "existQuat" => \E i \in looked'[p] + 1 .. Dice : quat'[p][i] \in quats'
               /\ pc'[p] = "done" => blacklist' \/ crashed'
    <2>1. /\ upc[p] = "off" /\ rpc[p] = "off" /\ pc[p] \in {"existQuat", "ban", "done"}
          /\ pc[p] = "existQuat" => \E i \in looked[p] + 1 .. Dice : quat[p][i] \in quats
          /\ pc[p] = "done" => blacklist \/ crashed
      BY <1>2 DEF Calm, ReplayInv
    <2>2. UNCHANGED <<looked, quat>> /\ quats \subseteq quats'
      BY DEF Calm
    <2>3. /\ upc'[p] = "off" /\ rpc'[p] = "off"
          /\ \/ pc'[p] = pc[p]
             \/ pc'[p] = "done" /\ (blacklist' \/ crashed')
      BY <1>2, <2>1 DEF Calm, LookInv, Unlooked
    <2>4. (blacklist => blacklist') /\ (crashed => crashed')
      BY DEF Calm
    <2> QED
      BY <2>1, <2>2, <2>3, <2>4
  <1> QED
    BY <1>1, <1>2 DEF ReplayInv

LEMMA MostlyCalm ==
  ASSUME DataInv, LookInv, [Next]_vars,
         \A p \in Keyed : ~Decode(p), \A p \in Publish : ~ExistQuaternion(p)
  PROVE  Calm
  <1> USE KindAssumption DEF Calm, DataInv, StoreOK, LocalOK, LookInv, Unlooked, Early, Opening, stored,
          redis, input, local, threads, ghost
  <1>0. CASE UNCHANGED vars
    BY <1>0 DEF vars
  <1>1. CASE BoBingKey \/ KeyExpires
    BY <1>1 DEF BoBingKey, KeyExpires
  <1>2. ASSUME NEW r \in Req, Start(r) PROVE Calm
    BY <1>2 DEF Start
  <1>3. ASSUME NEW r \in Req, Fails(r) PROVE Calm
    BY <1>3 DEF Fails
  <1>4. ASSUME NEW r \in Req, ExistDaySubmission(r) PROVE Calm
    BY <1>4 DEF ExistDaySubmission
  <1>5. ASSUME NEW r \in Req, ExistRank(r) PROVE Calm
    BY <1>5 DEF ExistRank
  <1>6. ASSUME NEW r \in Req, CreatRank(r) PROVE Calm
    BY <1>6 DEF CreatRank
  <1>7. ASSUME NEW r \in Req, CreateDaySubmission(r) PROVE Calm
    BY <1>7 DEF CreateDaySubmission
  <1>8. ASSUME NEW r \in Req, GetDaySubmission(r) PROVE Calm
    <2>1. /\ pc[r] = "read" /\ UNCHANGED <<redis, input, fetched, threads, ghost>>
          /\ \E x \in PC : /\ pc' = [pc EXCEPT ![r] = x]
                           /\ r \in Publish => x \in {"getKey", "done"}
      BY <1>8 DEF GetDaySubmission, Placed
    <2> QED
      BY <2>1
  <1>9. ASSUME NEW p \in Keyed, GetKey(p) PROVE Calm
    BY <1>9 DEF GetKey
  <1>10. ASSUME NEW p \in Keyed, UnlinkKey(p) PROVE Calm
    BY <1>10 DEF UnlinkKey
  <1>11. ASSUME NEW p \in Publish, SaveCheat(p) PROVE Calm
    BY <1>11 DEF SaveCheat, SaveBlacklist
  <1>12. ASSUME NEW p \in Publish, SaveQuaternion(p) PROVE Calm
    <2>1. UNCHANGED <<looked, replay, quat, blacklist, crashed>> /\ quats \subseteq quats'
      BY <1>12 DEF SaveQuaternion
    <2>2. PICK x \in {"join", "done", "ban"} :
              pc' = [pc EXCEPT ![p] = x] /\ (x # "join" => UNCHANGED <<upc, rpc>>)
      BY <1>12 DEF SaveQuaternion
    <2>3. pc[p] = "saveQuat" /\ \A q \in Publish \ {p} : upc'[q] = upc[q] /\ rpc'[q] = rpc[q]
      BY <1>12 DEF SaveQuaternion
    <2>4. \A q \in Publish : pc'[q] = IF q = p THEN x ELSE pc[q]
      BY <2>2
    <2> QED
      BY ONLY <2>1, <2>2, <2>3, <2>4 DEF Calm, Unlooked, Early, Opening
  <1>13. ASSUME NEW p \in Publish, UpdateRank(p) PROVE Calm
    BY <1>13 DEF UpdateRank
  <1>14. ASSUME NEW p \in Publish, UpdateCount(p) PROVE Calm
    BY <1>14 DEF UpdateCount
  <1>15. ASSUME NEW p \in Publish, Ban(p) PROVE Calm
    BY <1>15 DEF Ban
  <1>16. ASSUME NEW p \in Publish, Panic(p) PROVE Calm
    BY <1>16 DEF Panic
  <1>17. ASSUME NEW p \in Publish, SaveRecord(p) PROVE Calm
    BY <1>17 DEF SaveRecord
  <1>18. ASSUME NEW p \in Publish, Join(p) PROVE Calm
    BY <1>18 DEF Join
  <1>19. ASSUME NEW p \in Publish, SaveZhuangYuan(p) PROVE Calm
    BY <1>19 DEF SaveZhuangYuan
  <1>20. ASSUME NEW p \in Publish, SaveToTalScore(p) PROVE Calm
    BY <1>20 DEF SaveToTalScore
  <1>21. ASSUME NEW p \in Publish, SaveDayScore(p) PROVE Calm
    BY <1>21 DEF SaveDayScore
  <1>22. ASSUME NEW p \in Publish, SaveRareKey(p) PROVE Calm
    BY <1>22 DEF SaveRareKey
  <1>23. ASSUME NEW f \in Forward, UpdateSubmission(f) PROVE Calm
    BY <1>23 DEF UpdateSubmission
  <1>24. ASSUME NEW r \in Forward \cup Query, SaveDayCount(r) PROVE Calm
    BY <1>24 DEF SaveDayCount, SaveBlacklist
  <1> QED
    BY NextIsStep, <1>0, <1>1, <1>2, <1>3, <1>4, <1>5, <1>6, <1>7, <1>8, <1>9, <1>10, <1>11,
       <1>12, <1>13, <1>14, <1>15, <1>16, <1>17, <1>18, <1>19, <1>20, <1>21, <1>22, <1>23,
       <1>24 DEF Step

\* Decoding notices what is filed; a look-up finds it or leaves it among the rest.
LEMMA DecodeNotices ==
  ASSUME DataInv, LookInv, ReplayInv, NEW p \in Keyed, Decode(p) PROVE LookInv' /\ ReplayInv'
  <1>0. /\ pc \in [Req -> PC] /\ pc[p] = "decode" /\ Dice \in Nat /\ Dice > 0
        /\ UNCHANGED <<quats, blacklist, crashed, quat, upc, rpc, looked>>
    BY DiceAssumption DEF DataInv, LocalOK, Decode, redis, input, threads
  <1>1. PICK x \in {"existQuat", "ban", "done"} :
            pc' = [pc EXCEPT ![p] = x] /\ (p \in Publish /\ x # "existQuat" => replay' = replay)
    BY DEF Decode
  <1>2. CASE p \notin Publish
    <2>1. replay' = replay /\ \A q \in Publish : pc'[q] = pc[q]
      BY <1>0, <1>1, <1>2 DEF Decode
    <2> QED
      BY <1>0, <2>1 DEF LookInv, ReplayInv
  <1>3. CASE p \in Publish
    <2>1. /\ looked[p] = 0 /\ ~replay[p] /\ upc[p] = "off" /\ rpc[p] = "off"
          /\ looked \in [Publish -> 0 .. Dice] /\ replay \in [Publish -> BOOLEAN]
      BY <1>0, <1>3 DEF LookInv, Unlooked, Early, Opening
    <2>2. /\ x # "existQuat" => replay' = replay
          /\ x = "existQuat" =>
                replay' = [replay EXCEPT ![p] = \E i \in 1 .. Dice : quat[p][i] \in quats]
      BY <1>0, <1>1, <1>3, KindAssumption DEF Decode
    <2>3. \A q \in Publish : q # p => pc'[q] = pc[q] /\ replay'[q] = replay[q]
      BY <1>0, <1>1, <2>1, <2>2
    <2>4. /\ pc'[p] = x /\ replay' \in [Publish -> BOOLEAN]
          /\ replay'[p] => x = "existQuat" /\ \E i \in 1 .. Dice : quat[p][i] \in quats
      BY <1>0, <1>1, <1>3, <2>1, <2>2
    <2>5. LookInv'
      BY <1>0, <2>1, <2>3, <2>4 DEF LookInv, Unlooked, Early, Opening
    <2>6. ReplayInv'
      BY <1>0, <2>1, <2>3, <2>4 DEF ReplayInv
    <2> QED
      BY <2>5, <2>6
  <1> QED
    BY <1>2, <1>3

LEMMA LookKeeps ==
  ASSUME DataInv, LookInv, ReplayInv, NEW p \in Publish, ExistQuaternion(p)
  PROVE  LookInv' /\ ReplayInv'
  <1>0. /\ pc \in [Req -> PC] /\ pc[p] = "existQuat" /\ Dice \in Nat
        /\ UNCHANGED <<quats, blacklist, crashed, quat, upc, rpc, replay>>
        /\ looked \in [Publish -> 0 .. Dice] /\ looked[p] < Dice
        /\ upc[p] = "off" /\ rpc[p] = "off"
    BY DiceAssumption
       DEF DataInv, LocalOK, ExistQuaternion, redis, input, threads, ghost, LookInv, Early, Opening
  <1>1. PICK x \in {"existQuat", "saveQuat", "ban"} : pc' = [pc EXCEPT ![p] = x]
    BY DEF ExistQuaternion
  <1>2. \/ x = "ban" /\ looked' = looked
        \/ /\ looked' = [looked EXCEPT ![p] = looked[p] + 1]
           /\ quat[p][looked[p] + 1] \notin quats \/ Faults
           /\ x = IF looked[p] + 1 < Dice THEN "existQuat" ELSE "saveQuat"
    BY <1>0, <1>1 DEF ExistQuaternion
  <1>3. /\ looked' \in [Publish -> 0 .. Dice] /\ pc'[p] = x
        /\ \A q \in Publish : q # p => pc'[q] = pc[q] /\ looked'[q] = looked[q]
        /\ x = "existQuat" => looked'[p] < Dice
    BY <1>0, <1>1, <1>2
  <1>4. LookInv'
    BY <1>0, <1>3 DEF LookInv, Unlooked, Early, Opening
  <1>5. ASSUME ~Faults, replay[p]
        PROVE  /\ x \in {"existQuat", "ban"}
               /\ x = "existQuat" => \E i \in looked'[p] + 1 .. Dice : quat[p][i] \in quats
    <2>1. PICK i \in looked[p] + 1 .. Dice : quat[p][i] \in quats
      BY <1>0, <1>5 DEF ReplayInv
    <2>2. CASE x # "ban"
      <3>1. /\ looked'[p] = looked[p] + 1 /\ i # looked[p] + 1
            /\ looked[p] \in Nat /\ i \in Int /\ i >= looked[p] + 1 /\ i <= Dice
        BY <1>0, <1>2, <1>5, <2>1, <2>2
      <3>2. i \in looked'[p] + 1 .. Dice /\ looked[p] + 1 < Dice
        BY <1>0, <3>1
      <3> QED
        BY <1>2, <2>1, <2>2, <3>2
    <2> QED
      BY <2>2
  <1>6. ReplayInv'
    BY <1>0, <1>3, <1>5 DEF ReplayInv
  <1> QED
    BY <1>4, <1>6

LEMMA LookStep == DataInv /\ LookInv /\ ReplayInv /\ [Next]_vars => LookInv' /\ ReplayInv'
  BY MostlyCalm, CalmStep, DecodeNotices, LookKeeps

-----------------------------------------------------------------------------
(***************************************************************************)
(* Sums over finite sets: what SumFunctionOnSet of the community modules   *)
(* computes, by induction over the subsets of a finite set.                *)
(***************************************************************************)
LEMMA LeastNumber ==
    ASSUME NEW S, S \subseteq Nat, S # {}
    PROVE  \E m \in S : \A n \in S : m <= n
  <1> DEFINE R == {p \in Nat \X Nat : p[1] < p[2]}
  <1>1. IsWellFoundedOn(R, Nat)
    BY NatLessThanWellFounded DEF OpToRel
  <1>2. PICK m \in S : \A n \in S : ~(<<n, m>> \in R)
    <2> HIDE DEF R
    <2> QED
      BY <1>1, WFMin
  <1>3. ASSUME NEW n \in S PROVE m <= n
    <2>1. m \in Nat /\ n \in Nat /\ ~(<<n, m>> \in R)
      BY <1>2
    <2>2. n < m => <<n, m>> \in R
      BY <2>1
    <2> HIDE DEF R
    <2> QED
      BY <2>1, <2>2
  <1> QED
    BY <1>3

\* Induction over the subsets of a finite set.
LEMMA SubsetInduction ==
    ASSUME NEW S, IsFiniteSet(S), NEW T,
           \A A \in SUBSET S : (\A x \in A : A \ {x} \in T) => A \in T
    PROVE  \A A \in SUBSET S : A \in T
  <1> DEFINE bad == {A \in SUBSET S : A \notin T}
             sizes == {Cardinality(A) : A \in bad}
  <1> SUFFICES ASSUME bad # {} PROVE FALSE
    OBVIOUS
  <1>1. \A A \in SUBSET S : IsFiniteSet(A) /\ Cardinality(A) \in Nat
    BY FS_Subset, FS_CardinalityType
  <1>2. PICK m \in sizes : \A n \in sizes : m <= n
    <2>1. sizes \subseteq Nat /\ sizes # {}
      BY <1>1
    <2> HIDE DEF sizes
    <2> QED
      BY <2>1, LeastNumber
  <1>3. PICK A \in bad : m = Cardinality(A)
    BY <1>2
  <1>4. PICK x \in A : A \ {x} \notin T
    BY <1>3
  <1>5. Cardinality(A \ {x}) = Cardinality(A) - 1
    BY <1>1, <1>3, FS_RemoveElement
  <1>6. Cardinality(A \ {x}) \in sizes
    BY <1>3, <1>4
  <1>7. m <= Cardinality(A \ {x}) /\ m \in Nat
    BY <1>1, <1>2, <1>3, <1>6
  <1> QED
    BY <1>3, <1>5, <1>7

-----------------------------------------------------------------------------
\* What SumFunctionOnSet computes: g is the sum of f over the sets of D.
IsSum(g, f, D) ==
    g = [A \in D |-> IF A = {} THEN 0
                     ELSE LET x == CHOOSE y \in A : TRUE IN f[x] + g[A \ {x}]]

LEMMA SumIsChosen ==
    ASSUME NEW f, NEW S
    PROVE  SumFunctionOnSet(f, S) = (CHOOSE g : IsSum(g, f, SUBSET S))[S]
  BY DEF SumFunctionOnSet, FoldFunctionOnSet, MapThenFoldSet, IsSum

LEMMA SumExists ==
    ASSUME NEW S, IsFiniteSet(S), NEW f, \A x \in S : f[x] \in Int
    PROVE  \E g \in [SUBSET S -> Int] : IsSum(g, f, SUBSET S)
  <1> DEFINE Small(k) == {A \in SUBSET S : Cardinality(A) <= k}
             bad == {k \in Nat : ~ \E g \in [Small(k) -> Int] : IsSum(g, f, Small(k))}
  <1>1. \A A \in SUBSET S : IsFiniteSet(A) /\ Cardinality(A) \in Nat
    BY FS_Subset, FS_CardinalityType
  <1>2. \A k \in Nat : k \notin bad
    <2> SUFFICES ASSUME bad # {} PROVE FALSE
      OBVIOUS
    <2>1. PICK k \in bad : \A n \in bad : k <= n
      <3>1. bad \subseteq Nat
        OBVIOUS
      <3> HIDE DEF bad
      <3> QED
        BY <3>1, LeastNumber
    <2>2. k # 0
      <3>1. SUFFICES ASSUME k = 0 PROVE FALSE
        OBVIOUS
      <3> DEFINE g == [A \in Small(0) |-> 0]
      <3>2. \A A \in Small(0) : A = {}
        BY <1>1, FS_EmptySet
      <3>3. g \in [Small(0) -> Int] /\ IsSum(g, f, Small(0))
        BY <3>2 DEF IsSum
      <3> QED
        BY <3>1, <3>3
    <2>3. PICK g \in [Small(k - 1) -> Int] : IsSum(g, f, Small(k - 1))
      <3>1. k - 1 \in Nat /\ ~(k <= k - 1)
        BY <2>2
      <3>2. k - 1 \notin bad
        BY <2>1, <3>1
      <3> QED
        BY <3>1, <3>2
    <2> DEFINE Next0(h, A) == IF A = {} THEN 0
                              ELSE LET x == CHOOSE y \in A : TRUE IN f[x] + h[A \ {x}]
               h == [A \in Small(k) |-> Next0(g, A)]
    <2>4. ASSUME NEW A \in Small(k), A # {}, NEW x \in A PROVE A \ {x} \in Small(k - 1)
      <3>1. Cardinality(A \ {x}) = Cardinality(A) - 1 /\ Cardinality(A) <= k
        BY <1>1, FS_RemoveElement
      <3>2. Cardinality(A) \in Nat /\ k \in Nat
        BY <1>1
      <3>3. Cardinality(A \ {x}) <= k - 1
        BY <3>1, <3>2
      <3> QED
        BY <3>3
    <2>5. \A A \in Small(k) : Next0(g, A) \in Int
      <3> SUFFICES ASSUME NEW A \in Small(k), A # {} PROVE Next0(g, A) \in Int
        OBVIOUS
      <3> DEFINE x == CHOOSE y \in A : TRUE
      <3>1. x \in A
        OBVIOUS
      <3>2. A \ {x} \in Small(k - 1) /\ f[x] \in Int
        BY <2>4, <3>1
      <3>3. g[A \ {x}] \in Int
        BY <3>2
      <3> HIDE DEF x
      <3>4. f[x] + g[A \ {x}] \in Int
        BY <3>2, <3>3
      <3> QED
        BY <3>4 DEF x
    <2>6. h \in [Small(k) -> Int]
      BY <2>5
    <2>7. \A A \in Small(k - 1) : A \in Small(k) /\ h[A] = g[A]
      <3> SUFFICES ASSUME NEW A \in Small(k - 1) PROVE A \in Small(k) /\ h[A] = g[A]
        OBVIOUS
      <3>1. Cardinality(A) \in Nat /\ k \in Nat /\ Cardinality(A) <= k - 1
        BY <1>1
      <3>2. Cardinality(A) <= k
        BY <3>1
      <3>3. A \in Small(k)
        BY <3>2
      <3>4. g[A] = Next0(g, A)
        BY <2>3 DEF IsSum
      <3> QED
        BY <3>3, <3>4
    <2>8. \A A \in Small(k) : Next0(g, A) = Next0(h, A)
      <3> SUFFICES ASSUME NEW A \in Small(k), A # {} PROVE Next0(g, A) = Next0(h, A)
        OBVIOUS
      <3> DEFINE x == CHOOSE y \in A : TRUE
      <3>1. x \in A
        OBVIOUS
      <3>2. h[A \ {x}] = g[A \ {x}]
        BY <2>4, <2>7, <3>1
      <3> QED
        BY <3>2
    <2>9. h = [A \in Small(k) |-> Next0(h, A)]
      BY <2>8
    <2>10. IsSum(h, f, Small(k))
      <3> HIDE DEF h, Small
      <3> QED
        BY <2>9 DEF IsSum
    <2> QED
      BY <2>1, <2>6, <2>10
  <1>3. SUBSET S = Small(Cardinality(S))
    BY <1>1, FS_Subset
  <1>4. Cardinality(S) \in Nat
    BY <1>1
  <1> HIDE DEF Small
  <1> QED
    BY <1>2, <1>3, <1>4

\* Over the subsets of S the sums are those of SumFunctionOnSet.
LEMMA SumUnique ==
    ASSUME NEW S, IsFiniteSet(S), NEW f, NEW D, NEW E, NEW g, NEW h,
           SUBSET S \subseteq D, SUBSET S \subseteq E, IsSum(g, f, D), IsSum(h, f, E)
    PROVE  g[S] = h[S]
  <1> DEFINE T == {A \in SUBSET S : g[A] = h[A]}
  <1>1. ASSUME NEW A \in SUBSET S, \A x \in A : A \ {x} \in T PROVE A \in T
    <2> DEFINE x == CHOOSE y \in A : TRUE
    <2>1. A # {} => g[A \ {x}] = h[A \ {x}]
      BY <1>1
    <2>2. /\ g[A] = IF A = {} THEN 0 ELSE f[x] + g[A \ {x}]
          /\ h[A] = IF A = {} THEN 0 ELSE f[x] + h[A \ {x}]
      <3> HIDE DEF T
      <3> QED
        BY DEF IsSum
    <2> QED
      BY <2>1, <2>2
  <1>2. S \in T
    <2>1. \A A \in SUBSET S : (\A x \in A : A \ {x} \in T) => A \in T
      BY <1>1
    <2> HIDE DEF T
    <2>2. \A A \in SUBSET S : A \in T
      BY <2>1, SubsetInduction, Zenon
    <2> QED
      BY <2>2
  <1> QED
    BY <1>2

LEMMA SumUnfold ==
    ASSUME NEW S, IsFiniteSet(S), NEW f, \A x \in S : f[x] \in Int
    PROVE  /\ SumFunctionOnSet(f, S) \in Int
           /\ S = {} => SumFunctionOnSet(f, S) = 0
           /\ S # {} => \E x \in S : /\ x = CHOOSE y \in S : TRUE
                                     /\ SumFunctionOnSet(f, S) =
                                            f[x] + SumFunctionOnSet(f, S \ {x})
  <1>1. PICK g \in [SUBSET S -> Int] : IsSum(g, f, SUBSET S)
    BY SumExists
  <1>2. ASSUME NEW A \in SUBSET S PROVE SumFunctionOnSet(f, A) = g[A]
    <2>1. IsFiniteSet(A) /\ \A x \in A : f[x] \in Int
      BY FS_Subset
    <2>2. \E h : IsSum(h, f, SUBSET A)
      BY <2>1, SumExists
    <2>3. PICK h : h = (CHOOSE i : IsSum(i, f, SUBSET A)) /\ IsSum(h, f, SUBSET A)
      BY <2>2
    <2>4. h[A] = g[A]
      BY <1>1, <2>1, <2>3, SumUnique
    <2> QED
      BY <2>3, <2>4, SumIsChosen
  <1>3. g[S] = IF S = {} THEN 0 ELSE LET x == CHOOSE y \in S : TRUE IN f[x] + g[S \ {x}]
    BY <1>1 DEF IsSum
  <1>4. SumFunctionOnSet(f, S) = g[S] /\ g[S] \in Int
    BY <1>1, <1>2
  <1>5. CASE S # {}
    <2> DEFINE x == CHOOSE y \in S : TRUE
    <2>1. x \in S /\ g[S] = f[x] + g[S \ {x}]
      BY <1>3, <1>5
    <2>2. g[S \ {x}] = SumFunctionOnSet(f, S \ {x})
      BY <1>2
    <2> HIDE DEF x
    <2> QED
      BY <1>4, <1>5, <2>1, <2>2 DEF x
  <1> QED
    BY <1>3, <1>4, <1>5

\* The order in which the elements are taken makes no difference.
LEMMA SumRemove ==
    ASSUME NEW S, IsFiniteSet(S), NEW f, \A x \in S : f[x] \in Int, NEW z \in S
    PROVE  SumFunctionOnSet(f, S) = f[z] + SumFunctionOnSet(f, S \ {z})
  <1> DEFINE sum(A) == SumFunctionOnSet(f, A)
             T == {A \in SUBSET S : \A x \in A : sum(A) = f[x] + sum(A \ {x})}
  <1>1. \A A \in SUBSET S : IsFiniteSet(A) /\ sum(A) \in Int
    BY FS_Subset, SumUnfold
  <1>2. ASSUME NEW A \in SUBSET S, \A x \in A : A \ {x} \in T, NEW x \in A
        PROVE  sum(A) = f[x] + sum(A \ {x})
    <2>1. PICK c \in A : sum(A) = f[c] + sum(A \ {c})
      BY <1>1, SumUnfold
    <2>2. CASE x # c
      <3>1. /\ sum(A \ {c}) = f[x] + sum((A \ {c}) \ {x})
            /\ sum(A \ {x}) = f[c] + sum((A \ {x}) \ {c})
        BY <1>2, <2>2
      <3>2. (A \ {c}) \ {x} = (A \ {x}) \ {c}
        OBVIOUS
      <3>3. f[c] \in Int /\ f[x] \in Int /\ sum((A \ {x}) \ {c}) \in Int
        BY <1>1
      <3> HIDE DEF sum
      <3>4. sum((A \ {c}) \ {x}) = sum((A \ {x}) \ {c})
        BY <3>2
      <3> QED
        BY <2>1, <3>1, <3>3, <3>4
    <2> QED
      BY <2>1, <2>2
  <1>3. S \in T
    <2>1. \A A \in SUBSET S : (\A x \in A : A \ {x} \in T) => A \in T
      BY <1>2
    <2> HIDE DEF T
    <2>2. \A A \in SUBSET S : A \in T
      BY <2>1, SubsetInduction, Zenon
    <2> QED
      BY <2>2
  <1> QED
    BY <1>3

\* A sum depends on the values over its set only.
LEMMA SumSame ==
    ASSUME NEW S, IsFiniteSet(S), NEW f, NEW g, \A x \in S : f[x] \in Int /\ f[x] = g[x]
    PROVE  SumFunctionOnSet(f, S) = SumFunctionOnSet(g, S)
  <1> DEFINE T == {A \in SUBSET S : SumFunctionOnSet(f, A) = SumFunctionOnSet(g, A)}
  <1>1. ASSUME NEW A \in SUBSET S, \A x \in A : A \ {x} \in T PROVE A \in T
    <2>1. IsFiniteSet(A) /\ \A x \in A : f[x] \in Int /\ g[x] \in Int /\ f[x] = g[x]
      BY FS_Subset
    <2>2. CASE A = {}
      BY <2>1, <2>2, SumUnfold
    <2>3. CASE A # {}
      <3>1. PICK x \in A : TRUE
        BY <2>3
      <3>2. /\ SumFunctionOnSet(f, A) = f[x] + SumFunctionOnSet(f, A \ {x})
            /\ SumFunctionOnSet(g, A) = g[x] + SumFunctionOnSet(g, A \ {x})
        BY <2>1, SumRemove
      <3> QED
        BY <1>1, <2>1, <3>2
    <2> QED
      BY <2>2, <2>3
  <1>2. S \in T
    <2>1. \A A \in SUBSET S : (\A x \in A : A \ {x} \in T) => A \in T
      BY <1>1
    <2> HIDE DEF T
    <2>2. \A A \in SUBSET S : A \in T
      BY <2>1, SubsetInduction, Zenon
    <2> QED
      BY <2>2
  <1> QED
    BY <1>2

LEMMA SumAdd ==
    ASSUME NEW S, IsFiniteSet(S), NEW f, NEW z, z \notin S,
           \A x \in S \cup {z} : f[x] \in Int
    PROVE  SumFunctionOnSet(f, S \cup {z}) = SumFunctionOnSet(f, S) + f[z]
  <1>1. IsFiniteSet(S \cup {z}) /\ (S \cup {z}) \ {z} = S
    BY FS_AddElement
  <1>2. SumFunctionOnSet(f, S \cup {z}) = f[z] + SumFunctionOnSet(f, S)
    BY <1>1, SumRemove
  <1>3. SumFunctionOnSet(f, S) \in Int /\ f[z] \in Int
    BY SumUnfold
  <1> QED
    BY <1>2, <1>3

\* A larger set has the larger sum where no value is negative.
LEMMA SumGrows ==
    ASSUME NEW S, IsFiniteSet(S), NEW f, \A x \in S : f[x] \in Nat, NEW R \in SUBSET S
    PROVE  SumFunctionOnSet(f, R) <= SumFunctionOnSet(f, S)
  <1> DEFINE sum(A) == SumFunctionOnSet(f, A)
             T == {A \in SUBSET S : R \subseteq A => sum(R) <= sum(A)}
  <1>1. \A A \in SUBSET S : IsFiniteSet(A) /\ sum(A) \in Int
    <2>1. \A x \in S : f[x] \in Int
      OBVIOUS
    <2> QED
      BY <2>1, FS_Subset, SumUnfold
  <1>2. ASSUME NEW A \in SUBSET S, \A x \in A : A \ {x} \in T, R \subseteq A, R # A
        PROVE  sum(R) <= sum(A)
    <2>1. PICK x \in A : x \notin R
      BY <1>2
    <2>2. sum(R) <= sum(A \ {x})
      BY <1>2, <2>1
    <2>3. sum(A) = f[x] + sum(A \ {x}) /\ f[x] \in Nat
      <3>1. \A y \in A : f[y] \in Int
        OBVIOUS
      <3> QED
        BY <1>1, <3>1, SumRemove
    <2>4. sum(R) \in Int /\ sum(A \ {x}) \in Int
      BY <1>1
    <2> HIDE DEF sum
    <2> QED
      BY <2>2, <2>3, <2>4
  <1>3. S \in T
    <2>1. \A A \in SUBSET S : (\A x \in A : A \ {x} \in T) => A \in T
      BY <1>1, <1>2
    <2> HIDE DEF T
    <2>2. \A A \in SUBSET S : A \in T
      BY <2>1, SubsetInduction, Zenon
    <2> QED
      BY <2>2
  <1> QED
    BY <1>3

-----------------------------------------------------------------------------
(***************************************************************************)
(* The scores.  Every stored score is the worth of the publishes that are  *)
(* past the step that adds to it.  Where no store call fails and the       *)
(* process lives, how far a publish and its goroutines are decides which   *)
(* steps these are.                                                        *)
(***************************************************************************)
Late == {"join", "zhuangYuan", "total", "day", "rareKey"}

\* Publishes past UpdateRank, SaveRecord; joined without an error, and then past
\* SaveZhuangYuan, SaveToTalScore, SaveDayScore.
Updated == {p \in Publish : upc[p] \notin {"off", "update"}}
Recorded == {p \in Publish : rpc[p] = "done"}
Passed == {p \in Publish : upc[p] = "done" /\ rpc[p] = "done" /\ err[p] = "nil"}
Starred == {p \in Passed : flag[p] >= 10 /\ pc[p] \in {"total", "day", "rareKey", "done"}}
Totalled == {p \in Passed : pc[p] \in {"day", "rareKey", "done"}}
Dayed == {p \in Passed : pc[p] \in {"rareKey", "done"}}

\* The goroutines run while the publish waits for them; a publish that goes on or is served
\* has joined them or never started them.
StageInv ==
    \A p \in Publish :
        /\ pc[p] \in Early \cup Late \cup {"done"}
        /\ upc[p] = "off" <=> rpc[p] = "off"
        /\ pc[p] \in Early => upc[p] = "off"
        /\ pc[p] \in Late => upc[p] # "off"
        /\ pc[p] \in Late \ {"join"} => p \in Passed
        /\ pc[p] = "zhuangYuan" => flag[p] >= 10
        /\ pc[p] = "done" => upc[p] = "off" \/ (upc[p] = "done" /\ rpc[p] = "done")

Scores == [p \in Publish |-> ScoreOf(flag[p])]
Worth(A) == SumFunctionOnSet(Scores, A)
RareIn(s) == {i \in DOMAIN s : s[i] >= 10}
RareRecorded == {p \in Recorded : flag[p] >= 10}

LedgerInv ==
    /\ score = Worth(Updated) /\ RecordedScore = Worth(Recorded)
    /\ total = Worth(Totalled) /\ day = Worth(Dayed)
    /\ tianxuan = Cardinality(Starred)
    /\ Cardinality(RareIn(records)) = Cardinality(RareRecorded)

ScoreInv == ~Faults /\ ~crashed => StageInv /\ LedgerInv

\* The worth of a set of publishes.
LEMMA WorthType ==
  ASSUME flag \in [Publish -> Flags], NEW A \in SUBSET Publish
  PROVE  /\ IsFiniteSet(A) /\ Worth(A) \in Int /\ (A = {} => Worth(A) = 0)
         /\ \A p \in Publish : Scores[p] \in Nat /\ Scores[p] = ScoreOf(flag[p])
  <1>1. IsFiniteSet(A)
    BY PublishAssumption, FS_Subset
  <1>2. \A p \in Publish : Scores[p] \in Nat /\ Scores[p] = ScoreOf(flag[p])
    BY ScoreType DEF Scores
  <1>3. \A p \in A : Scores[p] \in Int
    BY <1>2
  <1> QED
    BY <1>1, <1>2, <1>3, SumUnfold DEF Worth

LEMMA WorthAdds ==
  ASSUME flag \in [Publish -> Flags], NEW A \in SUBSET Publish, NEW p \in Publish, p \notin A
  PROVE  Worth(A \cup {p}) = Worth(A) + ScoreOf(flag[p])
  <1>1. IsFiniteSet(A) /\ \A q \in A \cup {p} : Scores[q] \in Int
    BY WorthType
  <1>2. Scores[p] = ScoreOf(flag[p])
    BY WorthType
  <1>3. SumFunctionOnSet(Scores, A \cup {p}) = SumFunctionOnSet(Scores, A) + Scores[p]
    BY <1>1, SumAdd, Zenon
  <1> QED
    BY <1>2, <1>3 DEF Worth

LEMMA WorthGrows ==
  ASSUME flag \in [Publish -> Flags], NEW A \in SUBSET Publish, NEW B \in SUBSET A
  PROVE  Worth(B) <= Worth(A)
  <1>1. IsFiniteSet(A) /\ \A q \in A : Scores[q] \in Nat
    BY WorthType
  <1> QED
    BY <1>1, SumGrows DEF Worth

LEMMA CountAdds ==
  ASSUME NEW A \in SUBSET Publish, NEW p \in Publish, p \notin A
  PROVE  Cardinality(A \cup {p}) = Cardinality(A) + 1
  BY PublishAssumption, FS_Subset, FS_AddElement

\* SaveRecord appends one record.
LEMMA RecordAppended ==
  ASSUME NEW q \in Seq(Flags), NEW f \in Flags, NEW w, w = Append(q, f)
  PROVE  /\ SumFunction([i \in DOMAIN w |-> ScoreOf(w[i])]) =
               SumFunction([i \in DOMAIN q |-> ScoreOf(q[i])]) + ScoreOf(f)
         /\ Cardinality(RareIn(w)) = Cardinality(RareIn(q)) + (IF f >= 10 THEN 1 ELSE 0)
  <1> DEFINE n == Len(q)
             v == [i \in DOMAIN w |-> ScoreOf(w[i])]
             u == [i \in DOMAIN q |-> ScoreOf(q[i])]
  <1>1. /\ n \in Nat /\ DOMAIN q = 1 .. n /\ DOMAIN w = 1 .. n + 1
        /\ w[n + 1] = f /\ \A i \in 1 .. n : w[i] = q[i] /\ q[i] \in Flags
    OBVIOUS
  <1>2. /\ IsFiniteSet(1 .. n) /\ n + 1 \notin 1 .. n /\ 1 .. n + 1 = (1 .. n) \cup {n + 1}
    <2> HIDE DEF n
    <2>1. n \in Int /\ 1 \in Int
      BY <1>1
    <2>2. IsFiniteSet(1 .. n)
      BY <2>1, FS_Interval
    <2> QED
      BY <1>1, <2>2
  <1>3. /\ \A i \in 1 .. n : u[i] = v[i] /\ u[i] \in Int /\ v[i] \in Int
        /\ v[n + 1] = ScoreOf(f) /\ v[n + 1] \in Int /\ DOMAIN u = 1 .. n
        /\ DOMAIN v = (1 .. n) \cup {n + 1}
    <2>1. \A g \in Flags : ScoreOf(g) \in Int
      BY ScoreType
    <2>2. \A i \in 1 .. n : w[i] = q[i] /\ q[i] \in Flags /\ i \in DOMAIN w /\ i \in DOMAIN q
      BY <1>1, <1>2
    <2>3. n + 1 \in DOMAIN w /\ w[n + 1] = f
      BY <1>1, <1>2
    <2> QED
      BY <1>1, <1>2, <2>1, <2>2, <2>3
  <1>4. SumFunction(v) = SumFunction(u) + ScoreOf(f)
    <2> HIDE DEF u, v, n
    <2>0. \A i \in (1 .. n) \cup {n + 1} : v[i] \in Int
      BY <1>3
    <2>1. SumFunctionOnSet(v, (1 .. n) \cup {n + 1}) = SumFunctionOnSet(v, 1 .. n) + v[n + 1]
      <3> DEFINE S == 1 .. n
                 z == n + 1
      <3>1. IsFiniteSet(S) /\ z \notin S /\ \A i \in S \cup {z} : v[i] \in Int
        BY <1>2, <2>0
      <3> HIDE DEF S, z
      <3>2. SumFunctionOnSet(v, S \cup {z}) = SumFunctionOnSet(v, S) + v[z]
        BY <3>1, SumAdd, Zenon
      <3> QED
        BY <3>2 DEF S, z
    <2>2. SumFunctionOnSet(u, 1 .. n) = SumFunctionOnSet(v, 1 .. n)
      BY <1>2, <1>3, SumSame, ZenonT(40)
    <2> QED
      BY <1>3, <2>1, <2>2 DEF SumFunction
  <1>5. Cardinality(RareIn(w)) = Cardinality(RareIn(q)) + (IF f >= 10 THEN 1 ELSE 0)
    <2>1. RareIn(q) = {i \in 1 .. n : w[i] >= 10}
      BY <1>1 DEF RareIn
    <2>2. RareIn(w) = IF f >= 10 THEN RareIn(q) \cup {n + 1} ELSE RareIn(q)
      <3> HIDE DEF n
      <3> QED
        BY <1>1, <1>2, <2>1 DEF RareIn
    <2>3. IsFiniteSet(RareIn(q)) /\ n + 1 \notin RareIn(q)
      BY <1>2, <2>1, FS_Subset
    <2>4. Cardinality(RareIn(q)) \in Nat /\ Cardinality(RareIn(q) \cup {n + 1}) =
              Cardinality(RareIn(q)) + 1
      BY <2>3, FS_AddElement, FS_CardinalityType
    <2> HIDE DEF n
    <2> QED
      BY <2>2, <2>4
  <1> QED
    BY <1>4, <1>5

-----------------------------------------------------------------------------
\* A step that moves nobody past a step that adds, and adds nothing.
SameSets ==
    /\ Updated' = Updated /\ Recorded' = Recorded /\ Starred' = Starred
    /\ Totalled' = Totalled /\ Dayed' = Dayed

LEMMA LedgerFrame ==
  ASSUME LedgerInv, SameSets, UNCHANGED <<flag, score, records, total, day, tianxuan>>
  PROVE  LedgerInv'
  BY DEF LedgerInv, SameSets, Worth, Scores, RecordedScore, RareRecorded, RareIn

\* Only a publish that has joined its goroutines counts in the ranks, and it keeps its place
\* while it keeps its control point.
LEMMA StillSame ==
  ASSUME UNCHANGED <<flag, upc, rpc, err>>, \A p \in Passed : pc'[p] = pc[p]
  PROVE  SameSets
  <1>1. Passed' = Passed
    BY DEF Passed
  <1> QED
    BY <1>1 DEF SameSets, Updated, Recorded, Starred, Totalled, Dayed

\* A request before its goroutines start, or one that is no publish, moves.
Moves(r) ==
    /\ \E x \in PC : pc' = [pc EXCEPT ![r] = x] /\ (r \in Publish => x \in Early \cup {"done"})
    /\ r \in Publish => pc[r] \in Early
    /\ UNCHANGED <<flag, upc, rpc, err, score, records, total, day, tianxuan>>

LEMMA MoveKeepsScore ==
  ASSUME DataInv, StageInv, LedgerInv, NEW r \in Req, Moves(r)
  PROVE  StageInv' /\ LedgerInv'
  <1>1. PICK x \in PC : /\ pc' = [pc EXCEPT ![r] = x]
                        /\ r \in Publish => x \in Early \cup {"done"}
    BY DEF Moves
  <1>2. pc \in [Req -> PC] /\ UNCHANGED <<flag, upc, rpc, err>>
    BY DEF DataInv, LocalOK, Moves
  <1>3. r \in Publish => upc[r] = "off" /\ r \notin Passed
    BY DEF StageInv, Passed, Moves
  <1>4. \A p \in Publish : p # r => pc'[p] = pc[p]
    BY <1>1, <1>2
  <1>5. \A p \in Passed : pc'[p] = pc[p]
    BY <1>3, <1>4 DEF Passed
  <1>6. SameSets /\ Passed' = Passed
    BY <1>2, <1>5, StillSame DEF Passed
  <1>7. StageInv'
    <2> SUFFICES ASSUME NEW p \in Publish
                 PROVE  /\ pc'[p] \in Early \cup Late \cup {"done"}
                        /\ upc'[p] = "off" <=> rpc'[p] = "off"
                        /\ pc'[p] \in Early => upc'[p] = "off"
                        /\ pc'[p] \in Late => upc'[p] # "off"
                        /\ pc'[p] \in Late \ {"join"} => p \in Passed'
                        /\ pc'[p] = "zhuangYuan" => flag'[p] >= 10
                        /\ pc'[p] = "done" =>
                              upc'[p] = "off" \/ (upc'[p] = "done" /\ rpc'[p] = "done")
      BY DEF StageInv
    <2>1. CASE p = r
      BY <1>1, <1>2, <1>3, <2>1 DEF StageInv, Early, Late, Opening
    <2>2. CASE p # r
      BY <1>2, <1>4, <1>6, <2>2 DEF StageInv
    <2> QED
      BY <2>1, <2>2
  <1> QED
    BY <1>6, <1>7, LedgerFrame DEF Moves

\* The steps that are moves.
Moving ==
    \/ \E r \in Req : Start(r) \/ ExistDaySubmission(r) \/ ExistRank(r) \/ CreatRank(r)
                         \/ CreateDaySubmission(r) \/ GetDaySubmission(r)
    \/ \E p \in Keyed : GetKey(p) \/ UnlinkKey(p) \/ Decode(p)
    \/ \E p \in Publish : ExistQuaternion(p) \/ SaveCheat(p)
    \/ \E f \in Forward : UpdateSubmission(f)
    \/ \E r \in Forward \cup Query : SaveDayCount(r)

LEMMA MovingMoves ==
  ASSUME DataInv, Moving
  PROVE  \E r \in Req : Moves(r)
  <1> USE KindAssumption DEF Moves, Early, Opening, stored, redis, ranks, input, threads, ghost
  <1>0. pc \in [Req -> PC]
    BY DEF DataInv, LocalOK
  <1>1. ASSUME NEW r \in Req, Start(r) PROVE Moves(r)
    BY <1>0, <1>1 DEF Start
  <1>2. ASSUME NEW r \in Req, ExistDaySubmission(r) PROVE Moves(r)
    BY <1>0, <1>2 DEF ExistDaySubmission
  <1>3. ASSUME NEW r \in Req, ExistRank(r) PROVE Moves(r)
    BY <1>0, <1>3 DEF ExistRank
  <1>4. ASSUME NEW r \in Req, CreatRank(r) PROVE Moves(r)
    BY <1>0, <1>4 DEF CreatRank
  <1>5. ASSUME NEW r \in Req, CreateDaySubmission(r) PROVE Moves(r)
    BY <1>0, <1>5 DEF CreateDaySubmission
  <1>6. ASSUME NEW r \in Req, GetDaySubmission(r) PROVE Moves(r)
    <2>1. r \in Publish \cup Forward \cup Query
      BY <1>6 DEF GetDaySubmission, DataInv, Placed
    <2>2. PICK x \in {"getKey", "done", "update", "remCount"} :
              pc' = [pc EXCEPT ![r] = x] /\ (r \in Publish => x \in {"getKey", "done"})
      BY <1>6, <2>1 DEF GetDaySubmission
    <2>3. UNCHANGED <<flag, upc, rpc, err, score, records, total, day, tianxuan>>
          /\ pc[r] = "read"
      BY <1>6 DEF GetDaySubmission
    <2> QED
      BY <2>2, <2>3
  <1>7. ASSUME NEW p \in Keyed, GetKey(p) PROVE Moves(p)
    BY <1>0, <1>7 DEF GetKey
  <1>8. ASSUME NEW p \in Keyed, UnlinkKey(p) PROVE Moves(p)
    BY <1>0, <1>8 DEF UnlinkKey
  <1>9. ASSUME NEW p \in Keyed, Decode(p) PROVE Moves(p)
    <2>1. PICK x \in {"existQuat", "ban", "done"} : pc' = [pc EXCEPT ![p] = x]
      BY <1>9 DEF Decode
    <2>2. UNCHANGED <<flag, upc, rpc, err, score, records, total, day, tianxuan>>
          /\ pc[p] = "decode"
      BY <1>9 DEF Decode
    <2> QED
      BY <2>1, <2>2
  <1>10. ASSUME NEW p \in Publish, ExistQuaternion(p) PROVE Moves(p)
    <2>1. PICK x \in {"existQuat", "saveQuat", "ban"} : pc' = [pc EXCEPT ![p] = x]
      BY <1>10 DEF ExistQuaternion
    <2>2. UNCHANGED <<flag, upc, rpc, err, score, records, total, day, tianxuan>>
          /\ pc[p] = "existQuat"
      BY <1>10 DEF ExistQuaternion
    <2> QED
      BY <2>1, <2>2
  <1>13. ASSUME NEW p \in Publish, SaveCheat(p) PROVE Moves(p)
    BY <1>0, <1>13 DEF SaveCheat
  <1>11. ASSUME NEW f \in Forward, UpdateSubmission(f) PROVE Moves(f)
    BY <1>0, <1>11 DEF UpdateSubmission
  <1>12. ASSUME NEW r \in Forward \cup Query, SaveDayCount(r) PROVE Moves(r)
    BY <1>0, <1>12 DEF SaveDayCount
  <1> QED
    BY <1>1, <1>2, <1>3, <1>4, <1>5, <1>6, <1>7, <1>8, <1>9, <1>10, <1>11, <1>12,
       <1>13, ZenonT(40) DEF Moving

\* The steps of publish p that change where it stands: the other publishes stay.
LEMMA StageOfOne ==
  ASSUME StageInv, NEW p \in Publish, flag' = flag,
         \A q \in Publish \ {p} : /\ pc'[q] = pc[q] /\ upc'[q] = upc[q]
                                  /\ rpc'[q] = rpc[q] /\ err'[q] = err[q],
         pc'[p] \in Early \cup Late \cup {"done"}, upc'[p] = "off" <=> rpc'[p] = "off",
         pc'[p] \in Early => upc'[p] = "off", pc'[p] \in Late => upc'[p] # "off",
         pc'[p] \in Late \ {"join"} => upc'[p] = "done" /\ rpc'[p] = "done" /\ err'[p] = "nil",
         pc'[p] = "zhuangYuan" => flag[p] >= 10,
         pc'[p] = "done" => upc'[p] = "off" \/ (upc'[p] = "done" /\ rpc'[p] = "done")
  PROVE  StageInv'
  <1> SUFFICES ASSUME NEW q \in Publish
               PROVE  /\ pc'[q] \in Early \cup Late \cup {"done"}
                      /\ upc'[q] = "off" <=> rpc'[q] = "off"
                      /\ pc'[q] \in Early => upc'[q] = "off"
                      /\ pc'[q] \in Late => upc'[q] # "off"
                      /\ pc'[q] \in Late \ {"join"} => q \in Passed'
                      /\ pc'[q] = "zhuangYuan" => flag'[q] >= 10
                      /\ pc'[q] = "done" =>
                            upc'[q] = "off" \/ (upc'[q] = "done" /\ rpc'[q] = "done")
    BY DEF StageInv
  <1>1. CASE q = p
    BY <1>1 DEF Passed
  <1>2. CASE q # p
    BY <1>2 DEF Passed, StageInv
  <1> QED
    BY <1>1, <1>2

\* While one of its goroutines runs, the publish waits.
LEMMA Waiting ==
  ASSUME StageInv, NEW p \in Publish,
         upc[p] \in {"update", "count", "add", "ban"} \/ rpc[p] = "record"
  PROVE  pc[p] = "join" /\ upc[p] # "off" /\ rpc[p] # "off"
  BY DEF StageInv, Passed, Early, Late, Opening

\* A step of a goroutine of p that does not end both: the ranks have nothing of p yet.
LEMMA WaitingSame ==
  ASSUME NEW p \in Publish, pc[p] = "join", pc' = pc, flag' = flag,
         \A q \in Publish \ {p} : /\ upc'[q] = upc[q] /\ rpc'[q] = rpc[q] /\ err'[q] = err[q]
  PROVE  Starred' = Starred /\ Totalled' = Totalled /\ Dayed' = Dayed
  <1>1. /\ p \notin Starred /\ p \notin Totalled /\ p \notin Dayed
        /\ p \notin Starred' /\ p \notin Totalled' /\ p \notin Dayed'
    BY DEF Starred, Totalled, Dayed
  <1>2. \A q \in Publish \ {p} : q \in Passed' <=> q \in Passed
    BY DEF Passed
  <1>3. \A q \in Publish \ {p} : /\ q \in Starred' <=> q \in Starred
                                 /\ q \in Totalled' <=> q \in Totalled
                                 /\ q \in Dayed' <=> q \in Dayed
    BY <1>2 DEF Starred, Totalled, Dayed
  <1>4. /\ Starred \cup Totalled \cup Dayed \subseteq Publish
        /\ Starred' \cup Totalled' \cup Dayed' \subseteq Publish
    BY DEF Starred, Totalled, Dayed, Passed
  <1> QED
    BY <1>1, <1>3, <1>4

LEMMA ForkKeepsScore ==
  ASSUME DataInv, StageInv, LedgerInv, NEW p \in Publish, SaveQuaternion(p)
  PROVE  StageInv' /\ LedgerInv'
  <1> USE DEF stored, ranks, ghost
  <1>0. /\ pc \in [Req -> PC] /\ upc \in [Publish -> UPC] /\ rpc \in [Publish -> RPC]
        /\ pc[p] = "saveQuat" /\ flag' = flag /\ err' = err
    BY DEF DataInv, LocalOK, SaveQuaternion, input
  <1>1. upc[p] = "off" /\ rpc[p] = "off" /\ p \notin Passed
    BY <1>0 DEF StageInv, Early, Opening, Passed
  <1>2. \/ pc' = [pc EXCEPT ![p] = "join"] /\ upc' = [upc EXCEPT ![p] = "update"]
           /\ rpc' = [rpc EXCEPT ![p] = "record"]
        \/ \E x \in {"done", "ban"} :
              pc' = [pc EXCEPT ![p] = x] /\ upc' = upc /\ rpc' = rpc
    BY DEF SaveQuaternion
  <1>3. UNCHANGED <<score, records, total, day, tianxuan>>
    BY DEF SaveQuaternion
  <1>4. /\ \A q \in Publish \ {p} : /\ pc'[q] = pc[q] /\ upc'[q] = upc[q]
                                    /\ rpc'[q] = rpc[q] /\ err'[q] = err[q]
        /\ \/ pc'[p] = "join" /\ upc'[p] = "update" /\ rpc'[p] = "record"
           \/ pc'[p] \in {"done", "ban"} /\ upc'[p] = "off" /\ rpc'[p] = "off"
    BY <1>0, <1>1, <1>2
  <1>5. StageInv'
    BY <1>0, <1>4, StageOfOne DEF Early, Late, Opening
  <1>6. Passed' = Passed /\ Updated' = Updated /\ Recorded' = Recorded
    BY <1>0, <1>1, <1>4 DEF Passed, Updated, Recorded
  <1>7. SameSets
    <2>1. \A q \in Passed : pc'[q] = pc[q]
      BY <1>1, <1>4 DEF Passed
    <2> QED
      BY <1>0, <1>6, <2>1 DEF SameSets, Starred, Totalled, Dayed
  <1> QED
    BY <1>0, <1>3, <1>5, <1>7, LedgerFrame

\* UpdateRank adds the worth of the throw to the row.
LEMMA UpdateKeepsScore ==
  ASSUME DataInv, StageInv, LedgerInv, ~Faults, NEW p \in Publish, UpdateRank(p)
  PROVE  StageInv' /\ LedgerInv'
  <1>0. /\ upc \in [Publish -> UPC] /\ err \in [Publish -> {"nil", "error", "cheat", "banned"}]
        /\ flag \in [Publish -> Flags] /\ upc[p] = "update"
    BY DEF DataInv, LocalOK, UpdateRank
  <1>1. /\ score' = score + ScoreOf(flag[p]) /\ upc' = [upc EXCEPT ![p] = "count"]
        /\ err' = [err EXCEPT ![p] = "nil"]
        /\ UNCHANGED <<records, total, day, tianxuan, pc, flag, rpc>>
    BY DEF UpdateRank, redis, ranks, input
  <1>2. pc[p] = "join" /\ rpc[p] # "off"
    BY <1>0, Waiting
  <1>3. /\ \A q \in Publish \ {p} : /\ pc'[q] = pc[q] /\ upc'[q] = upc[q]
                                    /\ rpc'[q] = rpc[q] /\ err'[q] = err[q]
        /\ upc'[p] = "count"
    BY <1>0, <1>1
  <1>4. StageInv'
    BY <1>1, <1>2, <1>3, StageOfOne DEF Early, Late, Opening
  <1>5. Starred' = Starred /\ Totalled' = Totalled /\ Dayed' = Dayed
    BY <1>1, <1>2, <1>3, WaitingSame
  <1>6. Updated' = Updated \cup {p} /\ p \notin Updated /\ Recorded' = Recorded
    BY <1>0, <1>1, <1>3 DEF Updated, Recorded
  <1>7. Scores' = Scores /\ \A A : Worth(A) = SumFunctionOnSet(Scores, A)
    BY <1>1 DEF Scores, Worth
  <1>8. score' = Worth(Updated \cup {p})
    BY <1>0, <1>1, <1>6, WorthAdds DEF LedgerInv, Updated
  <1>9. score' = Worth(Updated)'
    BY <1>6, <1>7, <1>8 DEF Worth
  <1> QED
    BY <1>1, <1>4, <1>5, <1>6, <1>7, <1>9
       DEF LedgerInv, Worth, RecordedScore, RareRecorded, RareIn

\* SaveRecord appends the throw.
LEMMA RecordKeepsScore ==
  ASSUME DataInv, StageInv, LedgerInv, ~Faults, NEW p \in Publish, SaveRecord(p)
  PROVE  StageInv' /\ LedgerInv'
  <1>0. /\ rpc \in [Publish -> RPC] /\ err \in [Publish -> {"nil", "error", "cheat", "banned"}]
        /\ flag \in [Publish -> Flags] /\ records \in Seq(Flags) /\ rpc[p] = "record"
    BY DEF DataInv, StoreOK, LocalOK, SaveRecord
  <1>1. /\ records' = Append(records, flag[p]) /\ rpc' = [rpc EXCEPT ![p] = "done"]
        /\ err' = [err EXCEPT ![p] = "nil"]
        /\ UNCHANGED <<score, total, day, tianxuan, pc, flag, upc>>
    BY DEF SaveRecord, redis, ranks, input
  <1>2. pc[p] = "join" /\ upc[p] # "off"
    BY <1>0, Waiting
  <1>3. /\ \A q \in Publish \ {p} : /\ pc'[q] = pc[q] /\ upc'[q] = upc[q]
                                    /\ rpc'[q] = rpc[q] /\ err'[q] = err[q]
        /\ rpc'[p] = "done"
    BY <1>0, <1>1
  <1>4. StageInv'
    BY <1>1, <1>2, <1>3, StageOfOne DEF Early, Late, Opening
  <1>5. Starred' = Starred /\ Totalled' = Totalled /\ Dayed' = Dayed
    BY <1>1, <1>2, <1>3, WaitingSame
  <1>6. Recorded' = Recorded \cup {p} /\ p \notin Recorded /\ Updated' = Updated
    BY <1>0, <1>1, <1>3 DEF Updated, Recorded
  <1>7. Scores' = Scores
    BY <1>1 DEF Scores
  <1>8. /\ RecordedScore' = RecordedScore + ScoreOf(flag[p])
        /\ Cardinality(RareIn(records'))
               = Cardinality(RareIn(records)) + (IF flag[p] >= 10 THEN 1 ELSE 0)
    <2>1. flag[p] \in Flags /\ records \in Seq(Flags) /\ records' = Append(records, flag[p])
      BY <1>0, <1>1
    <2>2. /\ SumFunction([i \in DOMAIN records' |-> ScoreOf(records'[i])]) =
                SumFunction([i \in DOMAIN records |-> ScoreOf(records[i])]) + ScoreOf(flag[p])
          /\ Cardinality(RareIn(records'))
                = Cardinality(RareIn(records)) + (IF flag[p] >= 10 THEN 1 ELSE 0)
      BY <2>1, RecordAppended, Zenon
    <2> QED
      BY <2>2 DEF RecordedScore
  <1>9. RecordedScore' = Worth(Recorded)'
    <2>1. RecordedScore' = Worth(Recorded \cup {p})
      BY <1>0, <1>6, <1>8, WorthAdds DEF LedgerInv, Recorded
    <2> QED
      BY <1>6, <1>7, <2>1 DEF Worth
  <1>10. Cardinality(RareIn(records')) = Cardinality(RareRecorded')
    <2>1. RareRecorded' = IF flag[p] >= 10 THEN RareRecorded \cup {p} ELSE RareRecorded
      BY <1>1, <1>6 DEF RareRecorded
    <2>2. RareRecorded \in SUBSET Publish /\ p \notin RareRecorded
      BY <1>6 DEF RareRecorded, Recorded
    <2>3. Cardinality(RareRecorded \cup {p}) = Cardinality(RareRecorded) + 1
      BY <2>2, CountAdds
    <2>4. Cardinality(RareRecorded) \in Nat
      BY <2>2, PublishAssumption, FS_Subset, FS_CardinalityType
    <2> QED
      BY <1>8, <2>1, <2>3, <2>4 DEF LedgerInv
  <1>11. /\ score' = Worth(Updated)' /\ total' = Worth(Totalled)' /\ day' = Worth(Dayed)'
         /\ tianxuan' = Cardinality(Starred')
    BY <1>1, <1>5, <1>6, <1>7 DEF LedgerInv, Worth
  <1> QED
    BY <1>4, <1>9, <1>10, <1>11 DEF LedgerInv

\* The rest of the updating goroutine: the day's count and the ban.
LEMMA CountKeepsScore ==
  ASSUME DataInv, StageInv, LedgerInv, NEW p \in Publish, UpdateCount(p) \/ Ban(p)
  PROVE  StageInv' /\ LedgerInv'
  <1>0. /\ upc \in [Publish -> UPC] /\ err \in [Publish -> {"nil", "error", "cheat", "banned"}]
        /\ upc[p] \in {"count", "add", "ban"}
    BY DEF DataInv, LocalOK, UpdateCount, Ban
  <1>1. UNCHANGED <<score, records, total, day, tianxuan, pc, flag, rpc>>
    BY DEF UpdateCount, Ban, stored, ranks, input
  <1>2. pc[p] = "join" /\ rpc[p] # "off"
    BY <1>0, Waiting
  <1>3. /\ \E x \in {"add", "ban", "done"} : upc' = [upc EXCEPT ![p] = x]
        /\ err' = err \/ \E e \in {"nil", "error", "cheat", "banned"} :
                             err' = [err EXCEPT ![p] = e]
    BY DEF UpdateCount, Ban
  <1>4. /\ \A q \in Publish \ {p} : /\ pc'[q] = pc[q] /\ upc'[q] = upc[q]
                                    /\ rpc'[q] = rpc[q] /\ err'[q] = err[q]
        /\ upc'[p] \in {"add", "ban", "done"}
    BY <1>0, <1>1, <1>3
  <1>5. StageInv'
    BY <1>1, <1>2, <1>4, StageOfOne DEF Early, Late, Opening
  <1>6. Starred' = Starred /\ Totalled' = Totalled /\ Dayed' = Dayed
    BY <1>1, <1>2, <1>4, WaitingSame
  <1>7. Updated' = Updated /\ Recorded' = Recorded
    BY <1>0, <1>1, <1>4 DEF Updated, Recorded
  <1> QED
    BY <1>1, <1>5, <1>6, <1>7, LedgerFrame DEF SameSets

\* Past the join: the ranks.
LEMMA RankKeepsScore ==
  ASSUME DataInv, StageInv, LedgerInv, NEW p \in Publish,
         Join(p) \/ SaveZhuangYuan(p) \/ SaveToTalScore(p) \/ SaveDayScore(p) \/ SaveRareKey(p)
  PROVE  StageInv' /\ LedgerInv'
  <1> USE DEF stored, ranks, threads, input
  <1>0. /\ pc \in [Req -> PC] /\ flag \in [Publish -> Flags]
        /\ pc[p] \in {"join", "zhuangYuan", "total", "day", "rareKey"}
    BY DEF DataInv, LocalOK, Join, SaveZhuangYuan, SaveToTalScore, SaveDayScore, SaveRareKey
  <1>1. UNCHANGED <<score, records, flag, upc, rpc, err>>
    BY DEF Join, SaveZhuangYuan, SaveToTalScore, SaveDayScore, SaveRareKey
  <1>2. PICK x \in {"zhuangYuan", "total", "day", "rareKey", "done"} : pc' = [pc EXCEPT ![p] = x]
    BY DEF Join, SaveZhuangYuan, SaveToTalScore, SaveDayScore, SaveRareKey
  <1>3. /\ \A q \in Publish \ {p} : /\ pc'[q] = pc[q] /\ upc'[q] = upc[q]
                                    /\ rpc'[q] = rpc[q] /\ err'[q] = err[q]
        /\ pc'[p] = x /\ Passed' = Passed /\ Updated' = Updated /\ Recorded' = Recorded
        /\ Scores' = Scores
    BY <1>0, <1>1, <1>2 DEF Passed, Updated, Recorded, Scores
  <1>4. upc[p] = "done" /\ rpc[p] = "done"
    BY <1>0 DEF Join, StageInv, Late, Passed, SaveZhuangYuan, SaveToTalScore, SaveDayScore,
          SaveRareKey
  <1>5. pc[p] # "join" => p \in Passed
    BY <1>0 DEF StageInv, Late
  <1>6. /\ pc[p] = "join" => x = IF err[p] # "nil" THEN "done"
                                 ELSE IF flag[p] >= 10 THEN "zhuangYuan" ELSE "total"
        /\ pc[p] = "zhuangYuan" => x = "total" /\ flag[p] >= 10
        /\ pc[p] = "total" => x = "day"
        /\ pc[p] = "day" => x \in {"rareKey", "done"}
        /\ pc[p] = "rareKey" => x = "done"
    BY <1>0, <1>3 DEF StageInv, Join, SaveZhuangYuan, SaveToTalScore, SaveDayScore, SaveRareKey
  <1>7. StageInv'
    <2>1. x \in Late \ {"join"} => err[p] = "nil"
      BY <1>0, <1>5, <1>6 DEF Passed, Late
    <2>2. x = "zhuangYuan" => flag[p] >= 10
      BY <1>0, <1>6
    <2> QED
      BY <1>1, <1>3, <1>4, <2>1, <2>2, StageOfOne DEF Early, Late, Opening
  <1>8. /\ total' = IF pc[p] = "total" THEN total + ScoreOf(flag[p]) ELSE total
        /\ day' = IF pc[p] = "day" THEN day + ScoreOf(flag[p]) ELSE day
        /\ tianxuan' = IF pc[p] = "zhuangYuan" THEN tianxuan + 1 ELSE tianxuan
    BY DEF Join, SaveZhuangYuan, SaveToTalScore, SaveDayScore, SaveRareKey, redis
  <1>9. \A q \in Publish \ {p} : /\ q \in Starred' <=> q \in Starred
                                 /\ q \in Totalled' <=> q \in Totalled
                                 /\ q \in Dayed' <=> q \in Dayed
    BY <1>1, <1>3 DEF Starred, Totalled, Dayed
  <1>10. /\ p \in Starred <=> p \in Passed /\ flag[p] >= 10 /\ pc[p] \in {"total", "day", "rareKey"}
         /\ p \in Starred' <=> p \in Passed /\ flag[p] >= 10 /\ x # "zhuangYuan"
         /\ p \in Totalled <=> p \in Passed /\ pc[p] \in {"day", "rareKey"}
         /\ p \in Totalled' <=> p \in Passed /\ x \in {"day", "rareKey", "done"}
         /\ p \in Dayed <=> p \in Passed /\ pc[p] = "rareKey"
         /\ p \in Dayed' <=> p \in Passed /\ x \in {"rareKey", "done"}
    BY <1>0, <1>1, <1>2, <1>3 DEF Starred, Totalled, Dayed
  <1>11. /\ Starred \in SUBSET Publish /\ Totalled \in SUBSET Publish /\ Dayed \in SUBSET Publish
         /\ Starred' \subseteq Publish /\ Totalled' \subseteq Publish /\ Dayed' \subseteq Publish
    BY DEF Starred, Totalled, Dayed, Passed
  <1>12. p \in Passed <=> err[p] = "nil"
    BY <1>4 DEF Passed
  <1>13. /\ Starred' = IF pc[p] = "zhuangYuan" THEN Starred \cup {p} ELSE Starred
         /\ pc[p] = "zhuangYuan" => p \notin Starred
    <2>1. p \in Starred' <=> p \in Starred \/ pc[p] = "zhuangYuan"
      BY <1>0, <1>5, <1>6, <1>10, <1>12
    <2> QED
      BY <1>9, <1>10, <1>11, <2>1
  <1>14. /\ Totalled' = IF pc[p] = "total" THEN Totalled \cup {p} ELSE Totalled
         /\ pc[p] = "total" => p \notin Totalled
    <2>1. p \in Totalled' <=> p \in Totalled \/ pc[p] = "total"
      BY <1>0, <1>5, <1>6, <1>10, <1>12
    <2> QED
      BY <1>9, <1>10, <1>11, <2>1
  <1>15. /\ Dayed' = IF pc[p] = "day" THEN Dayed \cup {p} ELSE Dayed
         /\ pc[p] = "day" => p \notin Dayed
    <2>1. p \in Dayed' <=> p \in Dayed \/ pc[p] = "day"
      BY <1>0, <1>5, <1>6, <1>10, <1>12
    <2> QED
      BY <1>9, <1>10, <1>11, <2>1
  <1>16. tianxuan' = Cardinality(Starred')
    BY <1>8, <1>11, <1>13, CountAdds DEF LedgerInv
  <1>17. total' = Worth(Totalled')
    BY <1>0, <1>8, <1>11, <1>14, WorthAdds DEF LedgerInv
  <1>18. day' = Worth(Dayed')
    BY <1>0, <1>8, <1>11, <1>15, WorthAdds DEF LedgerInv
  <1>19. total' = Worth(Totalled)' /\ day' = Worth(Dayed)'
    BY <1>3, <1>17, <1>18 DEF Worth
  <1>20. /\ score' = Worth(Updated)' /\ RecordedScore' = Worth(Recorded)'
         /\ Cardinality(RareIn(records'))  = Cardinality(RareRecorded')
    BY <1>1, <1>3 DEF LedgerInv, Worth, RecordedScore, RareRecorded, RareIn
  <1> QED
    BY <1>7, <1>16, <1>19, <1>20 DEF LedgerInv

LEMMA ScoreStep == DataInv /\ ScoreInv /\ [Next]_vars => ScoreInv'
  <1> SUFFICES ASSUME DataInv, ScoreInv, [Next]_vars, ~Faults, ~crashed'
               PROVE  StageInv' /\ LedgerInv'
    BY DEF ScoreInv
  <1>1. ~crashed
    <2>1. CASE UNCHANGED vars \/ BoBingKey \/ KeyExpires
      BY <2>1 DEF vars, ghost, BoBingKey, KeyExpires
    <2>2. ASSUME NEW r \in Req, Common(r) PROVE ~crashed
      BY <2>2 DEF Common, Start, Fails, ExistDaySubmission, ExistRank, CreatRank,
            CreateDaySubmission, GetDaySubmission, ghost
    <2>3. ASSUME NEW p \in Keyed, Opened(p) PROVE ~crashed
      BY <2>3 DEF Opened, GetKey, UnlinkKey, Decode, ghost
    <2>4. ASSUME NEW p \in Publish, ExistQuaternion(p) \/ SaveCheat(p) \/ SaveQuaternion(p)
                   \/ UpdateRank(p) \/ UpdateCount(p) \/ Ban(p) \/ SaveRecord(p)
          PROVE  ~crashed
      BY <2>4 DEF ExistQuaternion, SaveCheat, SaveQuaternion, UpdateRank, UpdateCount, Ban, SaveRecord, ghost
    <2>5. ASSUME NEW p \in Publish, Panic(p) PROVE ~crashed
      BY <2>5 DEF Panic
    <2>6. ASSUME NEW p \in Publish, Join(p) \/ SaveZhuangYuan(p) \/ SaveToTalScore(p)
                   \/ SaveDayScore(p) \/ SaveRareKey(p)
          PROVE  ~crashed
      BY <2>6 DEF Join, SaveZhuangYuan, SaveToTalScore, SaveDayScore, SaveRareKey, ghost
    <2>7. ASSUME NEW f \in Forward, UpdateSubmission(f) PROVE ~crashed
      BY <2>7 DEF UpdateSubmission
    <2>8. ASSUME NEW r \in Forward \cup Query, SaveDayCount(r) PROVE ~crashed
      BY <2>8 DEF SaveDayCount, ghost
    <2> QED
      BY <2>1, <2>2, <2>3, <2>4, <2>5, <2>6, <2>7, <2>8 DEF Next, Throw
  <1>2. StageInv /\ LedgerInv
    BY <1>1 DEF ScoreInv
  <1>3. ASSUME UNCHANGED vars \/ BoBingKey \/ KeyExpires PROVE StageInv' /\ LedgerInv'
    <2>1. UNCHANGED <<flag, upc, rpc, err, pc, score, records, total, day, tianxuan>>
      BY <1>3 DEF vars, stored, redis, ranks, local, input, threads, BoBingKey, KeyExpires
    <2>2. SameSets /\ Passed' = Passed
      BY <2>1, StillSame DEF Passed
    <2> QED
      BY <1>2, <2>1, <2>2, LedgerFrame DEF StageInv
  <1>4. ASSUME NEW r \in Req, Fails(r) PROVE FALSE
    BY <1>4 DEF Fails
  <1>5. ASSUME Moving PROVE StageInv' /\ LedgerInv'
    BY <1>2, <1>5, MovingMoves, MoveKeepsScore
  <1>6. ASSUME NEW p \in Publish, SaveQuaternion(p) PROVE StageInv' /\ LedgerInv'
    BY <1>2, <1>6, ForkKeepsScore
  <1>7. ASSUME NEW p \in Publish, UpdateRank(p) PROVE StageInv' /\ LedgerInv'
    BY <1>2, <1>7, UpdateKeepsScore
  <1>8. ASSUME NEW p \in Publish, UpdateCount(p) \/ Ban(p) PROVE StageInv' /\ LedgerInv'
    BY <1>2, <1>8, CountKeepsScore
  <1>9. ASSUME NEW p \in Publish, Panic(p) PROVE FALSE
    BY <1>9 DEF Panic
  <1>10. ASSUME NEW p \in Publish, SaveRecord(p) PROVE StageInv' /\ LedgerInv'
    BY <1>2, <1>10, RecordKeepsScore
  <1>11. ASSUME NEW p \in Publish, Join(p) \/ SaveZhuangYuan(p) \/ SaveToTalScore(p)
                  \/ SaveDayScore(p) \/ SaveRareKey(p)
         PROVE  StageInv' /\ LedgerInv'
    BY <1>2, <1>11, RankKeepsScore
  <1> QED
    BY NextIsStep, <1>3, <1>4, <1>5, <1>6, <1>7, <1>8, <1>9, <1>10, <1>11 DEF Step, Moving

LEMMA ScoreInit == Init => ScoreInv
  <1> SUFFICES ASSUME Init PROVE StageInv /\ LedgerInv
    BY DEF ScoreInv
  <1>1. StageInv
    BY DEF Init, StageInv, Early, Late, Opening, Keyed, Req
  <1>2. /\ Updated = {} /\ Recorded = {} /\ Starred = {} /\ Totalled = {} /\ Dayed = {}
        /\ RareRecorded = {} /\ RareIn(records) = {}
    BY DEF Init, Updated, Recorded, Starred, Totalled, Dayed, Passed, RareRecorded, RareIn
  <1>3. Worth({}) = 0 /\ Cardinality({}) = 0
    <2>1. flag \in [Publish -> Flags]
      BY DEF Init
    <2> QED
      BY <2>1, WorthType, FS_EmptySet
  <1>4. RecordedScore = 0
    <2> DEFINE f == [i \in DOMAIN records |-> ScoreOf(records[i])]
    <2>1. DOMAIN f = {}
      BY DEF Init
    <2>2. SumFunctionOnSet(f, {}) = 0
      BY FS_EmptySet, SumUnfold
    <2> QED
      BY <2>1, <2>2 DEF RecordedScore, SumFunction
  <1> QED
    BY <1>1, <1>2, <1>3, <1>4 DEF Init, LedgerInv

-----------------------------------------------------------------------------
LEMMA InitHolds ==
  Init => DataInv /\ KeyInv /\ QuotaInv /\ NeverOverdrawn /\ LookInv /\ ReplayInv
  <1> SUFFICES ASSUME Init
               PROVE  DataInv /\ KeyInv /\ QuotaInv /\ NeverOverdrawn /\ LookInv /\ ReplayInv
    OBVIOUS
  <1>1. DataInv
    <2>1. StoreOK
      <3>1. rank \in BOOLEAN /\ blacklist \in BOOLEAN
        BY DEF Init
      <3>2. rows \in Seq(Row) /\ records \in Seq(Flags)
        BY DEF Init
      <3>3. dayCount \in Int
        BY DEF Init, NoCount
      <3> QED
        BY <3>1, <3>2, <3>3 DEF Init, StoreOK
    <2>2. LocalOK
      BY NoRowType DEF Init, LocalOK
    <2>3. Placed /\ HasRow
      BY DEF Init, Placed, HasRow
    <2> QED
      BY <2>1, <2>2, <2>3 DEF DataInv
  <1>2. KeyInv
    <2>1. Served = {}
      BY DEF Init, Served
    <2>2. Cardinality(Served) = 0
      BY <2>1, FS_EmptySet
    <2> QED
      BY <2>2, CountAssumption DEF Init, KeyInv, NoKey
  <1>3. QuotaInv /\ NeverOverdrawn
    BY CountAssumption DEF Init, QuotaInv, FlightInv, RowInv, NotForked, SnapGranted,
       SnapHasThrows, Opening, NoRow, ConditionWithinGrants, CountWithinGrants,
       DuplicateRowsUnused, NeverOverdrawn
  <1>4. LookInv /\ ReplayInv
    BY DiceAssumption DEF Init, LookInv, ReplayInv, Unlooked, Early, Opening
  <1> QED
    BY <1>1, <1>2, <1>3, <1>4

\* The invariant of the dice game is inductive.
GameInv == DataInv /\ KeyInv /\ QuotaInv /\ LookInv /\ ReplayInv

LEMMA GameInvariant == Spec => []GameInv
  <1>1. GameInv /\ [Next]_vars => GameInv'
    BY DataStep, KeyStep, QuotaStep, LookStep DEF GameInv
  <1>2. Init => GameInv
    BY InitHolds DEF GameInv
  <1> QED
    BY <1>1, <1>2, PTL DEF Spec

\* Typing: the state of the game is well typed in every reachable state, for any requests;
\* in particular no more keys are issued than MaxKey and one per publish (BoBingKey and the
\* end of BoBingPublish).
THEOREM Typing == Spec => []TypeOK
  <1>1. GameInv => TypeOK
    <2> SUFFICES ASSUME DataInv, KeyInv, LookInv PROVE TypeOK
      BY DEF GameInv
    <2>1. IsFiniteSet(Served) /\ Cardinality(Served) <= Cardinality(Publish)
      BY PublishAssumption, FS_Subset DEF Served
    <2>2. Cardinality(Served) \in Nat /\ Cardinality(Publish) \in Nat /\ MaxKey \in Nat
      BY <2>1, PublishAssumption, FS_CardinalityType, CountAssumption
    <2>3. 0 .. issued \subseteq Keys /\ issued \in Keys
      BY <2>1, <2>2 DEF KeyInv, Keys
    <2>4. key \in Keys /\ ekey \in [Keyed -> Keys] /\ gkey \in [Keyed -> Keys]
      BY <2>3 DEF KeyInv
    <2> QED
      BY <2>3, <2>4 DEF TypeOK, DataInv, StoreOK, LocalOK, LookInv
  <1> QED
    BY <1>1, GameInvariant, PTL

\* However the first requests of a day overlap, a spare submission row is never counted on
\* (ExistDaySubmissionByOpenId, CreateDaySubmission, UpdateRank).
THEOREM RowSafety == Spec => []RowsSound
  <1>1. GameInv => DuplicateRowsUnused
    BY DEF GameInv, QuotaInv, RowInv
  <1> QED
    BY <1>1, GameInvariant, Typing, PTL DEF RowsSound

\* Lost updates between any number of publishes and forwards, with or without failing
\* stores, never invent extra throws (UpdateRank and UpdateSubmission).
THEOREM GrantSafety == Spec => []ConditionWithinGrants
  <1>1. GameInv => ConditionWithinGrants
    BY DEF GameInv, QuotaInv, RowInv
  <1> QED
    BY <1>1, GameInvariant, PTL

\* No row ever counts more throws than the base and all that was granted, however publishes
\* and forwards overlap (BoBingPublish's test of Count, UpdateRank's correction).
THEOREM CountSafety == Spec => []CountWithinGrants
  <1>1. GameInv => CountWithinGrants
    BY DEF GameInv, QuotaInv, RowInv
  <1> QED
    BY <1>1, GameInvariant, PTL

\* On a day without forwards no row counts more throws than its own condition allows,
\* however many publishes overlap and whatever fails.
THEOREM OverdraftSafety == ASSUME Forward = {} PROVE Spec => []NeverOverdrawn
  <1>1. GameInv /\ NeverOverdrawn /\ [Next]_vars => NeverOverdrawn'
    BY OverdraftStep DEF GameInv
  <1> QED
    BY <1>1, InitHolds, GameInvariant, PTL DEF Spec

\* Where no call fails and the process lives, the rank row, the records and the two Redis
\* ranks agree once the requests are served, for any number of publishes and any dice results
\* (BoBingPublish and its two goroutines).
THEOREM ScoreAgreement == Spec => []ScoresAgree
  <1>1. ASSUME DataInv, ScoreInv, Quiet, ~crashed, ~Faults
        PROVE  /\ score = RecordedScore /\ total = day /\ total <= score
               /\ (\A p \in Publish : err[p] = "nil") =>
                     /\ total = score
                     /\ tianxuan = Cardinality({i \in DOMAIN records : records[i] >= 10})
    <2>1. StageInv /\ LedgerInv /\ flag \in [Publish -> Flags]
      BY <1>1 DEF ScoreInv, DataInv, LocalOK
    <2>2. \A p \in Publish : /\ pc[p] \in {"start", "done"}
                             /\ \/ upc[p] = "off" /\ rpc[p] = "off"
                                \/ upc[p] = "done" /\ rpc[p] = "done" /\ pc[p] = "done"
      BY <1>1, <2>1 DEF Quiet, StageInv, Early
    <2>3. /\ Recorded = Updated /\ Totalled = Dayed /\ Totalled \in SUBSET Updated
          /\ Updated \in SUBSET Publish
      BY <2>2 DEF Recorded, Updated, Totalled, Dayed, Passed
    <2>4. Worth(Totalled) <= Worth(Updated)
      BY <2>1, <2>3, WorthGrows
    <2>5. ASSUME \A p \in Publish : err[p] = "nil"
          PROVE  Totalled = Updated /\ Starred = RareRecorded
      BY <2>2, <2>5 DEF Recorded, Updated, Totalled, Starred, Passed, RareRecorded
    <2> QED
      BY <2>1, <2>3, <2>4, <2>5 DEF LedgerInv, RareIn
  <1>2. GameInv /\ ScoreInv => ScoresAgree
    BY <1>1 DEF GameInv, ScoresAgree
  <1>3. GameInv /\ ScoreInv /\ [Next]_vars => ScoreInv'
    BY ScoreStep DEF GameInv
  <1> QED
    BY <1>2, <1>3, ScoreInit, GameInvariant, PTL DEF Spec

\* Where Redis answers, a throw with a position that was saved before it was decoded never
\* counts, and it is banned once it is served unless the process has ended, whatever other
\* throws look up, save and ban in between (ExistQuaternion, SaveQuaternion, SaveBlacklist).
THEOREM ReplaySafety == Spec => []ReplayIsBanned
  <1>1. GameInv => ReplayIsBanned
    BY DEF GameInv, ReplayInv, ReplayIsBanned
  <1> QED
    BY <1>1, GameInvariant, PTL
=============================================================================
