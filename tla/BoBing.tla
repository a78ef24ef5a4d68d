------------------------------- MODULE BoBing -------------------------------
(***************************************************************************)
(* One player and one day of the dice game service (app/boBing/service,    *)
(* its dao and cache packages, and the gateway handler in front of it):    *)
(* concurrent requests of the player against the rank row, the day's       *)
(* submission rows, the throw records and the Redis keys.  Every database  *)
(* or Redis call is a step.  UpdateRank, one database transaction, is one  *)
(* step.  A request is a publish (one throw), a forward (Retransmission),  *)
(* a count query, a day initialisation or the check of a broadcast.        *)
(***************************************************************************)
EXTENDS Integers, FiniteSets, Sequences, Functions, TLC

CONSTANTS
    Publish,     \* publish requests
    Forward,     \* Retransmission requests
    Query,       \* GetCount requests
    DayInit,     \* DayInit requests
    Broadcast,   \* BroadcastCheck requests
    Flags,       \* the dice results the publish requests may carry
    Quaternions, \* the positions a die may have
    Dice,        \* dice of a throw (6 in the code)
    Base,        \* throws of a day (10 in the code)
    TuiWen,      \* extra throws for forwarding (3 in the code)
    Cap,         \* Condition at which SaveDayCount bans the player (12 in the code)
    MaxKey,      \* bound on the keys BoBingKey issues
    Faults       \* whether calls to the stores may fail

ASSUME CountAssumption == Base \in Nat /\ TuiWen \in Nat /\ Cap \in Nat /\ MaxKey \in Nat
ASSUME FaultAssumption == Faults \in BOOLEAN
ASSUME DiceAssumption == Dice \in Nat \ {0}
ASSUME FlagAssumption == Flags \subseteq 0 .. 18
ASSUME PublishAssumption == IsFiniteSet(Publish)

Keyed == Publish \cup Broadcast   \* the requests encrypted with a one-time key
Req == Keyed \cup Forward \cup Query \cup DayInit
\* A request is of one kind.
ASSUME KindAssumption ==
    /\ Publish \cap (Forward \cup Query \cup DayInit \cup Broadcast) = {}
    /\ Broadcast \cap (Forward \cup Query \cup DayInit) = {}
    /\ Forward \cap (Query \cup DayInit) = {} /\ Query \cap DayInit = {}

NoKey == 0
NoCount == -1000   \* no count is cached
NoFlag == 18       \* a flag that is no number
NoRow == [count |-> 0, cond |-> 0, tui |-> 0]

VARIABLES
    rank,       \* whether the player's rank row exists
    score,      \* its Score
    rows,       \* the day's submission rows, oldest first
    records,    \* sequence of saved records: the flag of each
    key,        \* the one-time key in Redis
    issued,     \* keys issued so far
    quats,      \* the set "quaternions" in Redis
    blacklist,  \* whether the player is in the set "blacklist"
    dayCount,   \* the remaining throws cached in Redis
    total,      \* the player's score in "totalrank"
    day,        \* the player's score in the day's rank
    tianxuan,   \* the player's entries in "tianxuan"
    pc, snap, flag, quat, ekey, gkey,   \* per request: control point, submission read,
                                        \* throw, positions, key of the client, key read
    looked,                             \* positions of a throw that were looked up
    upc, rpc, err,                      \* the two goroutines of publish, the err they share
    usedKeys,   \* key of every throw that was decoded
    replay,     \* whether a throw was decoded with a position that had been saved
    granted,    \* extra throws granted so far
    bannedWrite,\* a record was saved after the player was banned
    crashed     \* the process has panicked

stored == <<rank, score, rows, records>>
ranks == <<total, day, tianxuan>>
redis == <<key, issued, quats, blacklist, dayCount, ranks>>
input == <<flag, quat, ekey>>
threads == <<upc, rpc, err>>
fetched == <<gkey, looked>>
local == <<pc, snap, input, fetched, threads>>
ghost == <<usedKeys, replay, granted, bannedWrite, crashed>>
vars == <<stored, redis, local, ghost>>

\* Transform: score and extra throws of a dice result.
ScoreOf(f) ==
    CASE f \in {1, 2} -> 0 [] f = 3 -> 1 [] f = 4 -> 2 [] f \in 5 .. 7 -> 6
      [] f = 8 -> 8 [] f = 9 -> 10 [] f \in 10 .. 16 -> 16 [] OTHER -> 0
BonusOf(f) == CASE f \in 10 .. 13 -> 1 [] f \in 14 .. 16 -> 2 [] OTHER -> 0

Init ==
    /\ rank = FALSE /\ score = 0 /\ rows = <<>> /\ records = <<>>
    /\ key = NoKey /\ issued = 0 /\ quats = {} /\ blacklist = FALSE
    /\ dayCount = NoCount /\ total = 0 /\ day = 0 /\ tianxuan = 0
    /\ pc = [r \in Req |-> "start"]
    /\ snap = [r \in Req |-> NoRow]
    /\ flag \in [Publish -> Flags] /\ quat \in [Publish -> [1 .. Dice -> Quaternions]]
    /\ looked = [p \in Publish |-> 0] /\ replay = [p \in Publish |-> FALSE]
    /\ ekey = [p \in Keyed |-> NoKey] /\ gkey = [p \in Keyed |-> NoKey]
    /\ upc = [p \in Publish |-> "off"] /\ rpc = [p \in Publish |-> "off"]
    /\ err = [p \in Publish |-> "nil"]
    /\ usedKeys = <<>> /\ granted = 0 /\ bannedWrite = FALSE /\ crashed = FALSE

-----------------------------------------------------------------------------
Goto(r, p) == pc' = [pc EXCEPT ![r] = p]

\* A store call of request r failed and the handler returned the error.
Fails(r) ==
    /\ Faults
    /\ pc[r] \notin {"start", "done", "join", "decode", "existQuat", "ban"}
    /\ Goto(r, "done")
    /\ UNCHANGED <<stored, redis, snap, input, fetched, threads, ghost>>

(***************************************************************************)
(* BoBingKey: unlink the old key (KeyExpires does that, too, the key lives *)
(* four seconds) and save a fresh one.                                     *)
(***************************************************************************)
NewKey == key' = issued + 1 /\ issued' = issued + 1

BoBingKey ==
    /\ issued < MaxKey
    /\ NewKey
    /\ UNCHANGED <<stored, quats, blacklist, dayCount, ranks, local, ghost>>

KeyExpires ==
    /\ key # NoKey
    /\ key' = NoKey
    /\ UNCHANGED <<stored, issued, quats, blacklist, dayCount, ranks, local, ghost>>

(***************************************************************************)
(* The gateway asks BoBingBlacklist before it forwards a publish.  That    *)
(* handler's day score test looks up a member with an empty nick name,     *)
(* which has no score, so only the blacklist itself refuses, and a Redis   *)
(* error counts as not listed.  The client encrypts with the key it was    *)
(* last given.  GetCount answers from the cache when it can.               *)
(***************************************************************************)
Start(r) ==
    /\ pc[r] = "start"
    /\ r \in Keyed => issued > 0
    /\ \/ /\ \/ r \in Publish /\ blacklist
             \/ r \in Query /\ (dayCount # NoCount \/ Faults)
          /\ Goto(r, "done")
       \/ /\ r \in Publish => ~blacklist \/ Faults
          /\ r \in Query => dayCount = NoCount
          /\ Goto(r, IF r \in Broadcast THEN "getKey" ELSE "exist")
    /\ ekey' = IF r \in Keyed THEN [ekey EXCEPT ![r] = issued] ELSE ekey
    /\ UNCHANGED <<stored, redis, snap, flag, quat, fetched, threads, ghost>>

(***************************************************************************)
(* The day's initialisation, common to publish, forward, count and init:   *)
(* unless a submission row exists, make sure of the rank row (publish and  *)
(* init create it, the others refuse), then append one.  The rank row is   *)
(* unique per player, the submission rows are not.                         *)
(***************************************************************************)
ExistDaySubmission(r) ==
    /\ pc[r] = "exist"
    /\ Goto(r, IF rows = <<>> THEN "rank" ELSE IF r \in DayInit THEN "done" ELSE "read")
    /\ UNCHANGED <<stored, redis, snap, input, fetched, threads, ghost>>

ExistRank(r) ==
    /\ pc[r] = "rank"
    /\ Goto(r, IF rank THEN "create"
               ELSE IF r \in Publish \cup DayInit THEN "creatRank" ELSE "done")
    /\ UNCHANGED <<stored, redis, snap, input, fetched, threads, ghost>>

CreatRank(r) ==
    /\ pc[r] = "creatRank"
    /\ Goto(r, IF rank THEN "done" ELSE "create")
    /\ rank' = TRUE
    /\ UNCHANGED <<score, rows, records, redis, snap, input, fetched, threads, ghost>>

\* Mutant: the forwarding throws are given with the row.
CreateDaySubmissionGenerous(r) ==
    /\ pc[r] = "create"
    /\ rows' = Append(rows, [count |-> 0, cond |-> TuiWen, tui |-> TuiWen])
    /\ Goto(r, IF r \in DayInit THEN "done" ELSE "read")
    /\ UNCHANGED <<rank, score, records, redis, snap, input, fetched, threads, ghost>>

CreateDaySubmission(r) ==
    /\ pc[r] = "create"
    /\ rows' = Append(rows, [count |-> 0, cond |-> 0, tui |-> TuiWen])
    /\ Goto(r, IF r \in DayInit THEN "done" ELSE "read")
    /\ UNCHANGED <<rank, score, records, redis, snap, input, fetched, threads, ghost>>

\* Whether a publish may go on with the submission it read.
HasThrows(s) == s.count < s.cond + Base

\* Mutant: the newest row.
FirstIndexNewest == Len(rows)

\* The row a request works on.  First: the oldest.
FirstIndex == 1
First == rows[FirstIndex]

GetDaySubmission(r) ==
    /\ pc[r] = "read"
    /\ snap' = [snap EXCEPT ![r] = First]
    /\ Goto(r, CASE r \in Publish -> IF HasThrows(First) THEN "getKey" ELSE "done"
                 [] r \in Forward -> IF First.tui > 0 THEN "update" ELSE "done"
                 [] r \in Query -> "remCount")
    /\ UNCHANGED <<stored, redis, input, fetched, threads, ghost>>

(***************************************************************************)
(* Publish and BroadcastCheck: fetch the key, destroy it, decode the       *)
(* request with it.                                                        *)
(***************************************************************************)
GetKey(p) ==
    /\ pc[p] = "getKey"
    /\ gkey' = [gkey EXCEPT ![p] = key]
    /\ Goto(p, IF key = NoKey THEN "done" ELSE "unlink")
    /\ UNCHANGED <<stored, redis, snap, input, looked, threads, ghost>>

UnlinkKey(p) ==
    /\ pc[p] = "unlink"
    /\ key' = NoKey
    /\ Goto(p, "decode")
    /\ UNCHANGED <<stored, issued, quats, blacklist, dayCount, ranks, snap, input, fetched,
                   threads, ghost>>

\* Decode, and ValidateParams for a publish.  With the wrong key decoding fails, or yields
\* what ValidateParams rejects, as a client may send with the right one, too.
Decode(p) ==
    /\ pc[p] = "decode"
    /\ \/ /\ gkey[p] = ekey[p]
          /\ Goto(p, IF p \in Publish THEN "existQuat" ELSE "done")
          /\ usedKeys' = Append(usedKeys, gkey[p])
          /\ replay' = IF p \in Publish
                       THEN [replay EXCEPT ![p] = \E i \in 1 .. Dice : quat[p][i] \in quats]
                       ELSE replay
       \/ /\ p \in Publish
          /\ Goto(p, "ban")
          /\ UNCHANGED <<usedKeys, replay>>
       \/ /\ Goto(p, "done")
          /\ UNCHANGED <<usedKeys, replay>>
    /\ UNCHANGED <<stored, redis, snap, input, fetched, threads, granted, bannedWrite,
                   crashed>>

\* SaveBlacklist, which may fail.
SaveBlacklist ==
    \/ blacklist' = TRUE
    \/ Faults /\ UNCHANGED blacklist

\* The ban of a publish with invalid parameters, seen positions or a flag out of range.
SaveCheat(p) ==
    /\ pc[p] = "ban"
    /\ SaveBlacklist
    /\ Goto(p, "done")
    /\ UNCHANGED <<stored, key, issued, quats, dayCount, ranks, snap, input, fetched,
                   threads, ghost>>

\* Mutant: the last position is not looked up.
ExistQuaternionButLast(p) ==
    /\ pc[p] = "existQuat"
    /\ LET v == quat[p][looked[p] + 1] IN
       \/ /\ v \in quats
          /\ Goto(p, "ban")
          /\ UNCHANGED looked
       \/ /\ v \notin quats \/ Faults
          /\ looked' = [looked EXCEPT ![p] = @ + 1]
          /\ Goto(p, IF looked[p] + 2 < Dice THEN "existQuat" ELSE "saveQuat")
    /\ UNCHANGED <<stored, redis, snap, input, gkey, threads, ghost>>

\* ExistQuaternion looks the positions up one by one; one seen before is taken for
\* cheating.  A Redis error counts as not seen.
ExistQuaternion(p) ==
    /\ pc[p] = "existQuat"
    /\ LET v == quat[p][looked[p] + 1] IN
       \/ /\ v \in quats
          /\ Goto(p, "ban")
          /\ UNCHANGED looked
       \/ /\ v \notin quats \/ Faults
          /\ looked' = [looked EXCEPT ![p] = @ + 1]
          /\ Goto(p, IF looked[p] + 1 < Dice THEN "existQuat" ELSE "saveQuat")
    /\ UNCHANGED <<stored, redis, snap, input, gkey, threads, ghost>>

\* SaveQuaternion, one SADD; then Atoi and the range check of the flag, and the two
\* goroutines start.
SaveQuaternion(p) ==
    /\ pc[p] = "saveQuat"
    /\ quats' = quats \cup {quat[p][i] : i \in 1 .. Dice}
    /\ \/ /\ flag[p] \in 1 .. 16
          /\ Goto(p, "join")
          /\ upc' = [upc EXCEPT ![p] = "update"]
          /\ rpc' = [rpc EXCEPT ![p] = "record"]
       \/ /\ flag[p] \notin 1 .. 16
          /\ Goto(p, IF flag[p] = NoFlag THEN "done" ELSE "ban")
          /\ UNCHANGED <<upc, rpc>>
    /\ UNCHANGED <<stored, key, issued, blacklist, dayCount, ranks, snap, input, fetched,
                   err, ghost>>

\* Mutant: the double cost of flag 1 is not corrected on the last throw.
ThrownUncorrected(s, f) ==
    IF f = 1 THEN [s EXCEPT !.count = s.count + 2]
    ELSE [s EXCEPT !.count = s.count + 1, !.cond = s.cond + BonusOf(f)]

\* The submission UpdateRank computes from the one the request read.
Thrown(s, f) ==
    IF f = 1
    THEN [s EXCEPT !.count = IF s.cond + Base - (s.count + 2) < 0 THEN s.count + 1
                             ELSE s.count + 2]
    ELSE [s EXCEPT !.count = s.count + 1, !.cond = s.cond + BonusOf(f)]

\* A row after the count and the condition of submission s were written to it.
Written(row, s) == [count |-> s.count, cond |-> s.cond, tui |-> row.tui]

\* UpdateRank: one database transaction, which re-reads the row it wrote.  A failure
\* leaves the goroutine with an empty submission; a failed commit goes unnoticed.
UpdateRank(p) ==
    LET new == Thrown(snap[p], flag[p])
    IN  /\ upc[p] = "update"
        /\ \/ /\ score' = score + ScoreOf(flag[p])
              /\ rows' = [rows EXCEPT ![FirstIndex] = Written(First, new)]
              /\ snap' = [snap EXCEPT ![p] = Written(First, new)]
              /\ err' = [err EXCEPT ![p] = "nil"]
              /\ granted' = granted + BonusOf(flag[p])
           \/ /\ Faults
              /\ \/ /\ snap' = [snap EXCEPT ![p] = NoRow]
                    /\ err' = [err EXCEPT ![p] = "error"]
                 \/ /\ snap' = [snap EXCEPT ![p] = Written(First, new)]
                    /\ err' = [err EXCEPT ![p] = "nil"]
              /\ UNCHANGED <<score, rows, granted>>
        /\ upc' = [upc EXCEPT ![p] = "count"]
        /\ UNCHANGED <<rank, records, redis, pc, input, fetched, rpc, usedKeys, replay,
                       bannedWrite, crashed>>

\* The remaining throws SaveDayCount files, after removing what was filed before; an
\* empty submission is filed under an empty player.
Remaining(s) == Base + s.cond - s.count
Removed(s) == IF s = NoRow THEN dayCount ELSE NoCount
Filed(s) == IF s = NoRow THEN dayCount ELSE Remaining(s)

\* The goroutine calls SaveDayCount only if the shared err is nil, whoever wrote it, and
\* the result of the call overwrites err.
UpdateCount(p) ==
    /\ \/ /\ upc[p] = "count" /\ err[p] # "nil"
          /\ upc' = [upc EXCEPT ![p] = "done"]
          /\ UNCHANGED <<dayCount, err>>
       \/ /\ upc[p] = "count" /\ err[p] = "nil" /\ snap[p].cond >= Cap
          /\ upc' = [upc EXCEPT ![p] = "ban"]
          /\ err' = [err EXCEPT ![p] = "cheat"]
          /\ UNCHANGED dayCount
       \/ /\ upc[p] = "count" /\ err[p] = "nil" /\ snap[p].cond < Cap
          /\ upc' = [upc EXCEPT ![p] = "add"]
          /\ dayCount' = Removed(snap[p])
          /\ UNCHANGED err
       \/ /\ upc[p] = "count" /\ err[p] = "nil" /\ snap[p].cond < Cap /\ Faults
          /\ upc' = [upc EXCEPT ![p] = "done"]
          /\ err' = [err EXCEPT ![p] = "error"]
          /\ UNCHANGED dayCount
       \/ /\ upc[p] = "add"
          /\ upc' = [upc EXCEPT ![p] = "done"]
          /\ \/ /\ dayCount' = Filed(snap[p])
                /\ err' = [err EXCEPT ![p] = "nil"]
             \/ /\ Faults
                /\ err' = [err EXCEPT ![p] = "error"]
                /\ UNCHANGED dayCount
    /\ UNCHANGED <<stored, key, issued, quats, blacklist, ranks, pc, snap, input, fetched,
                   rpc, ghost>>

(***************************************************************************)
(* The ban for too many extra throws.  The shared err is read again, once  *)
(* against nil and once for its text: the record goroutine may have        *)
(* overwritten it before the first read, which skips the ban, or between   *)
(* the two, which ends the process with a nil dereference.                 *)
(***************************************************************************)
Ban(p) ==
    /\ upc[p] = "ban"
    /\ upc' = [upc EXCEPT ![p] = "done"]
    /\ \/ /\ err[p] = "cheat"
          /\ \/ /\ blacklist' = TRUE
                /\ err' = [err EXCEPT ![p] = "banned"]
             \/ /\ Faults
                /\ err' = [err EXCEPT ![p] = "error"]
                /\ UNCHANGED blacklist
       \/ /\ err[p] # "cheat"
          /\ UNCHANGED <<blacklist, err>>
    /\ UNCHANGED <<stored, key, issued, quats, dayCount, ranks, pc, snap, input, fetched,
                   rpc, ghost>>

\* Every request in flight ends with the process.
Panic(p) ==
    /\ upc[p] = "ban" /\ err[p] = "nil"
    /\ pc' = [r \in Req |-> IF pc[r] = "start" THEN "start" ELSE "done"]
    /\ upc' = [q \in Publish |-> IF upc[q] = "off" THEN "off" ELSE "done"]
    /\ rpc' = [q \in Publish |-> IF rpc[q] = "off" THEN "off" ELSE "done"]
    /\ crashed' = TRUE
    /\ UNCHANGED <<stored, redis, snap, input, fetched, err, usedKeys, replay, granted,
                   bannedWrite>>

SaveRecord(p) ==
    /\ rpc[p] = "record"
    /\ rpc' = [rpc EXCEPT ![p] = "done"]
    /\ \/ /\ records' = Append(records, flag[p])
          /\ err' = [err EXCEPT ![p] = "nil"]
          /\ bannedWrite' = (bannedWrite \/ blacklist)
       \/ /\ Faults
          /\ err' = [err EXCEPT ![p] = "error"]
          /\ UNCHANGED <<records, bannedWrite>>
    /\ UNCHANGED <<rank, score, rows, redis, pc, snap, input, fetched, upc, usedKeys,
                   replay, granted, crashed>>

\* Mutant: the wait group counts one goroutine.
JoinOne(p) ==
    /\ pc[p] = "join" /\ upc[p] = "done"
    /\ Goto(p, IF err[p] # "nil" THEN "done"
               ELSE IF flag[p] >= 10 THEN "zhuangYuan" ELSE "total")
    /\ UNCHANGED <<stored, redis, snap, input, fetched, threads, ghost>>

\* wg.Wait, then SaveZhuangYuan for the best throws, SaveToTalScore, SaveDayScore and,
\* for rare throws, a new key.
Join(p) ==
    /\ pc[p] = "join" /\ upc[p] = "done" /\ rpc[p] = "done"
    /\ Goto(p, IF err[p] # "nil" THEN "done"
               ELSE IF flag[p] >= 10 THEN "zhuangYuan" ELSE "total")
    /\ UNCHANGED <<stored, redis, snap, input, fetched, threads, ghost>>

SaveZhuangYuan(p) ==
    /\ pc[p] = "zhuangYuan"
    /\ tianxuan' = tianxuan + 1
    /\ Goto(p, "total")
    /\ UNCHANGED <<stored, key, issued, quats, blacklist, dayCount, total, day, snap,
                   input, fetched, threads, ghost>>

SaveToTalScore(p) ==
    /\ pc[p] = "total"
    /\ total' = total + ScoreOf(flag[p])
    /\ Goto(p, "day")
    /\ UNCHANGED <<stored, key, issued, quats, blacklist, dayCount, day, tianxuan, snap,
                   input, fetched, threads, ghost>>

SaveDayScore(p) ==
    /\ pc[p] = "day"
    /\ day' = day + ScoreOf(flag[p])
    /\ Goto(p, IF flag[p] >= 4 THEN "rareKey" ELSE "done")
    /\ UNCHANGED <<stored, key, issued, quats, blacklist, dayCount, total, tianxuan, snap,
                   input, fetched, threads, ghost>>

SaveRareKey(p) ==
    /\ pc[p] = "rareKey"
    /\ NewKey
    /\ Goto(p, "done")
    /\ UNCHANGED <<stored, quats, blacklist, dayCount, ranks, snap, input, fetched,
                   threads, ghost>>

(***************************************************************************)
(* Retransmission: UpdateSubmission writes condition and tui_wen of every  *)
(* row of the day, computed from the submission that was read.             *)
(***************************************************************************)
UpdateSubmission(f) ==
    LET cond == snap[f].cond + 1
        tui == snap[f].tui - 1
    IN  /\ pc[f] = "update"
        /\ rows' = [i \in DOMAIN rows |->
                        [count |-> rows[i].count, cond |-> cond, tui |-> tui]]
        /\ snap' = [snap EXCEPT ![f] = [count |-> snap[f].count, cond |-> cond, tui |-> tui]]
        /\ granted' = granted + 1
        /\ Goto(f, "remCount")
        /\ UNCHANGED <<rank, score, records, redis, input, fetched, threads, usedKeys,
                       replay, bannedWrite, crashed>>

\* SaveDayCount at the end of Retransmission and GetCount; only the former bans.
SaveDayCount(r) ==
    /\ \/ /\ pc[r] = "remCount" /\ snap[r].cond >= Cap
          /\ IF r \in Forward THEN SaveBlacklist ELSE UNCHANGED blacklist
          /\ Goto(r, "done")
          /\ UNCHANGED dayCount
       \/ /\ pc[r] = "remCount" /\ snap[r].cond < Cap
          /\ dayCount' = NoCount
          /\ Goto(r, "addCount")
          /\ UNCHANGED blacklist
       \/ /\ pc[r] = "addCount"
          /\ dayCount' = Remaining(snap[r])
          /\ Goto(r, "done")
          /\ UNCHANGED blacklist
    /\ UNCHANGED <<stored, key, issued, quats, ranks, snap, input, fetched, threads,
                   ghost>>

Common(r) ==
    \/ Start(r) \/ Fails(r) \/ ExistDaySubmission(r) \/ ExistRank(r) \/ CreatRank(r)
    \/ CreateDaySubmission(r) \/ GetDaySubmission(r)

Opened(p) == GetKey(p) \/ UnlinkKey(p) \/ Decode(p)

Throw(p) ==
    \/ ExistQuaternion(p) \/ SaveCheat(p) \/ SaveQuaternion(p)
    \/ UpdateRank(p) \/ UpdateCount(p) \/ Ban(p) \/ Panic(p) \/ SaveRecord(p)
    \/ Join(p) \/ SaveZhuangYuan(p) \/ SaveToTalScore(p) \/ SaveDayScore(p) \/ SaveRareKey(p)

Next ==
    \/ BoBingKey \/ KeyExpires
    \/ \E r \in Req : Common(r)
    \/ \E r \in Keyed : Opened(r)
    \/ \E p \in Publish : Throw(p)
    \/ \E f \in Forward : UpdateSubmission(f)
    \/ \E r \in Forward \cup Query : SaveDayCount(r)

Spec == Init /\ [][Next]_vars

-----------------------------------------------------------------------------
Row == [count : Int, cond : Int, tui : Int]
Keys == 0 .. (MaxKey + Cardinality(Publish))

\* The type invariant of the game's state.
TypeOK ==
    /\ rank \in BOOLEAN /\ score \in Nat /\ rows \in Seq(Row)
    /\ records \in Seq(Flags) /\ key \in Keys /\ issued \in Keys
    /\ quats \subseteq Quaternions /\ blacklist \in BOOLEAN
    /\ dayCount \in Int /\ total \in Nat /\ day \in Nat /\ tianxuan \in Nat
    /\ snap \in [Req -> Row] /\ ekey \in [Keyed -> Keys] /\ gkey \in [Keyed -> Keys]
    /\ looked \in [Publish -> 0 .. Dice] /\ replay \in [Publish -> BOOLEAN]
    /\ err \in [Publish -> {"nil", "error", "cheat", "banned"}]

\* No request is being served.
Quiet == \A r \in Req : pc[r] \in {"start", "done"}
RecordedScore == SumFunction([i \in DOMAIN records |-> ScoreOf(records[i])])

(***************************************************************************)
(* Where no store call fails, the two goroutines and the two Redis ranks   *)
(* tell one story: once the requests are served, the score of the rank row *)
(* is the sum of the records, the two ranks agree, and they fall short of  *)
(* the rank row only by throws that ended in a ban (BoBingPublish).        *)
(***************************************************************************)
ScoresAgree ==
    Quiet /\ ~crashed /\ ~Faults =>
        /\ score = RecordedScore
        /\ total = day
        /\ total <= score
        /\ (\A p \in Publish : err[p] = "nil") =>
              /\ total = score
              /\ tianxuan = Cardinality({i \in DOMAIN records : records[i] >= 10})

\* Concurrent first requests of a day may create several submission rows, but no throw is
\* ever counted on another row than the oldest (ExistDaySubmissionByOpenId is checked
\* long before CreateDaySubmission; First and UpdateRank's id decide).
DuplicateRowsUnused == \A i \in DOMAIN rows : i > 1 => rows[i].count = 0

\* Rows are typed, and the spare row that a doubled first request of the day leaves
\* is never used.
RowsSound == TypeOK /\ DuplicateRowsUnused

\* However publish requests overlap, no submission row records more throws than its quota
\* (BoBingPublish's test of Count and UpdateRank's correction for flag 1).
NeverOverdrawn == \A i \in DOMAIN rows : rows[i].count <= rows[i].cond + Base

\* Lost updates between publish and forward only ever lose extra throws: no row shows more
\* than were granted, whatever fails (UpdateRank and UpdateSubmission write absolute
\* values computed from a submission read earlier).
ConditionWithinGrants == \A i \in DOMAIN rows : rows[i].cond <= granted

\* A throw with a position that was saved before it was decoded changes no score and saves
\* no record, whatever is looked up and saved between the look-ups of its positions; once it
\* is served the player is banned, unless another throw has ended the process
\* (ExistQuaternion, SaveQuaternion and SaveBlacklist in BoBingPublish are calls of their
\* own; two throws that share a position may both pass if they overlap).
ReplayIsBanned ==
    ~Faults => \A p \in Publish : replay[p] =>
        /\ upc[p] = "off" /\ rpc[p] = "off"
        /\ pc[p] = "done" => blacklist \/ crashed

-----------------------------------------------------------------------------
\* boBing.go, before GetDaySubmissionByOpenId: a player without throws left is turned
\* away.  So no more throws are recorded than the day's quota with all that was granted.
ThrowsWithinQuota == Len(records) <= Base + granted

\* boBing.go, before UnlinkKey: the key is destroyed before it is used, so no key opens
\* two requests.
KeyUsedOnce ==
    \A i, j \in DOMAIN usedKeys : usedKeys[i] = usedKeys[j] => i = j

\* pkg/verify.go: a banned player's throws are not recorded, whatever is thrown.
BannedRecordsNothing == ~bannedWrite

\* SaveDayCount refuses with "cheating was detected, you are on the blacklist": once the
\* throw is served the player is on it.
CheatIsBanned ==
    \A p \in Publish : pc[p] = "done" /\ upc[p] = "done" /\ snap[p].cond >= Cap => blacklist

\* boBing.go, before SaveRecord: the record is written for later verification.  So what
\* the ranking shows is backed by records.
RankedIsRecorded == total <= RecordedScore

\* models/submission.go: Condition is the number of throws added.
ConditionCountsGrants == Quiet /\ rows # <<>> => First.cond = granted

\* The count the player is shown is the one of the submission once all requests are served.
CountIsCurrent == Quiet /\ dayCount # NoCount => dayCount = Remaining(First)

-----------------------------------------------------------------------------
\* For TLC: requests of one kind are alike.
Alike ==
    Permutations(Publish) \cup Permutations(Forward) \cup Permutations(Query)
        \cup Permutations(DayInit)
=============================================================================
