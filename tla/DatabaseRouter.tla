--------------------------- MODULE DatabaseRouter ---------------------------
(***************************************************************************)
(* The read/write router and the sharding of app/common/performance/       *)
(* database_router.go.                                                     *)
(*                                                                         *)
(* A read takes the strategy's lock to choose a slave (GetSlaveIndex),     *)
(* takes it again to ask whether that slave is healthy (GetSlaveHealth),   *)
(* counts under the router's lock, queries, and marks the slave unhealthy  *)
(* when the query fails: every lock period is an action, and the callers   *)
(* interleave between them.  The two strategies, round robin and weighted, *)
(* have the same code: the weights are stored and never read.              *)
(*                                                                         *)
(* The databases are external: a query fails or does not.  Nothing in the  *)
(* repository calls SetSlaveHealth with TRUE; Recovers is that call by a   *)
(* user of the interface.                                                  *)
(***************************************************************************)
EXTENDS Integers, FiniteSetsExt, SequencesExt

CONSTANTS
    Caller,       \* goroutines that read
    SlaveCount,   \* len(slaveHealth) of the strategy
    SlaveDBs,     \* len(slaveDBs) of the router
    Key,          \* shard keys, as sequences of runes
    ShardCount,   \* shardCount of the hash strategy, len(ranges) of the other
    Databases,    \* len(databases) of the sharding
    Width,        \* the width of int, 64 in the build
    Ranges,       \* the upper ends of the range strategy
    MaxQueries    \* bound on the queries counted

VARIABLES
    currentIndex, slaveHealth,   \* the strategy
    stats,                       \* RouterStats
    call,                        \* where each reader is
    sharding,                    \* ShardingStats, and whether a call panicked
    waited                       \* ghost: choices since a slave was last chosen

vars == <<currentIndex, slaveHealth, stats, call, sharding, waited>>

Slave == 0 .. SlaveCount - 1
Healthy == {s \in Slave : slaveHealth[s]}

TypeOK ==
    /\ currentIndex \in 0 .. SlaveCount
    /\ slaveHealth \in [Slave -> BOOLEAN]
    /\ stats \in [master : Nat, slave : Nat, total : Nat, errors : Nat]
    /\ call \in [Caller -> [pc : {"idle", "chosen", "master", "slave", "query", "error"},
                            row : BOOLEAN, slave : 0 .. SlaveCount]]
    /\ sharding \in [shards : [0 .. Databases - 1 -> Nat], total : Nat, errors : Nat,
                     panicked : BOOLEAN]
    /\ waited \in [Slave -> Nat]

Init ==
    /\ currentIndex = 0
    /\ slaveHealth = [s \in Slave |-> FALSE]
    /\ stats = [master |-> 0, slave |-> 0, total |-> 0, errors |-> 0]
    /\ call = [c \in Caller |-> [pc |-> "idle", row |-> FALSE, slave |-> 0]]
    /\ sharding = [shards |-> [d \in 0 .. Databases - 1 |-> 0], total |-> 0, errors |-> 0,
                   panicked |-> FALSE]
    /\ waited = [s \in Slave |-> 0]

-----------------------------------------------------------------------------
(* The strategy. *)

\* The loop of GetSlaveIndex: the first healthy slave after currentIndex,
\* currentIndex itself being the last one tried.  A loop that finds none has
\* gone once round and returns 0.
ChosenWithin(tries) ==
    LET hits == {i \in tries : slaveHealth[(currentIndex + i) % SlaveCount]}
        next == (currentIndex + Min(hits)) % SlaveCount
    IN  IF hits = {} THEN [index |-> currentIndex, slave |-> 0]
                     ELSE [index |-> next, slave |-> next]

\* Mutant: the loop ends one slave early.
ChosenShort == ChosenWithin(1 .. SlaveCount - 1)

Chosen == ChosenWithin(1 .. SlaveCount)

Queries == stats.total + sharding.total + sharding.errors

\* Query (row = FALSE) and QueryRow (row = TRUE): Route sends every read to a
\* slave; querySlave and queryRowSlave start with GetSlaveIndex.
GetSlaveIndex(c, row) ==
    /\ call[c].pc = "idle"
    /\ Queries < MaxQueries
    /\ LET next == Chosen
       IN  /\ currentIndex' = next.index
           /\ call' = [call EXCEPT ![c] =
                 [pc |-> IF next.slave >= SlaveDBs THEN "master" ELSE "chosen",
                  row |-> row, slave |-> next.slave]]
           /\ waited' = [s \in Slave |->
                 IF s = next.slave \/ ~slaveHealth[s] THEN 0 ELSE waited[s] + 1]
    /\ UNCHANGED <<slaveHealth, stats, sharding>>

GetSlaveHealth(c) ==
    /\ call[c].pc = "chosen"
    /\ LET healthy == call[c].slave \in Slave /\ slaveHealth[call[c].slave]
       IN  call' = [call EXCEPT ![c].pc = IF healthy THEN "slave" ELSE "master"]
    /\ UNCHANGED <<currentIndex, slaveHealth, stats, sharding, waited>>

SetSlaveHealth(s, healthy) ==
    /\ slaveHealth' = [slaveHealth EXCEPT ![s] = healthy]
    /\ waited' = [t \in Slave |-> 0]

Recovers(s) ==
    /\ ~slaveHealth[s]
    /\ SetSlaveHealth(s, TRUE)
    /\ UNCHANGED <<currentIndex, stats, call, sharding>>

-----------------------------------------------------------------------------
(* The router. *)

CountMaster == stats' = [stats EXCEPT !.master = @ + 1, !.total = @ + 1]

QueryMaster(c) ==
    /\ call[c].pc = "master"
    /\ CountMaster
    /\ call' = [call EXCEPT ![c].pc = "idle"]
    /\ UNCHANGED <<currentIndex, slaveHealth, sharding, waited>>

QuerySlave(c) ==
    /\ call[c].pc = "slave"
    /\ stats' = [stats EXCEPT !.slave = @ + 1, !.total = @ + 1]
    /\ call' = [call EXCEPT ![c].pc = "query"]
    /\ UNCHANGED <<currentIndex, slaveHealth, sharding, waited>>

\* The slave answers: QueryRow does not look at the error, Query marks the
\* slave before it counts the error.
Answered(c) ==
    /\ call[c].pc = "query"
    /\ call' = [call EXCEPT ![c].pc = "idle"]
    /\ UNCHANGED <<currentIndex, slaveHealth, stats, sharding, waited>>

QueryFails(c) ==
    /\ call[c].pc = "query"
    /\ ~call[c].row
    /\ SetSlaveHealth(call[c].slave, FALSE)
    /\ call' = [call EXCEPT ![c].pc = "error"]
    /\ UNCHANGED <<currentIndex, stats, sharding>>

CountError(c) ==
    /\ call[c].pc = "error"
    /\ stats' = [stats EXCEPT !.errors = @ + 1]
    /\ call' = [call EXCEPT ![c].pc = "idle"]
    /\ UNCHANGED <<currentIndex, slaveHealth, sharding, waited>>

\* Exec: the master, whatever the strategy says.
Exec ==
    /\ Queries < MaxQueries
    /\ CountMaster
    /\ UNCHANGED <<currentIndex, slaveHealth, call, sharding, waited>>

-----------------------------------------------------------------------------
(* Sharding. *)

\* Two's complement: the value an int of Width bits keeps of n.
Wrapped(n) ==
    LET low == n % 2^Width
    IN  IF low >= 2^(Width - 1) THEN low - 2^Width ELSE low

Hash(key) == FoldLeft(LAMBDA h, rune : Wrapped(h * 31 + rune), 0, key)

\* Go's remainder takes the sign of the dividend.
Remainder(a, b) == IF a >= 0 THEN a % b ELSE -((-a) % b)

HashShard(key) == Remainder(Hash(key), ShardCount)

RangeShard(key) ==
    LET above == {i \in DOMAIN Ranges : Hash(key) < Ranges[i]}
    IN  IF above = {} THEN Len(Ranges) - 1
        ELSE Min(above) - 1

\* Query, QueryRow and Exec of the sharding: an index past the end is an
\* error nobody counts, a negative one panics.  A query that fails is counted
\* as an error; QueryRow does not learn that it failed, and counts a query.
Sharded(shard, fails) ==
    /\ Queries < MaxQueries
    /\ ~sharding.panicked
    /\ shard < Databases
    /\ sharding' =
         CASE shard < 0 -> [sharding EXCEPT !.panicked = TRUE]
           [] shard >= 0 /\ fails -> [sharding EXCEPT !.errors = @ + 1]
           [] OTHER -> [sharding EXCEPT !.shards[shard] = @ + 1, !.total = @ + 1]
    /\ UNCHANGED <<currentIndex, slaveHealth, stats, call, waited>>

HashSharded == \E k \in Key, fails \in BOOLEAN : Sharded(HashShard(k), fails)
RangeSharded == \E k \in Key, fails \in BOOLEAN : Sharded(RangeShard(k), fails)

Next ==
    \/ \E c \in Caller, row \in BOOLEAN : GetSlaveIndex(c, row)
    \/ \E c \in Caller : GetSlaveHealth(c) \/ QueryMaster(c) \/ QuerySlave(c)
    \/ \E c \in Caller : Answered(c) \/ QueryFails(c) \/ CountError(c)
    \/ \E s \in Slave : Recovers(s)
    \/ Exec \/ HashSharded \/ RangeSharded

Spec == Init /\ [][Next]_vars

-----------------------------------------------------------------------------
(* Properties. *)

\* While the healthy slaves stay the same, the reads go round them: no
\* healthy slave sees as many choices pass as there are healthy slaves, so
\* GetSlaveIndex finds the only healthy one from every currentIndex.
RotationIsFair == \A s \in Healthy : waited[s] < Cardinality(Healthy)

\* Every read that was counted has answered, is under way or has failed: an
\* error is counted for a query of a slave only.
ErrorsAreSlaveQueries ==
    /\ stats.errors + Cardinality({c \in Caller : call[c].pc \in {"query", "error"}})
         <= stats.slave
    /\ stats.total = stats.master + stats.slave

\* Claim (database_router.go:202, "读操作使用从库"): a read that
\* finds a healthy slave is not sent to the master.  The choice and the
\* health check are two lock periods, and a slave nobody called
\* SetSlaveHealth for is unhealthy from the start.
ReadsUseSlaves ==
    \A c \in Caller : call[c].pc = "master" => Healthy = {}

\* Claim (the bounds check of DatabaseSharding.Query, database_router.go:424):
\* no key panics.  The hash of a long key overflows to a negative int, whose
\* remainder is negative.
ShardInRange == ~sharding.panicked
=============================================================================
