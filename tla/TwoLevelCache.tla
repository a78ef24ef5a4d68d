--------------------------- MODULE TwoLevelCache ---------------------------
(***************************************************************************)
(* AdvancedCache, MultiLevelCache, WarmupManager, CacheWithFallback        *)
(* (app/common/container/advanced_cache.go, cache_manager.go) for one key  *)
(* on several nodes: a local cache that never expires over a redis that    *)
(* does.  A value is the number of the write it comes from, 0 is none.     *)
(***************************************************************************)
EXTENDS Naturals

CONSTANTS Node, Caller, NoNode, MaxWrites   \* MaxWrites: bound on the values

VARIABLES
    local, redis,    \* node -> its local value; the value in redis
    source,          \* the last value written: what a loader or fallback returns
    client,          \* node -> its redis client: "none", "open" or "closed"
    at, node, val,   \* caller -> its point, its node, the value in its hands
    calm             \* node -> nothing that can make it stale has happened so far

vars == <<local, redis, source, client, at, node, val, calm>>

Idle == {c \in Caller : at[c] = "idle"}

Init ==
    /\ local = [n \in Node |-> 0] /\ redis = 0 /\ source = 0
    /\ client = [n \in Node |-> "none"]
    /\ at = [c \in Caller |-> "idle"] /\ node = [c \in Caller |-> NoNode]
    /\ val = [c \in Caller |-> 0] /\ calm = [n \in Node |-> TRUE]

\* A call of c on node n begins; it is not alone when another one is under way.
Begin(c, n, point, v) ==
    /\ at[c] = "idle" /\ client[n] # "none"
    /\ at' = [at EXCEPT ![c] = point] /\ node' = [node EXCEPT ![c] = n]
    /\ val' = [val EXCEPT ![c] = v]
    /\ calm' = [m \in Node |-> calm[m] /\ Idle = Caller]

End(c) ==
    /\ at' = [at EXCEPT ![c] = "idle"] /\ node' = [node EXCEPT ![c] = NoNode]
    /\ val' = [val EXCEPT ![c] = 0]

\* Redis answers: never on a closed client, else with or without an error.
Answers(c) == IF client[node[c]] = "open" THEN BOOLEAN ELSE {FALSE}

\* A write of c to redis came through, or failed.
Wrote(c, ok) ==
    calm' = [m \in Node |-> calm[m] /\ (IF ok THEN m = node[c] ELSE m # node[c])]

-----------------------------------------------------------------------------
\* GetOrCreateClient: a client that exists is returned as it is, closed or not.
InitClient(n) ==
    /\ client[n] = "none" /\ client' = [client EXCEPT ![n] = "open"]
    /\ UNCHANGED <<local, redis, source, at, node, val, calm>>

Close(n) ==
    /\ client[n] = "open" /\ client' = [client EXCEPT ![n] = "closed"]
    /\ UNCHANGED <<local, redis, source, at, node, val, calm>>

\* Get on a local miss; a hit changes nothing.
Get(c, n) ==
    /\ local[n] = 0 /\ Begin(c, n, "get", 0)
    /\ UNCHANGED <<local, redis, source, client>>

\* Redis has the value, or the call ends with an error (CacheGuards has which), or, with
\* a fallback, the value is loaded and a goroutine is to set it.
GetRedis(c) ==
    /\ at[c] = "get"
    /\ \E ok \in Answers(c) :
          IF ok /\ redis # 0
          THEN /\ val' = [val EXCEPT ![c] = redis] /\ at' = [at EXCEPT ![c] = "back"]
               /\ UNCHANGED node
          ELSE \/ End(c)
               \/ /\ source # 0 /\ val' = [val EXCEPT ![c] = source]
                  /\ at' = [at EXCEPT ![c] = "async"] /\ UNCHANGED node
    /\ UNCHANGED <<local, redis, source, client, calm>>

WriteBack(c) ==
    /\ at[c] = "back"
    /\ local' = [local EXCEPT ![node[c]] = val[c]] /\ End(c)
    /\ UNCHANGED <<redis, source, client, calm>>

\* Set writes the local cache first ...
Set(c, n) ==
    /\ source < MaxWrites /\ source' = source + 1
    /\ local' = [local EXCEPT ![n] = source + 1]
    /\ Begin(c, n, "set", source + 1)
    /\ UNCHANGED <<redis, client>>

\* ... also when it is the goroutine of a fallback that sets ...
SetLater(c) ==
    /\ at[c] = "async"
    /\ local' = [local EXCEPT ![node[c]] = val[c]] /\ at' = [at EXCEPT ![c] = "set"]
    /\ UNCHANGED <<redis, source, client, node, val, calm>>

\* ... then redis; an error leaves the local value.
SetRedis(c) ==
    /\ at[c] \in {"set", "warm"}
    /\ \E ok \in Answers(c) :
          redis' = (IF ok THEN val[c] ELSE redis) /\ Wrote(c, ok)
    /\ End(c)
    /\ UNCHANGED <<local, source, client>>

\* Mutant: Delete only deletes in redis.
ForgottenNowhere(n) == local

Forgotten(n) == [local EXCEPT ![n] = 0]

Delete(c, n) ==
    /\ local' = Forgotten(n) /\ Begin(c, n, "delete", 0)
    /\ UNCHANGED <<redis, source, client>>

DeleteRedis(c) ==
    /\ at[c] = "delete"
    /\ \E ok \in Answers(c) : redis' = (IF ok THEN 0 ELSE redis) /\ Wrote(c, ok)
    /\ End(c)
    /\ UNCHANGED <<local, source, client>>

\* Warmup, one at a time per node: a key redis does not have is loaded and set there,
\* whatever redis holds by then.
Warmup(c, n) ==
    /\ redis = 0 /\ source # 0 /\ client[n] = "open"
    /\ ~ \E d \in Caller : at[d] = "warm" /\ node[d] = n
    /\ Begin(c, n, "warm", source)
    /\ UNCHANGED <<local, redis, source, client>>

\* The TTL, lengthened or shortened at random by Set.
Expire ==
    /\ redis # 0 /\ redis' = 0 /\ calm' = [n \in Node |-> FALSE]
    /\ UNCHANGED <<local, source, client, at, node, val>>

Next ==
    \/ \E n \in Node : InitClient(n) \/ Close(n)
    \/ \E c \in Caller :
          \/ GetRedis(c) \/ WriteBack(c) \/ SetLater(c) \/ SetRedis(c) \/ DeleteRedis(c)
          \/ \E n \in Node : Get(c, n) \/ Set(c, n) \/ Delete(c, n) \/ Warmup(c, n)
    \/ Expire

Spec == Init /\ [][Next]_vars

-----------------------------------------------------------------------------
\* The type invariant of the caches.
TypeOK ==
    /\ local \in [Node -> 0 .. MaxWrites] /\ redis \in 0 .. MaxWrites
    /\ source \in 0 .. MaxWrites /\ client \in [Node -> {"none", "open", "closed"}]
    /\ at \in [Caller -> {"idle", "get", "back", "async", "set", "delete", "warm"}]
    /\ node \in [Caller -> Node \cup {NoNode}] /\ val \in [Caller -> 0 .. MaxWrites]

\* A local value is stale only for a cause: calls overlapped, another node wrote, a write
\* to redis failed or the value expired.  Without one, a node at rest has what redis has.
StaleHasCause ==
    \A n \in Node : calm[n] /\ Idle = Caller => local[n] \in {0, redis}

\* Two levels agree whenever nobody is at work.
LevelsAgree == Idle = Caller => \A n \in Node : local[n] \in {0, redis}
=============================================================================
