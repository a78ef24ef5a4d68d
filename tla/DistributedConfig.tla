------------------------- MODULE DistributedConfig -------------------------
(***************************************************************************)
(* ConfigManager (app/common/config/distributed_config.go) on several      *)
(* nodes and one key.  A change of the key in etcd is a revision; a node's *)
(* cache holds the value of some revision, or nothing.  A call writes to   *)
(* etcd and then, in a step of its own, to the cache; every WatchConfig    *)
(* and WatchAllConfigs starts a watch, which gets the revisions that       *)
(* follow and applies them to the cache of its node in order, at its own   *)
(* pace.                                                                   *)
(***************************************************************************)
EXTENDS Integers, Sequences, FiniteSets

CONSTANTS
    Node, Caller, Watcher,
    NodeOf,        \* caller or watcher -> its node
    MaxRevisions   \* bound on the changes

VARIABLES
    etcd,      \* the changes so far: "put" or "delete"
    cache,     \* node -> the revision whose value it holds; 0: no entry
    from,      \* watcher -> the revision its watch begins after; -1: not begun
    seen,      \* watcher -> the revision its watch has come to
    own,       \* node -> revisions its own calls put into the cache
    at, rev,   \* caller -> its point, the revision it wrote or read
    old,       \* caller -> the revision its cache held before
    history    \* revision -> the revision its record names as OldValue

vars == <<etcd, cache, from, seen, own, at, rev, old, history>>

Revisions == 1 .. MaxRevisions
Last == Len(etcd)

Init ==
    /\ etcd = <<>> /\ cache = [n \in Node |-> 0]
    /\ from = [w \in Watcher |-> -1] /\ seen = [w \in Watcher |-> -1]
    /\ own = [n \in Node |-> {}]
    /\ at = [c \in Caller |-> "idle"] /\ rev = [c \in Caller |-> 0]
    /\ old = [c \in Caller |-> 0]
    /\ history = [v \in {} |-> 0]

\* What the cache holds after revision v: a delete removes the entry.
Held(v) == IF v # 0 /\ etcd[v] = "put" THEN v ELSE 0

Moves(c, point) == at' = [at EXCEPT ![c] = point]

-----------------------------------------------------------------------------
\* etcd takes the change as revision v: 0 for a delete of a key that is not there.
WriteEtcd(c, op, v) ==
    /\ at[c] = "idle"
    /\ etcd' = IF v = 0 THEN etcd ELSE Append(etcd, op)
    /\ rev' = [rev EXCEPT ![c] = v]
    /\ old' = [old EXCEPT ![c] = cache[NodeOf[c]]]
    /\ Moves(c, "cache")
    /\ UNCHANGED <<cache, from, seen, own, history>>

\* The Put of SetConfig.  An error leaves all as it is.
SetConfig(c) == Last < MaxRevisions /\ WriteEtcd(c, "put", Last + 1)

\* The Delete of DeleteConfig, which reads the old value before.
DeleteConfig(c) ==
    /\ Last < MaxRevisions
    /\ WriteEtcd(c, "delete", IF Held(Last) = 0 THEN 0 ELSE Last + 1)

\* The cache is overwritten with what this call wrote, whatever it holds by now.
UpdateCache(c) ==
    /\ at[c] = "cache"
    /\ cache' = [cache EXCEPT ![NodeOf[c]] = Held(rev[c])]
    /\ old' = [old EXCEPT ![c] = IF Held(rev[c]) # 0 THEN cache[NodeOf[c]] ELSE @]
    /\ own' = [own EXCEPT ![NodeOf[c]] = @ \cup {rev[c]}]
    /\ Moves(c, "history")
    /\ UNCHANGED <<etcd, from, seen, rev, history>>

\* The record of the change, whose error is dropped; then notifyWatchers calls the
\* watchers, functions of the callers.
RecordChange(c) ==
    /\ at[c] = "history"
    /\ \/ /\ rev[c] # 0
          /\ history' = [v \in DOMAIN history \cup {rev[c]} |->
                            IF v = rev[c] THEN old[c] ELSE history[v]]
       \/ UNCHANGED history
    /\ Moves(c, "idle")
    /\ UNCHANGED <<etcd, cache, from, seen, own, rev, old>>

\* GetConfig without an entry reads etcd, and fills the cache in a second step.
GetConfig(c) ==
    /\ at[c] = "idle" /\ cache[NodeOf[c]] = 0 /\ Held(Last) # 0
    /\ rev' = [rev EXCEPT ![c] = Last] /\ Moves(c, "fetched")
    /\ UNCHANGED <<etcd, cache, from, seen, own, old, history>>

fetchFromEtcd(c) ==
    /\ at[c] = "fetched"
    /\ cache' = [cache EXCEPT ![NodeOf[c]] = rev[c]] /\ Moves(c, "idle")
    /\ own' = [own EXCEPT ![NodeOf[c]] = @ \cup {rev[c]}]
    /\ UNCHANGED <<etcd, from, seen, rev, old, history>>

\* RollbackConfig writes the OldValue of the record it finds.
RollbackConfig(c, v) ==
    /\ v \in DOMAIN history /\ etcd[v] = "put"
    /\ SetConfig(c)

-----------------------------------------------------------------------------
\* WatchConfig and WatchAllConfigs: the goroutine's watch gets what comes from now on.
WatchConfig(w) ==
    /\ seen[w] = -1
    /\ from' = [from EXCEPT ![w] = Last] /\ seen' = [seen EXCEPT ![w] = Last]
    /\ UNCHANGED <<etcd, cache, own, at, rev, old, history>>

\* Mutant: the watch skips what the node's own calls wrote.
AppliedForeign(n, v) == IF v \in own[n] THEN cache[n] ELSE Held(v)

\* What a watch of node n makes of revision v.
Applied(n, v) == Held(v)

\* watchConfig and watchAllConfigs: the next event.
watchConfig(w) ==
    /\ seen[w] \in 0 .. Last - 1
    /\ seen' = [seen EXCEPT ![w] = @ + 1]
    /\ cache' = [cache EXCEPT ![NodeOf[w]] = Applied(NodeOf[w], seen[w] + 1)]
    /\ UNCHANGED <<etcd, from, own, at, rev, old, history>>

CallStep(c) == UpdateCache(c) \/ RecordChange(c) \/ fetchFromEtcd(c)

Next ==
    \/ \E c \in Caller :
          \/ SetConfig(c) \/ DeleteConfig(c) \/ GetConfig(c) \/ CallStep(c)
          \/ \E v \in Revisions : RollbackConfig(c, v)
    \/ \E w \in Watcher : WatchConfig(w) \/ watchConfig(w)

\* Calls that have begun go on, and etcd delivers its events.
Fairness ==
    /\ \A c \in Caller : WF_vars(CallStep(c))
    /\ \A w \in Watcher : WF_vars(watchConfig(w))

Spec == Init /\ [][Next]_vars /\ Fairness

-----------------------------------------------------------------------------
\* The type invariant of the configuration.
TypeOK ==
    /\ etcd \in Seq({"put", "delete"}) /\ Last <= MaxRevisions
    /\ cache \in [Node -> 0 .. Last]
    /\ from \in [Watcher -> -1 .. Last] /\ seen \in [Watcher -> -1 .. Last]
    /\ at \in [Caller -> {"idle", "cache", "history", "fetched"}]
    /\ rev \in [Caller -> 0 .. Last] /\ old \in [Caller -> 0 .. Last]
    /\ DOMAIN history \subseteq 1 .. Last

\* A cache holds what one of the node's watches applied last, or what a call of the node
\* itself put there: only a watch that lags behind another and the node's own calls
\* make it stale, so that a node without calls whose watches have come to the end is not.
Sources(n) ==
    {Held(seen[w]) : w \in {x \in Watcher : NodeOf[x] = n /\ from[x] < seen[x]}}
        \cup {Held(v) : v \in own[n]}
CacheHasSource ==
    \A n \in Node : cache[n] \in Sources(n) \/ (Sources(n) = {} /\ cache[n] = 0)

\* A node that makes no calls and has a watch behind the changes comes to hold the current
\* value once they end.
Behind(w) == Last = MaxRevisions /\ seen[w] \in 0 .. Last - 1
Converged(n) == own[n] # {} \/ cache[n] = Held(Last)
QuietNodeConverges == \A w \in Watcher : Behind(w) ~> Converged(NodeOf[w])

\* OldValue: the record of a change names another value than the one it wrote.
HistoryLooksBack == \A v \in DOMAIN history : history[v] < v

\* Every node comes to hold the current value once the changes end.
EveryNodeConverges == \A n \in Node : (Last = MaxRevisions) ~> (cache[n] = Held(Last))
=============================================================================
