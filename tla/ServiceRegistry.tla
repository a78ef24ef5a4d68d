-------------------------- MODULE ServiceRegistry --------------------------
(***************************************************************************)
(* common/discovery/service_registry.go: the registration of the instances *)
(* of one service in etcd, with a local cache that four parties write: the *)
(* caller of Register, the caller of Deregister, the first Discover, which *)
(* reads etcd and then overwrites the cache, and the goroutines that the   *)
(* calls of Watch start, each at its own pace.  Another process registers  *)
(* and removes the same instances.                                         *)
(***************************************************************************)
EXTENDS Integers, Sequences, SequencesExt, FiniteSets

CONSTANTS Instance,     \* instance IDs of the service
          Caller,       \* threads that use the registry
          Watcher,      \* the goroutines that calls of Watch start
          NoInstance,   \* the argument of a thread that is idle
          NoKey,        \* an instance that is not in etcd
          MaxLeases,    \* bound: leases granted to this registry
          MaxRemote,    \* bound: changes made by another process
          MaxFaults     \* bound: KeepAliveOnce calls that fail

VARIABLES key,      \* [Instance -> the lease its key hangs on, or NoKey]; 0 is another process's
          live,     \* the leases of this registry etcd holds
          granted,  \* leases etcd has granted to this registry
          lease,    \* sr.leaseID
          keepers,  \* keepAlive goroutines
          cache,    \* sr.services of the service: [known, list]
          watch,    \* [Watcher -> [on, queue, seen]]; seen are the instances put since it is on
          call,     \* [Caller -> [pc, of, lease, got]]
          stopped,  \* sr.ctx is cancelled
          raced,    \* instances whose event came before an older write to the cache
          remote, faults

vars == <<key, live, granted, lease, keepers, cache, watch, call, stopped, raced, remote, faults>>

Idle == [pc |-> "idle", of |-> NoInstance, lease |-> 0, got |-> <<>>]

(* The type of every variable. *)
TypeOK ==
    /\ key \in [Instance -> {NoKey} \cup 0 .. MaxLeases]
    /\ live \subseteq 1 .. MaxLeases /\ granted \in 0 .. MaxLeases /\ lease \in 0 .. MaxLeases
    /\ keepers \in 0 .. MaxLeases
    /\ cache.known \in BOOLEAN /\ cache.list \in Seq(Instance)
    /\ \A v \in Watcher :
          /\ watch[v].on \in BOOLEAN /\ watch[v].seen \subseteq Instance
          /\ watch[v].queue \in Seq([type : {"put", "delete"}, of : Instance])
    /\ \A c \in Caller : /\ call[c].pc \in {"idle", "set", "put", "append", "forget", "store"}
                         /\ call[c].of \in Instance \cup {NoInstance}
                         /\ call[c].lease \in 0 .. MaxLeases /\ call[c].got \in Seq(Instance)
    /\ stopped \in BOOLEAN /\ raced \subseteq Instance
    /\ remote \in 0 .. MaxRemote /\ faults \in 0 .. MaxFaults

Init ==
    /\ key = [i \in Instance |-> NoKey] /\ live = {} /\ granted = 0 /\ lease = 0 /\ keepers = 0
    /\ cache = [known |-> FALSE, list |-> <<>>]
    /\ watch = [v \in Watcher |-> [on |-> FALSE, queue |-> <<>>, seen |-> {}]]
    /\ call = [c \in Caller |-> Idle]
    /\ stopped = FALSE /\ raced = {} /\ remote = 0 /\ faults = 0

\* A change of a key, and its event in every watch.
Change(i, k) ==
    /\ key' = [key EXCEPT ![i] = k]
    /\ watch' = [v \in Watcher |->
          IF watch[v].on /\ k /= key[i]
          THEN [watch[v] EXCEPT
                   !.queue = Append(@, [type |-> IF k = NoKey THEN "delete" ELSE "put", of |-> i]),
                   !.seen = IF k = NoKey THEN @ ELSE @ \cup {i}]
          ELSE watch[v]]

(***************************************************************************)
(* Register, Deregister, Discover: one step per call to etcd and per       *)
(* period of the lock.                                                     *)
(***************************************************************************)
Grant(c) ==
    /\ call[c].pc = "idle" /\ ~stopped /\ granted < MaxLeases
    /\ granted' = granted + 1 /\ live' = live \cup {granted + 1}
    /\ \E i \in Instance :
        call' = [call EXCEPT ![c] = [Idle EXCEPT !.pc = "set", !.of = i, !.lease = granted + 1]]
    /\ UNCHANGED <<key, lease, keepers, cache, watch, stopped, raced, remote, faults>>

\* The goroutines that renew leases look at the lease of the last call that comes here.
SetLease(c) ==
    /\ call[c].pc = "set"
    /\ lease' = call[c].lease
    /\ call' = [call EXCEPT ![c].pc = "put"]
    /\ UNCHANGED <<key, live, granted, keepers, cache, watch, stopped, raced, remote, faults>>

\* The key hangs on the lease this call was granted; after Stop the call fails.
\* A lease that ended meanwhile makes it fail too.
Put(c) ==
    /\ call[c].pc = "put"
    /\ IF stopped \/ call[c].lease \notin live
       THEN /\ call' = [call EXCEPT ![c] = Idle]
            /\ UNCHANGED <<key, watch, keepers>>
       ELSE /\ Change(call[c].of, call[c].lease)
            /\ keepers' = keepers + 1
            /\ call' = [call EXCEPT ![c].pc = "append"]
    /\ UNCHANGED <<live, granted, lease, cache, stopped, raced, remote, faults>>

\* The cache is appended to without a look at what is in it.
CacheAppend(c) ==
    /\ call[c].pc = "append"
    /\ cache' = [known |-> TRUE, list |-> Append(cache.list, call[c].of)]
    /\ call' = [call EXCEPT ![c] = Idle]
    /\ UNCHANGED <<key, live, granted, lease, keepers, watch, stopped, raced, remote, faults>>

Deregister(c) ==
    /\ call[c].pc = "idle" /\ ~stopped
    /\ \E i \in Instance : /\ key[i] /= NoKey
                           /\ Change(i, NoKey)
                           /\ call' = [call EXCEPT ![c].pc = "forget", ![c].of = i]
    /\ UNCHANGED <<live, granted, lease, keepers, cache, stopped, raced, remote, faults>>

\* The first entry with the ID goes.
Without(list, i) ==
    IF i \notin Range(list) THEN list
    ELSE RemoveAt(list, CHOOSE j \in DOMAIN list :
                            list[j] = i /\ \A k \in 1 .. j - 1 : list[k] /= i)

CacheForget(c) ==
    /\ call[c].pc = "forget"
    /\ cache' = [cache EXCEPT !.list = Without(@, call[c].of)]
    /\ call' = [call EXCEPT ![c] = Idle]
    /\ UNCHANGED <<key, live, granted, lease, keepers, watch, stopped, raced, remote, faults>>

\* A Discover of a service that is not cached reads etcd ...
Discover(c) ==
    /\ call[c].pc = "idle" /\ ~stopped /\ ~cache.known
    /\ call' = [call EXCEPT ![c].pc = "store",
                            ![c].got = SetToSeq({i \in Instance : key[i] /= NoKey})]
    /\ UNCHANGED <<key, live, granted, lease, keepers, cache, watch, stopped, raced, remote, faults>>

\* ... and overwrites the cache with what it read.
fetchFromEtcd(c) ==
    /\ call[c].pc = "store"
    /\ cache' = [known |-> TRUE, list |-> call[c].got]
    /\ call' = [call EXCEPT ![c] = Idle]
    /\ UNCHANGED <<key, live, granted, lease, keepers, watch, stopped, raced, remote, faults>>

(***************************************************************************)
(* The watch goroutines and the keepAlive goroutines.                      *)
(***************************************************************************)
Watch(v) ==
    /\ ~watch[v].on /\ ~stopped
    /\ watch' = [watch EXCEPT ![v].on = TRUE]
    /\ UNCHANGED <<key, live, granted, lease, keepers, cache, call, stopped, raced, remote, faults>>

\* Mutant: the entry of the same service is replaced, whatever its ID.
updateServiceCacheByName(list, i) ==
    IF list = <<>> THEN <<i>> ELSE [list EXCEPT ![1] = i]

updateServiceCache(list, i) ==
    IF i \in Range(list) THEN list ELSE Append(list, i)

\* A call that will write to the cache what it knew before this event.
Overtaken(i) ==
    \E c \in Caller : \/ call[c].pc = "store" /\ i \notin Range(call[c].got)
                      \/ call[c].pc = "forget" /\ call[c].of = i

\* The event of a deletion has no value, Unmarshal fails, the event is skipped.
watchService(v) ==
    /\ watch[v].on /\ watch[v].queue /= <<>> /\ ~stopped
    /\ LET e == Head(watch[v].queue) IN
       IF e.type = "delete" THEN UNCHANGED <<cache, raced>>
       ELSE /\ cache' = [known |-> TRUE, list |-> updateServiceCache(cache.list, e.of)]
            /\ raced' = IF Overtaken(e.of) THEN raced \cup {e.of} ELSE raced \ {e.of}
    /\ watch' = [watch EXCEPT ![v].queue = Tail(@)]
    /\ UNCHANGED <<key, live, granted, lease, keepers, call, stopped, remote, faults>>

\* KeepAliveOnce fails: the goroutine returns.
KeepAliveFails ==
    /\ keepers > 0 /\ ~stopped
    /\ IF lease \in live THEN faults < MaxFaults /\ faults' = faults + 1 ELSE UNCHANGED faults
    /\ keepers' = keepers - 1
    /\ UNCHANGED <<key, live, granted, lease, cache, watch, call, stopped, raced, remote>>

\* Mutant: the goroutines do not look at stopCh and ctx.
KeeperStopsNever == FALSE

KeeperStops == stopped

keepAlive ==
    /\ keepers > 0 /\ KeeperStops
    /\ keepers' = keepers - 1
    /\ UNCHANGED <<key, live, granted, lease, cache, watch, call, stopped, raced, remote, faults>>

Stop ==
    /\ ~stopped /\ stopped' = TRUE
    /\ watch' = [v \in Watcher |-> [on |-> FALSE, queue |-> <<>>, seen |-> watch[v].seen]]
    /\ UNCHANGED <<key, live, granted, lease, keepers, cache, call, raced, remote, faults>>

(***************************************************************************)
(* etcd and the other process.  Only sr.leaseID is renewed, and only while *)
(* a keepAlive goroutine runs; any other lease ends.                       *)
(***************************************************************************)
Expire ==
    /\ \E n \in live :
        /\ n /= lease \/ keepers = 0
        /\ live' = live \ {n}
        /\ LET gone == {i \in Instance : key[i] = n}
               events == SetToSeq({[type |-> "delete", of |-> i] : i \in gone})
           IN /\ key' = [i \in Instance |-> IF i \in gone THEN NoKey ELSE key[i]]
              /\ watch' = [v \in Watcher |-> IF watch[v].on
                                             THEN [watch[v] EXCEPT !.queue = @ \o events]
                                             ELSE watch[v]]
    /\ UNCHANGED <<granted, lease, keepers, cache, call, stopped, raced, remote, faults>>

RemoteChange ==
    /\ remote < MaxRemote /\ remote' = remote + 1
    /\ \E i \in Instance : Change(i, IF key[i] = NoKey THEN 0 ELSE NoKey)
    /\ UNCHANGED <<live, granted, lease, keepers, cache, call, stopped, raced, faults>>

CallStep(c) ==
    SetLease(c) \/ Put(c) \/ CacheAppend(c) \/ CacheForget(c) \/ fetchFromEtcd(c)

Next ==
    \/ \E c \in Caller : Grant(c) \/ Deregister(c) \/ Discover(c) \/ CallStep(c)
    \/ \E v \in Watcher : Watch(v) \/ watchService(v)
    \/ KeepAliveFails \/ keepAlive \/ Stop \/ Expire \/ RemoteChange

\* Goroutines run; a lease that nobody renews ends.
Fairness ==
    /\ \A c \in Caller : WF_vars(CallStep(c))
    /\ \A v \in Watcher : WF_vars(watchService(v))
    /\ WF_vars(keepAlive) /\ WF_vars(Expire)

Spec == Init /\ [][Next]_vars /\ Fairness

(***************************************************************************)
(* Properties                                                              *)
(***************************************************************************)

(* Once a watch has handled every event, an instance that was put since   *)
(* it started and is in etcd is in the cache, however far behind the      *)
(* other watches are, unless a Discover or a Deregister that began before *)
(* the event wrote after it (updateServiceCache, fetchFromEtcd,           *)
(* Deregister).                                                           *)
Caught(v) == watch[v].on /\ watch[v].queue = <<>>
WatchedIsCached ==
    \A v \in Watcher : Caught(v) =>
        \A i \in watch[v].seen \ raced : key[i] /= NoKey => i \in Range(cache.list)

(* After Stop no key of this registry is left in etcd for ever: Revoke    *)
(* fails because its context is cancelled, but nobody renews the leases.  *)
Stopped == stopped
Emptied == \A i \in Instance : key[i] \in {NoKey, 0}
StopEmpties == Stopped ~> Emptied

(* Claim of the watch's DELETE branch (service_registry.go:197-199): an   *)
(* instance that is not in etcd is not in the cache of a caught-up watch. *)
DeletedIsForgotten ==
    \A v \in Watcher : Caught(v) /\ (\A c \in Caller : call[c].pc = "idle") =>
        \A i \in watch[v].seen : key[i] = NoKey => i \notin Range(cache.list)

(* Claim: an instance is in the cache once.  Register appends what the    *)
(* watch has already added.                                               *)
CachedOnce == \A j, k \in DOMAIN cache.list : cache.list[j] = cache.list[k] => j = k

(* Claim of service_registry.go:86 ("保持租约活跃"): what Register has put    *)
(* stays until it is removed.  A second Register takes the renewals.      *)
RegisteredStays ==
    \A i \in Instance : key[i] \notin {NoKey, 0} /\ faults = 0 /\ key'[i] = NoKey
        => stopped \/ call' /= call \/ remote' /= remote

=============================================================================
