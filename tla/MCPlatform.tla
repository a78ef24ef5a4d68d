----------------------------- MODULE MCPlatform -----------------------------
(***************************************************************************)
(* The tokens and roles, configurations, events, caches, registries,       *)
(* balancers, routers and TCC components on small instances.  They share   *)
(* nothing: a behaviour is one of the part `part`, which takes its         *)
(* variables from the slots s1, s2, ...; slots a part does not need hold 0. *)
(***************************************************************************)
EXTENDS Integers, Sequences

CONSTANT None   \* a token, key, version, ... that is not there

VARIABLES part, s1, s2, s3, s4, s5, s6, s7, s8, s9, s10, s11, s12, s13, s14, s15, s16

slots == <<s1, s2, s3, s4, s5, s6, s7, s8, s9, s10, s11, s12, s13, s14, s15, s16>>
allVars == <<part, slots>>

\* Slots n + 1, n + 2, ... are not used.
Blank(x, i, n) == IF i > n THEN x = 0 ELSE TRUE
Unused(n) ==
    /\ Blank(s1, 1, n) /\ Blank(s2, 2, n) /\ Blank(s3, 3, n) /\ Blank(s4, 4, n)
    /\ Blank(s5, 5, n) /\ Blank(s6, 6, n) /\ Blank(s7, 7, n) /\ Blank(s8, 8, n)
    /\ Blank(s9, 9, n) /\ Blank(s10, 10, n) /\ Blank(s11, 11, n) /\ Blank(s12, 12, n)
    /\ Blank(s13, 13, n) /\ Blank(s14, 14, n) /\ Blank(s15, 15, n) /\ Blank(s16, 16, n)

Same(x, i, n) == IF i > n THEN UNCHANGED x ELSE TRUE
Kept(n) ==
    /\ Same(s1, 1, n) /\ Same(s2, 2, n) /\ Same(s3, 3, n) /\ Same(s4, 4, n)
    /\ Same(s5, 5, n) /\ Same(s6, 6, n) /\ Same(s7, 7, n) /\ Same(s8, 8, n)
    /\ Same(s9, 9, n) /\ Same(s10, 10, n) /\ Same(s11, 11, n) /\ Same(s12, 12, n)
    /\ Same(s13, 13, n) /\ Same(s14, 14, n) /\ Same(s15, 15, n) /\ Same(s16, 16, n)

-----------------------------------------------------------------------------
Tokens == INSTANCE RefreshTokens WITH
    Caller <- {"a", "b"}, Token <- {"t", "u"}, Key <- {"k"}, Secret <- {"x"},
    NoToken <- None, NoKey <- None, NoSecret <- None,
    keys <- s1, currentKeyID <- s2, tokens <- s3, used <- s4, expired <- s5, issued <- s6,
    access <- s7, at <- s8, token <- s9, key <- s10, rotated <- s11

\* The keys are rotated while one caller signs.
Signed == INSTANCE RefreshTokens WITH
    Caller <- {"a"}, Token <- {"t"}, Key <- {"k", "l"}, Secret <- {"x", "y"},
    NoToken <- None, NoKey <- None, NoSecret <- None,
    keys <- s1, currentKeyID <- s2, tokens <- s3, used <- s4, expired <- s5, issued <- s6,
    access <- s7, at <- s8, token <- s9, key <- s10, rotated <- s11

Auth == INSTANCE GatewayAuth WITH
    KeyID <- {"v1", "v2"}, Material <- {"m1", "m2"}, Session <- {"s"}, Request <- {"q"},
    TTL <- 0, NoToken <- None, NoSession <- None, MaxTime <- 1, MaxUpdates <- 1,
    keys <- s1, currentKeyID <- s2, updates <- s3, clock <- s4, tokens <- s5, stored <- s6,
    cache <- s7, at <- s8, of <- s9, check <- s10, late <- s11, answers <- s12, header <- s13,
    lost <- s14

\* Two rotations, which a check may overlap, while no token expires.
Rotations == INSTANCE GatewayAuth WITH
    KeyID <- {"v1", "v2"}, Material <- {"m1", "m2"}, Session <- {"s"}, Request <- {"q"},
    TTL <- 0, NoToken <- None, NoSession <- None, MaxTime <- 0, MaxUpdates <- 2,
    keys <- s1, currentKeyID <- s2, updates <- s3, clock <- s4, tokens <- s5, stored <- s6,
    cache <- s7, at <- s8, of <- s9, check <- s10, late <- s11, answers <- s12, header <- s13,
    lost <- s14

Roles == INSTANCE RBAC WITH
    User <- {"u"}, Role <- {"r", "s"}, Permission <- {"p", "q"}, Target <- {"t"}, MaxCopies <- 2,
    Entry <- {[roles |-> {}, copies |-> [x \in {"p", "q"} |-> 0]],
              [roles |-> {}, copies |-> [x \in {"p", "q"} |-> IF x = "p" THEN 1 ELSE 0]],
              [roles |-> {"r"}, copies |-> [x \in {"p", "q"} |-> 0]]},
    users <- s1, roles <- s2, permissions <- s3, replaced <- s4, direct <- s5, odd <- s6

Policies == INSTANCE RBACManager WITH
    User <- {"u"}, Role <- {"r", "s"}, Permission <- {"p"}, Policy <- {"q"}, Rule <- {1, 2},
    Entry <- {[roles |-> {}, permissions |-> {}], [roles |-> {"r"}, permissions |-> {"p"}]},
    users <- s1, roles <- s2, permissions <- s3, policies <- s4, enforced <- s5,
    unknown <- s6, partial <- s7, stray <- s8

Config == INSTANCE DistributedConfig WITH
    Node <- {"m", "n"}, Caller <- {"a", "b"}, Watcher <- {"v"},
    NodeOf <- [a |-> "m", b |-> "n", v |-> "n"], MaxRevisions <- 2,
    etcd <- s1, cache <- s2, from <- s3, seen <- s4, own <- s5, at <- s6, rev <- s7, old <- s8,
    history <- s9

\* Two watches of one node, each at its own pace.
Lagging == INSTANCE DistributedConfig WITH
    Node <- {"m", "n"}, Caller <- {"a"}, Watcher <- {"v", "w"},
    NodeOf <- [a |-> "m", v |-> "n", w |-> "n"], MaxRevisions <- 3,
    etcd <- s1, cache <- s2, from <- s3, seen <- s4, own <- s5, at <- s6, rev <- s7, old <- s8,
    history <- s9

\* One reload of two versions, and two reloads of one version that is updated.
Versions == INSTANCE ConfigVersions WITH
    Version <- {"v", "w"}, Watcher <- {"x", "y"}, Reload <- {"a"}, NoVersion <- None,
    MaxConfig <- 1, MaxChanges <- 4,
    versions <- s1, activeVersion <- s2, changes <- s3, watchers <- s4, has <- s5,
    at <- s6, doing <- s7, todo <- s8, quiet <- s9

Updates == INSTANCE ConfigVersions WITH
    Version <- {"v"}, Watcher <- {"x", "y"}, Reload <- {"a", "b"}, NoVersion <- None,
    MaxConfig <- 2, MaxChanges <- 3,
    versions <- s1, activeVersion <- s2, changes <- s3, watchers <- s4, has <- s5,
    at <- s6, doing <- s7, todo <- s8, quiet <- s9

Backups == INSTANCE ConfigBackups WITH
    Key <- {"k", "l"}, Value <- {1}, NoValue <- None, Setter <- {"a", "b"}, NoSetter <- None,
    maxBackups <- 2, MaxVersion <- 3,
    configs <- s1, version <- s2, history <- s3, backups <- s4, holder <- s5, call <- s6,
    watched <- s7, telling <- s8, told <- s9

\* One caller that restores an older version.
Restores == INSTANCE ConfigBackups WITH
    Key <- {"k", "l"}, Value <- {1}, NoValue <- None, Setter <- {"a"}, NoSetter <- None,
    maxBackups <- 2, MaxVersion <- 4,
    configs <- s1, version <- s2, history <- s3, backups <- s4, holder <- s5, call <- s6,
    watched <- s7, telling <- s8, told <- s9

\* One reload of two kinds while callers register clients of their own.
Swap == INSTANCE HotSwap WITH
    Kinds <- 2, KindOf <- [m |-> 1, r |-> 2], NamesIn <- [v \in 0 .. 1 |-> {"m", "r"}],
    User <- {}, NoClient <- 0, MaxClients <- 3, MaxReloads <- 1,
    clients <- s1, made <- s2, held <- s3, given <- s4, closing <- s5, leaked <- s6, file <- s7,
    conf <- s8, signal <- s9, reload <- s10, used <- s11, shut <- s12

\* Two reloads, with a request that uses clients: the second version of the file has no Redis
\* client, the third names it again.
Uses == INSTANCE HotSwap WITH
    Kinds <- 2, KindOf <- [m |-> 1, r |-> 2],
    NamesIn <- [v \in 0 .. 2 |-> IF v = 1 THEN {"m"} ELSE {"m", "r"}],
    User <- {"u"}, NoClient <- 0, MaxClients <- 2, MaxReloads <- 2,
    clients <- s1, made <- s2, held <- s3, given <- s4, closing <- s5, leaked <- s6, file <- s7,
    conf <- s8, signal <- s9, reload <- s10, used <- s11, shut <- s12

Bus == INSTANCE EventBus WITH
    Subscriber <- {"x", "y", "z"}, Publisher <- {"p"}, Async <- {}, NoSubscriber <- None,
    queueSize <- 1, OwnPriority <- [x |-> 1, y |-> 2, z |-> 3], NewPriority <- {2},
    MaxCalls <- 3, MaxPublished <- 1,
    arrays <- s1, slice <- s2, moving <- s3, filters <- s4, priority <- s5, at <- s6,
    header <- s7, sorted <- s8, listed <- s9, disturbed <- s10, calls <- s11,
    published <- s12, queue <- s13, ctx <- s14, worker <- s15, cursor <- s16

Async == INSTANCE EventBus WITH
    Subscriber <- {"x"}, Publisher <- {"p"}, Async <- {"x"}, NoSubscriber <- None,
    queueSize <- 1, OwnPriority <- [x |-> 1], NewPriority <- {2},
    MaxCalls <- 2, MaxPublished <- 3,
    arrays <- s1, slice <- s2, moving <- s3, filters <- s4, priority <- s5, at <- s6,
    header <- s7, sorted <- s8, listed <- s9, disturbed <- s10, calls <- s11,
    published <- s12, queue <- s13, ctx <- s14, worker <- s15, cursor <- s16

Events == INSTANCE EventStore WITH
    Event <- {"e"}, Kind <- [e |-> 1], Job <- {"j", "k"}, retention <- 1, MaxTime <- 3,
    now <- s1, stamp <- s2, form <- s3, store <- s4, archive <- s5, snapshots <- s6,
    persist <- s7, at <- s8, list <- s9, cutoff <- s10, deleted <- s11, late <- s12

Cache == INSTANCE TwoLevelCache WITH
    Node <- {"m", "n"}, Caller <- {"a", "b"}, NoNode <- None, MaxWrites <- 1,
    local <- s1, redis <- s2, source <- s3, client <- s4, at <- s5, node <- s6, val <- s7,
    calm <- s8

\* A client with a resolver of its own.
Names == INSTANCE Discovery WITH
    Server <- {"a"}, Client <- {"c"}, Serves <- [a |-> "c"], NoKey <- None, NoClient <- None,
    MaxLeases <- 2, MaxFaults <- 1,
    key <- s1, live <- s2, reg <- s3, cause <- s4, res <- s5, chan <- s6, proc <- s7,
    told <- s8, calm <- s9, missed <- s10, faults <- s11

\* Two clients that share one; the server is of the first or the last of them.
Shared == INSTANCE Discovery WITH
    Server <- {"a"}, Client <- {"c", "d"}, Serves <- [a |-> "c"], NoKey <- None,
    NoClient <- None, MaxLeases <- 1, MaxFaults <- 0,
    key <- s1, live <- s2, reg <- s3, cause <- s4, res <- s5, chan <- s6, proc <- s7,
    told <- s8, calm <- s9, missed <- s10, faults <- s11

Registry == INSTANCE ServiceRegistry WITH
    Instance <- {"i"}, Caller <- {"a", "b"}, Watcher <- {"v", "w"}, NoInstance <- None,
    NoKey <- None, MaxLeases <- 1, MaxRemote <- 1, MaxFaults <- 1,
    key <- s1, live <- s2, granted <- s3, lease <- s4, keepers <- s5, cache <- s6, watch <- s7,
    call <- s8, stopped <- s9, raced <- s10, remote <- s11, faults <- s12

\* One caller that registers again.
Leases == INSTANCE ServiceRegistry WITH
    Instance <- {"i", "j"}, Caller <- {"a"}, Watcher <- {"v"}, NoInstance <- None, NoKey <- None,
    MaxLeases <- 2, MaxRemote <- 0, MaxFaults <- 1,
    key <- s1, live <- s2, granted <- s3, lease <- s4, keepers <- s5, cache <- s6, watch <- s7,
    call <- s8, stopped <- s9, raced <- s10, remote <- s11, faults <- s12

Balance == INSTANCE Balancers WITH
    Instance <- <<"i", "j", "k">>, Weight <- [i |-> 2, j |-> 0, k |-> 1],
    Point <- [i |-> <<1, 5>>, j |-> <<3, 5>>, k |-> <<2, 4>>], KeyHash <- {3, 6},
    Client <- {"a", "b"}, NoInstance <- None, MaxPicks <- 5,
    strategy <- s1, healthy <- s2, rr <- s3, wrr <- s4, conn <- s5, using <- s6, chosen <- s7

Calls == INSTANCE Governance WITH
    Client <- {"a", "b"}, Breaker <- {"x"}, NoBreaker <- None, Threshold <- 2, Timeout <- 1,
    MaxRetries <- 1, BaseDelay <- 1, MaxDelay <- 1, Multiplier <- 2, MaxObjects <- 1,
    MaxTime <- 1,
    service <- s1, made <- s2, lb <- s3, breaker <- s4, cb <- s5, call <- s6, now <- s7

Router == INSTANCE DatabaseRouter WITH
    Caller <- {"a", "b"}, SlaveCount <- 2, SlaveDBs <- 1, Key <- {<<5>>, <<7>>, <<1500, 1>>},
    ShardCount <- 2, Databases <- 2, Width <- 16, Ranges <- <<6, 100>>, MaxQueries <- 1,
    currentIndex <- s1, slaveHealth <- s2, stats <- s3, call <- s4, sharding <- s5,
    waited <- s6

Tries == INSTANCE TCCParticipants WITH
    TX <- {"x", "y"}, MaxAttempts <- 1,
    asked <- s1, registered <- s2, outcome <- s3, pc <- s4, attempt <- s5, local <- s6,
    redis <- s7, row <- s8, count <- s9, written <- s10

\* One transaction whose tries are repeated.
Retries == INSTANCE TCCParticipants WITH
    TX <- {"x"}, MaxAttempts <- 3,
    asked <- s1, registered <- s2, outcome <- s3, pc <- s4, attempt <- s5, local <- s6,
    redis <- s7, row <- s8, count <- s9, written <- s10

-----------------------------------------------------------------------------
InitSlots ==
    \/ part = "tokens" /\ Tokens!Init /\ Unused(11)
    \/ part = "signed" /\ Signed!Init /\ Unused(11)
    \/ part = "auth" /\ Auth!Init /\ Unused(14)
    \/ part = "rotations" /\ Rotations!Init /\ Unused(14)
    \/ part = "roles" /\ Roles!Init /\ Unused(6)
    \/ part = "policies" /\ Policies!Init /\ Unused(8)
    \/ part = "config" /\ Config!Init /\ Unused(9)
    \/ part = "lagging" /\ Lagging!Init /\ Unused(9)
    \/ part = "versions" /\ Versions!Init /\ Unused(9)
    \/ part = "updates" /\ Updates!Init /\ Unused(9)
    \/ part = "backups" /\ Backups!Init /\ Unused(9)
    \/ part = "restores" /\ Restores!Init /\ Unused(9)
    \/ part = "swap" /\ Swap!Init /\ Unused(12)
    \/ part = "uses" /\ Uses!Init /\ Unused(12)
    \/ part = "bus" /\ Bus!Init /\ Unused(16)
    \/ part = "async" /\ Async!Init /\ Unused(16)
    \/ part = "events" /\ Events!Init /\ Unused(12)
    \/ part = "cache" /\ Cache!Init /\ Unused(8)
    \/ part = "names" /\ Names!Init /\ Unused(11)
    \/ part = "shared" /\ Shared!Init /\ Unused(11)
    \/ part = "registry" /\ Registry!Init /\ Unused(12)
    \/ part = "leases" /\ Leases!Init /\ Unused(12)
    \/ part = "balance" /\ Balance!Init /\ Unused(7)
    \/ part = "calls" /\ Calls!Init /\ Unused(7)
    \/ part = "router" /\ Router!Init /\ Unused(6)
    \/ part = "tries" /\ Tries!Init /\ Unused(10)
    \/ part = "retries" /\ Retries!Init /\ Unused(10)

InitPart == InitSlots

In(p, n) == part = p /\ Kept(n) /\ UNCHANGED part

NextPart ==
    \/ In("tokens", 11) /\ Tokens!Next
    \/ In("signed", 11) /\ Signed!Next
    \/ In("auth", 14) /\ Auth!Next
    \/ In("rotations", 14) /\ Rotations!Next
    \/ In("roles", 6) /\ Roles!Next
    \/ In("policies", 8) /\ Policies!Next
    \/ In("config", 9) /\ Config!Next
    \/ In("lagging", 9) /\ Lagging!Next
    \/ In("versions", 9) /\ Versions!Next
    \/ In("updates", 9) /\ Updates!Next
    \/ In("backups", 9) /\ Backups!Next
    \/ In("restores", 9) /\ Restores!Next
    \/ In("swap", 12) /\ Swap!Next
    \/ In("uses", 12) /\ Uses!Next
    \/ In("bus", 16) /\ Bus!Next
    \/ In("async", 16) /\ Async!Next
    \/ In("events", 12) /\ Events!Next
    \/ In("cache", 8) /\ Cache!Next
    \/ In("names", 11) /\ Names!Next
    \/ In("shared", 11) /\ Shared!Next /\ s3'["a"].weight = 1
    \/ In("registry", 12) /\ Registry!Next
    \/ In("leases", 12) /\ Leases!Next
    \/ In("balance", 7) /\ Balance!Next
    \/ In("calls", 7) /\ Calls!Next
    \/ In("router", 6) /\ Router!Next
    \/ In("tries", 10) /\ Tries!Next
    \/ In("retries", 10) /\ Retries!Next

\* What has to go on, as the modules say in Fairness: calls that have begun, watches,
\* tickers, keepers of leases and the clock.  Nobody has to call, to stop or to fail.  Steps
\* of different parts share a number, since no behaviour has steps of two parts.
Who == <<"a", "b">>

Goes(n) ==
    \/ n \in 1 .. 2 /\ In("config", 9) /\ Config!CallStep(Who[n])
    \/ n = 3 /\ In("config", 9) /\ Config!watchConfig("v")
    \/ n = 1 /\ In("lagging", 9) /\ Lagging!CallStep("a")
    \/ n \in 3 .. 4 /\ In("lagging", 9) /\ Lagging!watchConfig(<<"v", "w">>[n - 2])
    \/ n = 1 /\ In("names", 11) /\ Names!RegisterStep("a")
    \/ n = 2 /\ In("names", 11) /\ Names!ResolverStep("c")
    \/ n = 3 /\ In("names", 11) /\ Names!Take("c")
    \/ n = 4 /\ In("names", 11) /\ Names!Tick("c")
    \/ n \in 1 .. 2 /\ In("registry", 12) /\ Registry!CallStep(Who[n])
    \/ n \in 3 .. 4 /\ In("registry", 12) /\ Registry!watchService(<<"v", "w">>[n - 2])
    \/ n = 5 /\ In("registry", 12) /\ Registry!keepAlive
    \/ n = 6 /\ In("registry", 12) /\ Registry!Expire
    \/ n = 1 /\ In("leases", 12) /\ Leases!CallStep("a")
    \/ n = 3 /\ In("leases", 12) /\ Leases!watchService("v")
    \/ n = 4 /\ In("leases", 12) /\ Leases!keepAlive
    \/ n = 5 /\ In("leases", 12) /\ Leases!Expire
    \/ n \in 1 .. 2 /\ In("calls", 7) /\ Calls!CallStep(Who[n])
    \/ n = 3 /\ In("calls", 7) /\ Calls!Tick

SpecPart ==
    /\ InitPart /\ [][NextPart]_allVars
    /\ \A n \in 1 .. 6 : WF_allVars(Goes(n))
    /\ \A n \in 1 .. 2 : SF_allVars(In("calls", 7) /\ Calls!Lock(Who[n]))

-----------------------------------------------------------------------------
\* A signed token validates until it expires, whatever the keys do, but for the two causes
\* of SignedValidates; every request of the gateway is answered and the second answers have
\* a cause; a user passes the middlewares by the roles that grant it a permission and by
\* what its caller gave it; a user has a role that does not exist only where a list named
\* it, and the enforcer differs from the recorded rules only by the calls that failed.
AccessSafety ==
    /\ part = "tokens" => Tokens!TypeOK /\ Tokens!SignedValidates
    /\ part = "signed" => Signed!TypeOK /\ Signed!SignedValidates
    /\ part = "auth" => Auth!TypeOK /\ Auth!AnswersAccounted
    /\ part = "rotations" => Rotations!TypeOK /\ Rotations!AnswersAccounted
    /\ part = "roles" =>
          Roles!TypeOK /\ Roles!CopiesAreRoles /\ Roles!GrantedByRoles /\ Roles!GrantsExist
    /\ part = "policies" => Policies!TypeOK /\ Policies!RolesExist /\ Policies!EnforcerMatches

\* A copy that is not the current value has a cause the code knows: a node's configuration
\* is that of one of its watches or of its own calls; one version is active, and a reload
\* nothing came between has told all watchers; a backup has no value newer than its
\* version; a registered client is open, and an error of one kind does not hold up the
\* others; no subscriber is listed twice; only old events are archived; a local cache value
\* is stale only after another node's write or an overlapping call.
CopySafety ==
    /\ part = "config" => Config!TypeOK /\ Config!CacheHasSource
    /\ part = "lagging" => Lagging!TypeOK /\ Lagging!CacheHasSource
    /\ part = "versions" => Versions!TypeOK /\ Versions!OneActive /\ Versions!ReloadTellsAll
    /\ part = "updates" => Updates!TypeOK /\ Updates!OneActive /\ Updates!ReloadTellsAll
    /\ part = "backups" => Backups!TypeOK /\ Backups!BackupNotNewer /\ Backups!BackupsOrdered
    /\ part = "restores" =>
          Restores!TypeOK /\ Restores!BackupNotNewer /\ Restores!BackupsOrdered
    /\ part = "swap" => /\ Swap!TypeOK /\ Swap!RegisteredIsOpen
                        /\ Swap!OtherKindsAreCurrent /\ Swap!OpenIsAccounted
    /\ part = "uses" => /\ Uses!TypeOK /\ Uses!RegisteredIsOpen
                        /\ Uses!OtherKindsAreCurrent /\ Uses!OpenIsAccounted
    /\ part = "bus" => Bus!TypeOK /\ Bus!ListedOnce
    /\ part = "async" => Async!TypeOK /\ Async!ListedOnce
    /\ part = "events" => Events!TypeOK /\ Events!OnlyOldAreArchived
    /\ part = "cache" => Cache!TypeOK /\ Cache!StaleHasCause

\* The last client a resolver was built with and a registry's watch have the addresses of
\* etcd, but for those lost in a gap the code has; every balancer gives the shares it promises;
\* the governance breaker is closed below Threshold failures and not from there on; the
\* router goes round its healthy slaves.
DiscoverySafety ==
    /\ part = "names" =>
          Names!TypeOK /\ Names!CaughtUp /\ Names!ListedOnce /\ Names!OnlySharingDisturbs
    /\ part = "shared" =>
          Shared!TypeOK /\ Shared!CaughtUp /\ Shared!ListedOnce /\ Shared!OnlySharingDisturbs
    /\ part = "registry" => Registry!TypeOK /\ Registry!WatchedIsCached
    /\ part = "leases" => Leases!TypeOK /\ Leases!WatchedIsCached
    /\ part = "balance" => Balance!TypeOK /\ Balance!SharesAreWeights /\ Balance!ConnectionsCounted
    /\ part = "calls" => Calls!TypeOK /\ Calls!BreakerCounts /\ Calls!LockIsUsed
    /\ part = "router" => Router!TypeOK /\ Router!RotationIsFair /\ Router!ErrorsAreSlaveQueries

\* No place of the year bill is reserved by two transactions, and the dice game's TCC
\* transaction never succeeds.
ParticipantSafety ==
    /\ part = "tries" =>
          Tries!TypeOK /\ Tries!PlaceReservedOnce /\ Tries!NoDiceTransactionSucceeds
    /\ part = "retries" => Retries!TypeOK /\ Retries!NoDiceTransactionSucceeds

\* A refresh token that is used, revoked or expired never works again; a rotation that keeps
\* a key keeps its sessions; a user leaves the cache with a cause; a Publish no Unsubscribe
\* overlaps tells everybody once, and in order if no priority changes meanwhile; archiving
\* loses no event; a lookup of the hash ring moves only with the health of the instances;
\* the second phase of a TCC transaction finds nothing to confirm or to cancel.
PlatformSteps ==
    [][/\ part = "tokens" => Tokens!DeadStaysDead
       /\ part = "auth" => Auth!RotationKeepsSessions /\ Auth!CacheLostWithCause
       /\ part = "rotations" =>
             Rotations!RotationKeepsSessions /\ Rotations!CacheLostWithCause
       /\ part = "bus" => Bus!UndisturbedIsComplete
       /\ part = "events" => Events!ArchivingLosesNothing
       /\ part = "balance" => Balance!LookupsAreStable
       /\ part = "tries" => Tries!SecondPhaseIsEmpty
       /\ part = "retries" => Retries!SecondPhaseIsEmpty]_allVars

\* What the parts owe to x (Config!QuietNodeConverges, Names!RegisteredAgain and
\* Names!ResolverConverges, Registry!StopEmpties, Calls!CallsReturn).
Owed(x) ==
    \/ part = "config" /\ Config!Behind("v")
    \/ part = "lagging" /\ Lagging!Behind(IF x = "a" THEN "v" ELSE "w")
    \/ part = "names" /\ (IF x = "a" THEN Names!Registered(x) ELSE Names!Watching("c"))
    \/ part = "registry" /\ Registry!Stopped
    \/ part = "leases" /\ Leases!Stopped
    \/ part = "calls" /\ Calls!Begun(x)

Paid(x) ==
    \/ part = "config" /\ Config!Converged("n")
    \/ part = "lagging" /\ Lagging!Converged("n")
    \/ part = "names" /\ (IF x = "a" THEN Names!BackOrExcused(x) ELSE Names!Resolved("c"))
    \/ part = "registry" /\ Registry!Emptied
    \/ part = "leases" /\ Leases!Emptied
    \/ part = "calls" /\ Calls!Returned(x)

\* A node that makes no calls comes to hold the current configuration, a server is back in
\* etcd after every expiry, the resolver comes to the addresses of etcd, a registry that was
\* stopped leaves nothing in etcd, and every call with retries returns.
PlatformLiveness == \A x \in {"a", "b"} : Owed(x) ~> Paid(x)
=============================================================================
