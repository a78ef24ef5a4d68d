----------------------------- MODULE Discovery -----------------------------
(***************************************************************************)
(* utils/discovery: the Register of a service, which keeps a key with a    *)
(* lease in etcd, and the Resolver of the gateway's grpc clients, which    *)
(* turns those keys into a list of addresses.                              *)
(*                                                                         *)
(* Register.register makes three calls (Grant, KeepAlive, Put) between     *)
(* which a lease may expire and each of which may fail; the goroutine      *)
(* keepAlive calls it again whenever the channel of its lease is closed or *)
(* was never made.                                                         *)
(*                                                                         *)
(* rpc.Init gives one Resolver to the clients of all services in turn.     *)
(* Each Build overwrites cc, keyPrifix and closeCh, lists the keys of its  *)
(* service (sync) and starts a goroutine, which overwrites watchCh; all    *)
(* goroutines change the one srvAddrsList without a lock.                  *)
(***************************************************************************)
EXTENDS Integers, Sequences, FiniteSets, SequencesExt

CONSTANTS Server,       \* the addresses that register themselves
          Client,       \* the grpc clients, one for each service
          Serves,       \* [Server -> Client]: the service an address is of
          NoKey,        \* a server without a key in etcd
          NoClient,     \* of a Resolver nothing was built with
          MaxLeases,    \* bound: leases granted to one server
          MaxFaults     \* bound: calls to etcd that fail, leases that expire

VARIABLES key,      \* [Server -> a key of etcd: [weight, lease], or NoKey]
          live,     \* [Server -> the leases of the server etcd still holds]
          reg,      \* [Server -> the Register: [pc, first, stop, weight, data, lease, ch, upd]]
          cause,    \* [Server -> why the loop may be idle without a key]
          res,      \* the Resolver: [client (cc, keyPrifix, closeCh), watch, list]
          chan,     \* [Client -> the watch its goroutine opened: [prefix, open, queue]]
          proc,     \* [Client -> its Build and goroutine: [pc, built] and the locals of Local]
          told,     \* [Client -> the list cc.UpdateState last gave it]
          calm,     \* one goroutine has worked at a time since the last sync
          missed,   \* addresses with an event that no watch saw since the last sync
          faults    \* faults so far

resolver == <<res, chan, proc, told, calm>>
vars == <<key, live, reg, cause, resolver, missed, faults>>

Weight == 1 .. 2
Key == [weight : Weight, lease : 1 .. MaxLeases]
Address == [addr : Server, weight : Weight]

\* The locals of Build and of the goroutine: the prefix it asked for, the channels it waits
\* on, the list it has read and the event it handles.
Local == [asks |-> NoClient, on |-> NoClient, end |-> NoClient, got |-> <<>>, ev |-> NoClient]
State(l, b, v) == [pc |-> l, built |-> b, asks |-> v.asks, on |-> v.on, end |-> v.end,
                   got |-> v.got, ev |-> v.ev]

(* The type of every variable. *)
TypeOK ==
    /\ key \in [Server -> Key \cup {NoKey}]
    /\ live \in [Server -> SUBSET (1 .. MaxLeases)]
    /\ reg \in [Server -> [pc : {"idle", "grant", "keep", "put", "loop", "unregister", "revoke",
                                 "failed"},
                           first : BOOLEAN, stop : BOOLEAN, weight : Weight, data : Weight,
                           lease : 0 .. MaxLeases, ch : 0 .. MaxLeases, upd : BOOLEAN]]
    /\ cause \in [Server -> {"none", "put", "revoke"}]
    /\ res.client \in Client \cup {NoClient} /\ res.watch \in Client \cup {NoClient}
    /\ res.list \in Seq(Address) /\ told \in [Client -> Seq(Address)]
    /\ \A c \in Client :
          /\ chan[c].prefix \in Client /\ chan[c].open \in BOOLEAN
          /\ \A i \in DOMAIN chan[c].queue :
                chan[c].queue[i].of \in IF chan[c].queue[i].type = "put" THEN Address ELSE Server
          /\ proc[c].pc \in {"new", "get", "clear", "fill", "push", "start", "loop", "select",
                             "write", "closed", "failed"}
          /\ proc[c].pc = "select" => proc[c].on \in Client
          /\ proc[c].got \in Seq(Address)
    /\ calm \in BOOLEAN /\ missed \subseteq Server /\ faults \in 0 .. MaxFaults

Init ==
    /\ key = [s \in Server |-> NoKey] /\ live = [s \in Server |-> {}]
    /\ reg = [s \in Server |-> [pc |-> "idle", first |-> TRUE, stop |-> FALSE, weight |-> 1,
                                data |-> 1, lease |-> 0, ch |-> 0, upd |-> FALSE]]
    /\ cause = [s \in Server |-> "none"]
    /\ res = [client |-> NoClient, watch |-> NoClient, list |-> <<>>]
    /\ chan = [c \in Client |-> [prefix |-> c, open |-> FALSE, queue |-> <<>>]]
    /\ proc = [c \in Client |-> State("new", FALSE, Local)]
    /\ told = [c \in Client |-> <<>>]
    /\ calm = FALSE /\ missed = {} /\ faults = 0

(***************************************************************************)
(* etcd: a change of a key is an event of every open watch of its service. *)
(***************************************************************************)
\* The server an event is about, whether watch w sees the keys of service p, and the
\* servers whose events wait in it.
EventAddr(e) == IF e.type = "put" THEN e.of.addr ELSE e.of
Sees(w, p) == w \in Client /\ chan[w].open /\ chan[w].prefix = p
Waiting(w) == IF w = NoClient THEN {} ELSE {EventAddr(chan[w].queue[i]) : i \in DOMAIN chan[w].queue}

Emit(s, event) ==
    /\ chan' = [c \in Client |-> IF Sees(c, Serves[s])
                                 THEN [chan[c] EXCEPT !.queue = Append(@, event)] ELSE chan[c]]
    /\ missed' = IF Sees(res.watch, Serves[s]) THEN missed ELSE missed \cup {s}

PutKey(s, w, n) ==
    /\ key' = [key EXCEPT ![s] = [weight |-> w, lease |-> n]]
    /\ Emit(s, [type |-> "put", of |-> [addr |-> s, weight |-> w]])

DeleteKey(s) ==
    IF key[s] = NoKey THEN UNCHANGED <<key, chan, missed>>
    ELSE /\ key' = [key EXCEPT ![s] = NoKey]
         /\ Emit(s, [type |-> "delete", of |-> s])

\* A lease that ends takes the key it holds with it.
EndLease(s, n) ==
    /\ live' = [live EXCEPT ![s] = @ \ {n}]
    /\ IF key[s] /= NoKey /\ key[s].lease = n THEN DeleteKey(s) ELSE UNCHANGED <<key, chan, missed>>

Fault == faults < MaxFaults /\ faults' = faults + 1

\* What a step of a Register leaves alone.
ResolverIdle == UNCHANGED <<res, proc, told, calm>>

\* A lease expires: by a fault, or since nobody keeps it alive.
Expire(s) ==
    /\ \E n \in live[s] :
          /\ IF n = reg[s].ch THEN Fault ELSE UNCHANGED faults
          /\ EndLease(s, n)
    /\ UNCHANGED <<reg, cause>> /\ ResolverIdle

(***************************************************************************)
(* Register                                                                *)
(***************************************************************************)
Goto(s, l) == reg' = [reg EXCEPT ![s].pc = l]
OnlyReg == UNCHANGED <<key, live, cause, resolver, missed, faults>>

Register(s) ==
    /\ reg[s].pc = "idle"
    /\ Goto(s, "grant") /\ OnlyReg

\* An error of register: Register returns it, keepAlive logs it and goes on.
ErrorGoto(s) == IF reg[s].first THEN "failed" ELSE "loop"

Grant(s) ==
    /\ reg[s].pc = "grant"
    /\ \/ /\ reg[s].lease < MaxLeases
          /\ LET n == reg[s].lease + 1 IN
             /\ live' = [live EXCEPT ![s] = @ \cup {n}]
             /\ reg' = [reg EXCEPT ![s].pc = "keep", ![s].lease = n]
          /\ UNCHANGED faults
       \/ Fault /\ Goto(s, ErrorGoto(s)) /\ UNCHANGED live
    /\ UNCHANGED <<key, cause, resolver, missed>>

\* The channel of the new lease replaces the old one, by nil if the call fails.
KeepAlive(s) ==
    /\ reg[s].pc = "keep"
    /\ \/ /\ reg' = [reg EXCEPT ![s].pc = "put", ![s].ch = reg[s].lease,
                                ![s].data = reg[s].weight]
          /\ UNCHANGED faults
       \/ Fault /\ reg' = [reg EXCEPT ![s].pc = ErrorGoto(s), ![s].ch = 0]
    /\ UNCHANGED <<key, live, cause, resolver, missed>>

Put(s) ==
    /\ reg[s].pc = "put"
    /\ \/ /\ reg[s].lease \in live[s]
          /\ PutKey(s, reg[s].data, reg[s].lease)
          /\ reg' = [reg EXCEPT ![s].pc = "loop", ![s].first = FALSE]
          /\ cause' = [cause EXCEPT ![s] = "none"]
          /\ UNCHANGED faults
       \/ /\ IF reg[s].lease \in live[s] THEN Fault ELSE UNCHANGED faults
          /\ Goto(s, ErrorGoto(s))
          /\ cause' = [cause EXCEPT ![s] = "put"]
          /\ UNCHANGED <<key, chan, missed>>
    /\ UNCHANGED live /\ ResolverIdle

\* keepAlive: the channel of the lease is closed or, by the ticker, was never made.
\* Mutant: only a channel that was never made counts.
LapsedNil(s) == reg[s].ch = 0

Lapsed(s) == reg[s].ch = 0 \/ reg[s].ch \notin live[s]

keepAlive(s) ==
    /\ reg[s].pc = "loop" /\ Lapsed(s)
    /\ reg[s].lease < MaxLeases
    /\ Goto(s, "grant") /\ OnlyReg

Stop(s) ==
    /\ reg[s].pc = "loop" /\ ~reg[s].stop
    /\ reg' = [reg EXCEPT ![s].pc = "unregister", ![s].stop = TRUE]
    /\ OnlyReg

unregister(s) ==
    /\ reg[s].pc = "unregister"
    /\ \/ DeleteKey(s) /\ UNCHANGED faults
       \/ Fault /\ UNCHANGED <<key, chan, missed>>
    /\ Goto(s, "revoke")
    /\ UNCHANGED <<live, cause>> /\ ResolverIdle

\* Revoke the lease; whether it works or not, the loop goes on.
Revoke(s) ==
    /\ reg[s].pc = "revoke"
    /\ \/ EndLease(s, reg[s].lease) /\ UNCHANGED <<faults, cause>>
       \/ /\ Fault /\ cause' = [cause EXCEPT ![s] = "revoke"]
          /\ UNCHANGED <<key, live, chan, missed>>
    /\ Goto(s, "loop") /\ ResolverIdle

\* A request sets the weight, then puts it with the lease of the moment; the weight stays
\* when the Put fails.
UpdateHandler(s) ==
    /\ ~reg[s].first /\ reg[s].weight = 1
    /\ reg' = [reg EXCEPT ![s].weight = 2, ![s].upd = TRUE]
    /\ OnlyReg

UpdatePut(s) ==
    /\ reg[s].upd
    /\ reg' = [reg EXCEPT ![s].upd = FALSE]
    /\ \/ /\ reg[s].lease \in live[s]
          /\ PutKey(s, reg[s].weight, reg[s].lease)
          /\ UNCHANGED faults
       \/ /\ IF reg[s].lease \in live[s] THEN Fault ELSE UNCHANGED faults
          /\ UNCHANGED <<key, chan, missed>>
    /\ UNCHANGED <<live, cause>> /\ ResolverIdle

(***************************************************************************)
(* Resolver                                                                *)
(***************************************************************************)
\* Mutant: the address is compared with its weight.
ExistExactly(list, a) == \E i \in DOMAIN list : list[i] = a

Exist(list, a) == \E i \in DOMAIN list : list[i].addr = a.addr

\* The first address that matches is overwritten with the last one.
RemoveAddr(list, s) ==
    IF \A i \in DOMAIN list : list[i].addr /= s THEN list
    ELSE LET i == CHOOSE j \in DOMAIN list :
                    list[j].addr = s /\ \A k \in 1 .. j - 1 : list[k].addr /= s
         IN Front([list EXCEPT ![i] = Last(list)])

\* All keys of a service, in the order etcd returns them.
Present(p) == {s \in Server : Serves[s] = p /\ key[s] /= NoKey}
Kvs(p) == SetToSeq({[addr |-> s, weight |-> key[s].weight] : s \in Present(p)})

\* rpc.Init ends the process when a Build fails.
Running == \A c \in Client : proc[c].pc /= "failed"

\* c has an answer or an event that is not yet in the list and told.
Works(c) == proc[c].pc \in {"clear", "fill", "push", "write"}
Alone(c) == \A d \in Client \ {c} : ~Works(d)

At(c, l) == Running /\ proc[c].pc = l
Goes(c, l, v) == proc' = [proc EXCEPT ![c] = State(l, @.built, v)]
EtcdIdle == UNCHANGED <<key, live, reg, cause>>
OnlyGoes(c, l, v) == Goes(c, l, v) /\ EtcdIdle /\ UNCHANGED <<res, chan, told, calm, missed, faults>>

\* Build: a new cc, prefix and closing channel, while no other client is dialled.
Build(c) ==
    /\ At(c, "new")
    /\ \A d \in Client : proc[d].pc /= "new" => d = c \/ proc[d].built \/ proc[d].pc = "start"
    /\ res' = [res EXCEPT !.client = c]
    /\ Goes(c, "get", [Local EXCEPT !.asks = c])
    /\ calm' = FALSE
    /\ EtcdIdle /\ UNCHANGED <<chan, told, missed, faults>>

\* The ticker of a minute calls sync.
Tick(c) ==
    /\ At(c, "select")
    /\ OnlyGoes(c, "get", [Local EXCEPT !.asks = res.client])

\* sync: the answer of etcd.  A Build returns an error of it, the ticker's sync logs it.
Get(c) ==
    /\ At(c, "get")
    /\ \/ /\ Goes(c, "clear", [Local EXCEPT !.got = Kvs(proc[c].asks)])
          /\ calm' = (Alone(c) /\ proc[c].asks = res.client)
          /\ missed' = IF calm' THEN {} ELSE missed
          /\ UNCHANGED faults
       \/ /\ Fault
          /\ Goes(c, IF proc[c].built THEN "loop" ELSE "failed", Local)
          /\ UNCHANGED <<calm, missed>>
    /\ EtcdIdle /\ UNCHANGED <<res, chan, told>>

\* sync: empty the list, append every address, tell the cc of the moment.
Clear(c) ==
    /\ At(c, "clear")
    /\ res' = [res EXCEPT !.list = <<>>]
    /\ Goes(c, "fill", [Local EXCEPT !.got = proc[c].got])
    /\ EtcdIdle /\ UNCHANGED <<chan, told, calm, missed, faults>>

Fill(c) ==
    /\ At(c, "fill")
    /\ res' = [res EXCEPT !.list = @ \o proc[c].got]
    /\ Goes(c, "push", Local)
    /\ EtcdIdle /\ UNCHANGED <<chan, told, calm, missed, faults>>

UpdateState(c) ==
    /\ At(c, "push")
    /\ told' = [told EXCEPT ![res.client] = res.list]
    /\ Goes(c, IF proc[c].built THEN "loop" ELSE "start", Local)
    /\ EtcdIdle /\ UNCHANGED <<res, chan, calm, missed, faults>>

\* The goroutine opens its watch, of the prefix of the moment; what waits in the watch it
\* replaces is no longer seen by the others.
Watch(c) ==
    /\ At(c, "start")
    /\ chan' = [chan EXCEPT ![c] = [prefix |-> res.client, open |-> TRUE, queue |-> <<>>]]
    /\ res' = [res EXCEPT !.watch = c]
    /\ proc' = [proc EXCEPT ![c] = State("loop", TRUE, Local)]
    /\ missed' = missed \cup Waiting(res.watch)
    /\ EtcdIdle /\ UNCHANGED <<told, calm, faults>>

\* The select waits on the channels the Resolver has when it is entered.
Select(c) ==
    /\ At(c, "loop")
    /\ OnlyGoes(c, "select", [Local EXCEPT !.on = res.watch, !.end = res.client])

Updated(list, e) ==
    IF e.type = "put" THEN Append(list, e.of) ELSE RemoveAddr(list, e.of)

\* update: take an event and read the list.
Take(c) ==
    /\ At(c, "select") /\ chan[proc[c].on].queue /= <<>>
    /\ LET w == proc[c].on
           e == Head(chan[w].queue)
           now == w = res.watch /\ chan[w].prefix = res.client
       IN /\ Goes(c, "write", [Local EXCEPT !.got = res.list, !.ev = e])
          /\ chan' = [chan EXCEPT ![w].queue = Tail(@)]
          /\ calm' = (calm /\ now /\ Alone(c))
          /\ missed' = IF now THEN missed \ {EventAddr(e)} ELSE missed
    /\ EtcdIdle /\ UNCHANGED <<res, told, faults>>

\* update: change the list that was read or the one of now, and tell cc if it changed.
Write(c) ==
    /\ At(c, "write")
    /\ LET e == proc[c].ev
           known == e.type = "put" /\ Exist(proc[c].got, e.of)
       IN \E list \in {proc[c].got, res.list} :
             LET new == Updated(list, e)
                 changed == ~known /\ new /= list
             IN /\ res' = IF changed THEN [res EXCEPT !.list = new] ELSE res
                /\ Goes(c, IF changed THEN "push" ELSE "loop", Local)
    /\ EtcdIdle /\ UNCHANGED <<chan, told, calm, missed, faults>>

\* etcd cancels a watch (its revision was compacted): its events are no longer seen.
WatchLost(c) ==
    /\ Running /\ chan[c].open
    /\ Fault
    /\ chan' = [chan EXCEPT ![c].open = FALSE, ![c].queue = <<>>]
    /\ missed' = IF c = res.watch THEN missed \cup Waiting(c) ELSE missed
    /\ EtcdIdle /\ UNCHANGED <<res, proc, told, calm>>

\* Close ends one goroutine that waits on the channel of the last Build.
Close(c) ==
    /\ At(c, "select") /\ proc[c].end = res.client
    /\ OnlyGoes(c, "closed", Local)

RegisterStep(s) ==
    Grant(s) \/ KeepAlive(s) \/ Put(s) \/ keepAlive(s) \/ unregister(s) \/ Revoke(s)

ResolverStep(c) ==
    Get(c) \/ Clear(c) \/ Fill(c) \/ UpdateState(c) \/ Watch(c) \/ Select(c) \/ Write(c)

Next ==
    \/ \E s \in Server : \/ Register(s) \/ RegisterStep(s) \/ Stop(s) \/ Expire(s)
                         \/ UpdateHandler(s) \/ UpdatePut(s)
    \/ \E c \in Client : \/ Build(c) \/ ResolverStep(c) \/ Take(c) \/ Tick(c)
                         \/ WatchLost(c) \/ Close(c)

\* The loop of a Register runs; the resolver's goroutines take events and tick.
Fairness ==
    /\ \A s \in Server : WF_vars(RegisterStep(s))
    /\ \A c \in Client : WF_vars(ResolverStep(c)) /\ WF_vars(Take(c)) /\ WF_vars(Tick(c))

Spec == Init /\ [][Next]_vars /\ Fairness

(***************************************************************************)
(* Properties                                                              *)
(***************************************************************************)
Addrs(list) == {list[i].addr : i \in DOMAIN list}
Distinct(list) == \A i, j \in DOMAIN list : list[i].addr = list[j].addr => i = j

(* Since the last sync, one goroutine at a time has worked, on the watch  *)
(* and for the client of the last Build.                                  *)
AtRest == calm /\ \A c \in Client : ~Works(c)

(* Once one sync has run alone, and as long as nothing of an older client *)
(* comes in, the client of the last Build is told the addresses etcd has  *)
(* for its service, but for those whose event waits in the watch or came  *)
(* where no watch saw it (Resolver.Build, watch, update and sync, shared  *)
(* by the goroutines of all clients).                                     *)
Untold == missed \cup Waiting(res.watch)

CaughtUp ==
    AtRest =>
        \A s \in Server \ Untold :
            s \in Addrs(told[res.client]) <=> s \in Present(res.client)

(* Nor is it then told an address twice, though every goroutine appends   *)
(* what it read to the one list.                                          *)
ListedOnce == AtRest => Distinct(told[res.client])

(* Only another client disturbs the sync of a client.                     *)
Single(c) == \A d \in Client \ {c} : proc[d].pc = "new"
OnlySharingDisturbs ==
    \A c \in Client : Single(c) /\ proc[c].pc \notin {"new", "get", "failed"} => calm

(* A server that has registered is back in etcd after every expiry of its *)
(* lease, unless its last Put failed, the Revoke of its Stop failed or    *)
(* the leases of the instance are used up (Register.keepAlive).           *)
Registered(s) == ~reg[s].first
BackOrExcused(s) == key[s] /= NoKey \/ cause[s] /= "none" \/ reg[s].lease = MaxLeases
RegisteredAgain == \A s \in Server : Registered(s) ~> BackOrExcused(s)

(* A client that has the Resolver to itself ends with the addresses of    *)
(* etcd, or it is closed: events and the ticker together make up for what *)
(* each of them misses.                                                   *)
Watching(c) == Single(c) /\ proc[c].built
Resolved(c) ==
    \/ ~Single(c) \/ proc[c].pc = "closed"
    \/ Addrs(told[c]) = Present(c)
ResolverConverges == \A c \in Client : Watching(c) ~> Resolved(c)

(* Claim of register.go:20-23 ("gracefully shut down operations by        *)
(* notifying goroutines to stop execution"): a stopped server that has    *)
(* left etcd stays out.  The loop goes on and registers again.            *)
StoppedStaysOut ==
    \A s \in Server : reg[s].stop /\ key[s] = NoKey => key'[s] = NoKey

(* Claim: a caught-up client has the weights of etcd.  An event for an    *)
(* address that is listed is dropped, so a weight waits for the ticker.   *)
WeightsFollow ==
    AtRest /\ Untold = {} =>
        \A i \in DOMAIN told[res.client] :
            key[told[res.client][i].addr].weight = told[res.client][i].weight

(* Claims of resolver.go:48 ("Build creates a new resolver.Resolver for   *)
(* the given target"): a client is told addresses of its own service      *)
(* only, and every one converges.  Build returns the shared object: who   *)
(* waits on the watch of an earlier client tells the last one, and the    *)
(* earlier ones hear nothing any more.                                    *)
OwnAddressesOnly == \A c \in Client : \A s \in Addrs(told[c]) : Serves[s] = c
EveryClientConverges ==
    \A c \in Client :
        proc[c].built ~> proc[c].pc = "closed" \/ ~Running \/ Addrs(told[c]) = Present(c)

=============================================================================
