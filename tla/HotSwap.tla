------------------------------- MODULE HotSwap -------------------------------
(***************************************************************************)
(* utils/hot_reload.go: the clients of the databases, caches and queues,   *)
(* registered by name and replaced when the configuration changes.  One    *)
(* goroutine handles the reloads, kind of client by kind of client; the    *)
(* client it replaces is closed by a goroutine of its own while requests   *)
(* that fetched it may still use it.  A second goroutine (WatchHotReload   *)
(* of config/config.go) receives from the same channel of signals.         *)
(***************************************************************************)
EXTENDS Integers, Sequences, FiniteSets

CONSTANTS Kinds,        \* number of kinds: mysql, redis, rabbitmq
          KindOf,       \* name -> its kind, the prefix of the name
          NamesIn,      \* version of the file -> the names it has
          User,         \* requests that fetch a client and use it
          NoClient,
          MaxClients,   \* bound: clients made
          MaxReloads    \* bound: changes of the configuration

VARIABLES clients,  \* [Name -> the client registered, or NoClient]
          made,     \* Seq([conf, open]): the clients made, with their configuration
          held,     \* clients that a caller of RegisterClient has made
          given,    \* clients that RegisterClient registered
          closing,  \* clients whose closing goroutine has not run
          leaked,   \* clients that were dropped without being closed
          file,     \* version of the configuration file
          conf,     \* version of config.Conf
          signal,   \* a signal is in the channel
          reload,   \* [pc, at, kind, read, left, new, bad]; read: kind -> version
          used,     \* [User -> the client it has fetched, or NoClient]
          shut      \* CloseAllClients has run

vars == <<clients, made, held, given, closing, leaked, file, conf, signal, reload, used, shut>>

Kind == 1 .. Kinds
Name == DOMAIN KindOf
Client == 1 .. MaxClients
NamesOf(k, version) == {n \in NamesIn[version] : KindOf[n] = k}

(* The type of every variable. *)
TypeOK ==
    /\ clients \in [Name -> Client \cup {NoClient}]
    /\ Len(made) <= MaxClients
    /\ \A c \in DOMAIN made : made[c].conf \in 0 .. MaxReloads /\ made[c].open \in BOOLEAN
    /\ held \cup given \cup closing \cup leaked \subseteq DOMAIN made
    /\ file \in 0 .. MaxReloads /\ conf \in 0 .. file /\ signal \in BOOLEAN
    /\ reload.pc \in {"wait", "kind", "new", "swap"} /\ reload.kind \in 0 .. Kinds
    /\ reload.read \in [Kind -> 0 .. file] /\ reload.left \subseteq Name /\ reload.bad \subseteq Kind
    /\ used \in [User -> Client \cup {NoClient}] /\ shut \in BOOLEAN

Init ==
    /\ clients = [n \in Name |-> NoClient] /\ made = <<>>
    /\ held = {} /\ given = {} /\ closing = {} /\ leaked = {}
    /\ file = 0 /\ conf = 0 /\ signal = FALSE
    /\ reload = [pc |-> "wait", at |-> 0, kind |-> 0, read |-> [k \in Kind |-> 0], left |-> {},
                 new |-> NoClient, bad |-> Kind]
    /\ used = [u \in User |-> NoClient] /\ shut = FALSE

Make(version) == Append(made, [conf |-> version, open |-> TRUE])

\* A caller makes a client and registers it later.  The client that has the name by then
\* is overwritten, and nobody closes it.
MakeClient ==
    /\ Len(made) < MaxClients
    /\ made' = Make(conf)
    /\ held' = held \cup {Len(made')}
    /\ UNCHANGED <<clients, given, closing, leaked, file, conf, signal, reload, used, shut>>

RegisterClient(n, c) ==
    /\ c \in held
    /\ held' = held \ {c} /\ given' = given \cup {c}
    /\ clients' = [clients EXCEPT ![n] = c]
    /\ leaked' = leaked \cup ({clients[n]} \ {NoClient})
    /\ UNCHANGED <<made, closing, file, conf, signal, reload, used, shut>>

\* The file changes; a signal that finds one in the channel is dropped.
OnConfigChange ==
    /\ file < MaxReloads
    /\ file' = file + 1 /\ signal' = TRUE
    /\ UNCHANGED <<clients, made, held, given, closing, leaked, conf, reload, used, shut>>

\* The other receiver of the channel reads the file, which may fail, and that is all.
WatchHotReload ==
    /\ signal /\ signal' = FALSE
    /\ conf' \in {conf, file}
    /\ UNCHANGED <<clients, made, held, given, closing, leaked, file, reload, used, shut>>

\* The receiver that swaps clients reads the file first; that may fail.
HandleConfigReload ==
    /\ reload.pc = "wait" /\ signal
    /\ signal' = FALSE
    /\ \/ /\ conf' = file
          /\ reload' = [reload EXCEPT !.pc = "kind", !.at = file, !.kind = 0, !.bad = {}]
       \/ UNCHANGED <<conf, reload>>
    /\ UNCHANGED <<clients, made, held, given, closing, leaked, file, used, shut>>

\* The next kind, whatever became of the last one, with the names that the configuration
\* has by now; after the last, the keys.
\* Mutant: an error ends the reload.
NextKindStops == IF reload.bad /= {} THEN Kinds ELSE reload.kind

NextKind == reload.kind

hotSwapConnections ==
    /\ reload.pc = "kind"
    /\ LET next == NextKind + 1 IN
       reload' = IF NextKind = Kinds THEN [reload EXCEPT !.pc = "wait", !.kind = 0]
                 ELSE [reload EXCEPT !.pc = IF NamesOf(next, conf) = {} THEN "kind" ELSE "new",
                                     !.kind = next, !.read[next] = conf,
                                     !.left = NamesOf(next, conf)]
    /\ UNCHANGED <<clients, made, held, given, closing, leaked, file, conf, signal, used, shut>>

KindFailed ==
    [reload EXCEPT !.pc = "kind", !.left = {}, !.new = NoClient, !.bad = @ \cup {reload.kind}]

\* A client for one of the names that are left; the first error ends the kind, and a Redis
\* client whose first Ping fails stays open.
NewClient ==
    /\ reload.pc = "new" /\ reload.left /= {} /\ Len(made) < MaxClients
    /\ \/ /\ made' = Make(reload.read[reload.kind])
          /\ \/ /\ reload' = [reload EXCEPT !.pc = "swap", !.new = Len(made')]
                /\ UNCHANGED leaked
             \/ leaked' = leaked \cup {Len(made')} /\ reload' = KindFailed
       \/ UNCHANGED <<made, leaked>> /\ reload' = KindFailed
    /\ UNCHANGED <<clients, held, given, closing, file, conf, signal, used, shut>>

\* The old client is looked up before the new one takes its place.
\* Mutant: it is looked up afterwards.
OldClientAfter(n) == reload.new

OldClient(n) == clients[n]

\* HealthCheck and the swap, under the lock.  A client that fails the check stays open.
HotSwapClient ==
    /\ reload.pc = "swap"
    /\ \/ \E n \in reload.left :
            /\ closing' = closing \cup ({OldClient(n)} \ {NoClient})
            /\ clients' = [clients EXCEPT ![n] = reload.new]
            /\ reload' = [reload EXCEPT !.pc = IF reload.left = {n} THEN "kind" ELSE "new",
                                        !.left = @ \ {n}, !.new = NoClient]
            /\ UNCHANGED leaked
       \/ /\ leaked' = leaked \cup {reload.new} /\ reload' = KindFailed
          /\ UNCHANGED <<clients, closing>>
    /\ UNCHANGED <<made, held, given, file, conf, signal, used, shut>>

CloseOld ==
    /\ \E c \in closing : /\ made' = [made EXCEPT ![c].open = FALSE]
                          /\ closing' = closing \ {c}
    /\ UNCHANGED <<clients, held, given, leaked, file, conf, signal, reload, used, shut>>

GetClient(u, n) ==
    /\ used[u] = NoClient /\ clients[n] /= NoClient
    /\ used' = [used EXCEPT ![u] = clients[n]]
    /\ UNCHANGED <<clients, made, held, given, closing, leaked, file, conf, signal, reload, shut>>

DropClient(u) ==
    /\ used[u] /= NoClient
    /\ used' = [used EXCEPT ![u] = NoClient]
    /\ UNCHANGED <<clients, made, held, given, closing, leaked, file, conf, signal, reload, shut>>

\* All that are registered are closed; they stay registered.
CloseAllClients ==
    /\ ~shut /\ shut' = TRUE
    /\ made' = [c \in DOMAIN made |->
                    IF \E n \in Name : clients[n] = c THEN [made[c] EXCEPT !.open = FALSE]
                    ELSE made[c]]
    /\ UNCHANGED <<clients, held, given, closing, leaked, file, conf, signal, reload, used>>

ReloadStep == HandleConfigReload \/ hotSwapConnections \/ NewClient \/ HotSwapClient

Next ==
    \/ ReloadStep \/ CloseOld \/ OnConfigChange \/ WatchHotReload \/ CloseAllClients
    \/ MakeClient \/ \E n \in Name, c \in held : RegisterClient(n, c)
    \/ \E u \in User : DropClient(u) \/ \E n \in Name : GetClient(u, n)

Spec == Init /\ [][Next]_vars

(***************************************************************************)
(* Properties                                                              *)
(***************************************************************************)

(* Until all clients are closed, a registered client is open and nobody   *)
(* is about to close it (HotSwapClient, with the closing goroutine).      *)
RegisteredIsOpen ==
    ~shut => \A n \in Name : clients[n] /= NoClient =>
        made[clients[n]].open /\ clients[n] \notin closing

(* After a reload every kind that met no error has a client for each of   *)
(* the names it found, made from what it read, no older than the version  *)
(* the reload began with, or put there by RegisterClient: an error of one *)
(* kind does not hold up the others (HandleConfigReload).                 *)
OtherKindsAreCurrent ==
    reload.pc = "wait" => \A k \in Kind \ reload.bad : \A n \in NamesOf(k, reload.read[k]) :
        /\ clients[n] /= NoClient
        /\ made[clients[n]].conf >= reload.at \/ clients[n] \in given

(* An open client is registered, about to be closed or in the hands of    *)
(* the reload or of a caller, or was dropped by a failed check or by      *)
(* RegisterClient.                                                        *)
OpenIsAccounted ==
    \A c \in DOMAIN made : made[c].open =>
        \/ c \in held \cup closing \cup leaked \cup {reload.new}
        \/ \E n \in Name : clients[n] = c

(* Claim of hot_reload.go:65 ("异步关闭旧客户端"): a request that uses a       *)
(* client uses an open one.  The old client is closed under it.           *)
UsedIsOpen == ~shut => \A u \in User : used[u] /= NoClient => made[used[u]].open

(* Claim of hot_reload.go:433 ("监听配置变更"): a change of the file reaches  *)
(* the clients.  The signal may go to the other receiver, which swaps     *)
(* nothing.                                                               *)
ReloadReachesClients ==
    reload.pc = "wait" /\ ~signal /\ reload.bad = {} /\ conf = file =>
        \A n \in Name : clients[n] /= NoClient => made[clients[n]].conf = file

(* Claim: no client is left open.  The one that fails its check is.       *)
NothingLeaks == \A c \in leaked : ~made[c].open

=============================================================================
