---------------------------- MODULE ConfigBackups ----------------------------
(***************************************************************************)
(* common/governance/config_management.go: a configuration with a version  *)
(* number, the backups ConfigManagerWithBackup takes before each change,   *)
(* and watchers that a goroutine each tells of a change.                   *)
(*                                                                         *)
(* Two locks are involved.  createBackup holds that of the backups and     *)
(* takes that of the configuration twice, once for the values and once for *)
(* the version; the change itself comes after both.                        *)
(***************************************************************************)
EXTENDS Integers, Sequences, FiniteSets, FiniteSetsExt

CONSTANTS Key, Value, NoValue,
          Setter,       \* threads that set or restore
          NoSetter,
          maxBackups,   \* ConfigManagerWithBackup.maxBackups
          MaxVersion    \* bound on the version

VARIABLES configs,  \* [Key -> Value or NoValue]
          version,
          history,  \* the values each version had
          backups,  \* Seq([configs, version])
          holder,   \* the thread that has the lock of the backups for writing
          call,     \* [Setter -> [pc, key, value, got, at, left]]: got were the values of version at
          watched,  \* whether a watcher listens
          telling,  \* notifications whose goroutine has not run: [key, value]
          told      \* [Key -> the value the watcher was last told]

vars == <<configs, version, history, backups, holder, call, watched, telling, told>>

Values == [Key -> Value \cup {NoValue}]
Empty == [k \in Key |-> NoValue]
Idle == [pc |-> "idle", key |-> NoValue, value |-> NoValue, got |-> Empty, at |-> 1, left |-> {}]

(* The type of every variable. *)
TypeOK ==
    /\ configs \in Values /\ version \in 1 .. MaxVersion
    /\ DOMAIN history = 1 .. version /\ \A v \in 1 .. version : history[v] \in Values
    /\ backups \in Seq([configs : Values, version : 1 .. MaxVersion])
    /\ holder \in Setter \cup {NoSetter}
    /\ \A s \in Setter : /\ call[s].pc \in {"idle", "version", "set", "restore"}
                         /\ call[s].got \in Values /\ call[s].left \subseteq Key
    /\ watched \in BOOLEAN /\ told \in Values
    /\ telling \subseteq [key : Key, value : Value, version : 1 .. MaxVersion]

Init ==
    /\ configs = Empty /\ version = 1 /\ history = <<Empty>>
    /\ backups = <<>> /\ holder = NoSetter
    /\ call = [s \in Setter |-> Idle]
    /\ watched = FALSE /\ telling = {} /\ told = Empty

\* ConfigManager.SetConfig: one period of the lock, and a goroutine per watcher.
ManagerSet(k, v) ==
    /\ version < MaxVersion
    /\ configs' = [configs EXCEPT ![k] = v]
    /\ version' = version + 1
    /\ history' = Append(history, configs')
    /\ telling' = IF watched THEN telling \cup {[key |-> k, value |-> v, version |-> version + 1]}
                  ELSE telling

\* createBackup: the lock of the backups, and the values.
createBackup(s) ==
    /\ call[s].pc = "idle" /\ holder = NoSetter
    /\ \A t \in Setter : call[t].pc /= "restore"
    /\ holder' = s
    /\ \E k \in Key, v \in Value :
        call' = [call EXCEPT ![s] = [Idle EXCEPT !.pc = "version", !.key = k, !.value = v,
                                                 !.got = configs, !.at = version]]
    /\ UNCHANGED <<configs, version, history, backups, watched, telling, told>>

\* The oldest backup goes when there are too many.
Limited(list) == IF Len(list) > maxBackups THEN Tail(list) ELSE list

\* The backup with the version that is current by now.
\* Mutant: the version is read first and the values with the second lock.
BackupVersionFirst(s) == [configs |-> configs, version |-> call[s].at]

Backup(s) == [configs |-> call[s].got, version |-> version]

ReadVersion(s) ==
    /\ call[s].pc = "version"
    /\ backups' = Limited(Append(backups, Backup(s)))
    /\ holder' = NoSetter
    /\ call' = [call EXCEPT ![s].pc = "set", ![s].got = Empty, ![s].at = 1]
    /\ UNCHANGED <<configs, version, history, watched, telling, told>>

\* The change that the backup was made for.
SetConfig(s) ==
    /\ call[s].pc = "set"
    /\ ManagerSet(call[s].key, call[s].value)
    /\ call' = [call EXCEPT ![s] = Idle]
    /\ UNCHANGED <<backups, holder, watched, told>>

\* The first backup of the version, for whoever reads it under the lock.
RestoreFromBackup(s) ==
    /\ call[s].pc = "idle" /\ holder = NoSetter
    /\ \E v \in {backups[j].version : j \in DOMAIN backups} :
        LET j == Min({k \in DOMAIN backups : backups[k].version = v})
            b == backups[j].configs
            keys == {k \in Key : b[k] /= NoValue}
        IN keys /= {} /\ call' = [call EXCEPT ![s] = [Idle EXCEPT !.pc = "restore", !.got = b,
                                                                   !.left = keys]]
    /\ UNCHANGED <<configs, version, history, backups, holder, watched, telling, told>>

\* The keys of the backup, in any order, each set by itself; other keys stay.
RestoreKey(s) ==
    /\ call[s].pc = "restore"
    /\ \E k \in call[s].left :
        /\ ManagerSet(k, call[s].got[k])
        /\ LET rest == call[s].left \ {k}
           IN call' = [call EXCEPT ![s] = IF rest = {} THEN Idle
                                          ELSE [call[s] EXCEPT !.left = rest]]
    /\ UNCHANGED <<backups, holder, watched, told>>

WatchConfig ==
    /\ ~watched /\ watched' = TRUE
    /\ UNCHANGED <<configs, version, history, backups, holder, call, telling, told>>

UnwatchConfig ==
    /\ watched /\ watched' = FALSE
    /\ UNCHANGED <<configs, version, history, backups, holder, call, telling, told>>

\* One of the goroutines runs; nothing orders them.
OnConfigChange ==
    /\ \E n \in telling : /\ told' = [told EXCEPT ![n.key] = n.value]
                          /\ telling' = telling \ {n}
    /\ UNCHANGED <<configs, version, history, backups, holder, call, watched>>

Next ==
    \/ \E s \in Setter : createBackup(s) \/ ReadVersion(s) \/ SetConfig(s)
                         \/ RestoreFromBackup(s) \/ RestoreKey(s)
    \/ WatchConfig \/ UnwatchConfig \/ OnConfigChange

Spec == Init /\ [][Next]_vars

(***************************************************************************)
(* Properties                                                              *)
(***************************************************************************)

(* The values of a backup are those of its version or of an earlier one:  *)
(* a restore never brings a value newer than the version it names, though *)
(* other threads set values between the two reads                         *)
(* (ConfigManagerWithBackup.createBackup).                                *)
BackupNotNewer ==
    \A j \in DOMAIN backups :
        \E v \in 1 .. backups[j].version : history[v] = backups[j].configs

(* The backups are in the order of their versions, which is why the first *)
(* one that is found is the oldest, and there are at most maxBackups.     *)
BackupsOrdered ==
    /\ Len(backups) <= maxBackups
    /\ \A j, k \in DOMAIN backups : j < k => backups[j].version <= backups[k].version

(* Claim of config_management.go:365 ("查找指定版本的备份"): a backup has the *)
(* values of its version.  A change may come between the two reads.       *)
BackupExact == \A j \in DOMAIN backups : history[backups[j].version] = backups[j].configs

(* Claim: a watcher that is told of everything knows the value.  The      *)
(* goroutines of two changes may run in either order.                     *)
LastToldWins == watched /\ telling = {} => \A k \in Key : told[k] \in {NoValue, configs[k]}

(* Claim of config_management.go:378 ("恢复配置"): a restore that ends       *)
(* leaves the values of the backup.  A key the backup lacks stays.        *)
RestoreIsComplete ==
    \A s \in Setter : call[s].pc = "restore" /\ call'[s].pc = "idle"
        /\ (\A t \in Setter \ {s} : call[t].pc = "idle") => configs' = call[s].got

=============================================================================
