--------------------------- MODULE ConfigVersions ---------------------------
(***************************************************************************)
(* ConfigVersionManager and ConfigHotReloader                              *)
(* (app/common/config/config_version_manager.go).  The manager has a lock  *)
(* of its own; a reload takes it twice, copies the list of watchers and    *)
(* calls them one by one, reading the configuration of the version, a      *)
(* shared object, for each of them.                                        *)
(***************************************************************************)
EXTENDS Naturals

CONSTANTS
    Version, Watcher, Reload,
    NoVersion,
    MaxConfig, MaxChanges   \* bounds: contents of a version, recorded changes

VARIABLES
    versions,       \* version -> its content and whether it says IsActive
    activeVersion,
    changes,        \* status -> how many of the recorded changes have it
    watchers,       \* the registered watchers
    has,            \* watcher -> the version and content it was given last
    at, doing, todo, \* reload -> its point, version, watchers still to be told
    quiet           \* nothing came between since the last reload began

managerVars == <<versions, activeVersion, changes>>
reloadVars == <<at, doing, todo>>
vars == <<managerVars, watchers, has, reloadVars, quiet>>

Nothing == [version |-> NoVersion, content |-> 0]

Init ==
    /\ versions = <<>> /\ activeVersion = NoVersion
    /\ changes = [s \in {"pending", "approved", "rejected", "applied"} |-> 0]
    /\ watchers = {} /\ has = [w \in Watcher |-> Nothing]
    /\ at = [r \in Reload |-> "idle"] /\ doing = [r \in Reload |-> NoVersion]
    /\ todo = [r \in Reload |-> {}] /\ quiet = FALSE

\* A change gets an id of its own (generateChangeID): none replaces another.
Record(status) ==
    /\ changes["pending"] + changes["approved"] + changes["rejected"] + changes["applied"]
          < MaxChanges
    /\ changes' = [changes EXCEPT ![status] = @ + 1]

CreateVersion(v) ==
    /\ v \notin DOMAIN versions
    /\ versions' = [x \in DOMAIN versions \cup {v} |->
                       IF x = v THEN [content |-> 1, IsActive |-> FALSE] ELSE versions[x]]
    /\ Record("pending")
    /\ UNCHANGED <<activeVersion, watchers, has, reloadVars, quiet>>

UpdateVersion(v) ==
    /\ v \in DOMAIN versions /\ versions[v].content < MaxConfig
    /\ versions' = [versions EXCEPT ![v].content = @ + 1]
    /\ Record("pending") /\ quiet' = FALSE
    /\ UNCHANGED <<activeVersion, watchers, has, reloadVars>>

\* Mutant: the version in use is not taken out of use.
ActivatedOnly(v) == [versions EXCEPT ![v].IsActive = TRUE]

\* The version in use is taken out of use, then v is put in.
Activated(v) ==
    [x \in DOMAIN versions |->
        [versions[x] EXCEPT !.IsActive = IF x = v THEN TRUE
                                         ELSE IF x = activeVersion THEN FALSE ELSE @]]

\* Approval is not looked at.
ActivateVersion(v) ==
    /\ v \in DOMAIN versions
    /\ versions' = Activated(v) /\ activeVersion' = v
    /\ Record("applied")
    /\ UNCHANGED <<watchers, has>>

RollbackVersion(v) ==
    /\ v \in DOMAIN versions
    /\ versions' = Activated(v) /\ activeVersion' = v
    /\ Record("applied") /\ quiet' = FALSE
    /\ UNCHANGED <<watchers, has, reloadVars>>

Decide(status) ==
    /\ changes["pending"] > 0
    /\ changes' = [changes EXCEPT !["pending"] = @ - 1, ![status] = @ + 1]
    /\ UNCHANGED <<versions, activeVersion, watchers, has, reloadVars, quiet>>

\* Neither does anything to the version the change is about.
ApproveChange == Decide("approved")
RejectChange == Decide("rejected")

-----------------------------------------------------------------------------
RegisterWatcher(w) ==
    /\ w \notin watchers /\ watchers' = watchers \cup {w} /\ quiet' = FALSE
    /\ UNCHANGED <<managerVars, has, reloadVars>>

UnregisterWatcher(w) ==
    /\ w \in watchers /\ watchers' = watchers \ {w}
    /\ UNCHANGED <<managerVars, has, reloadVars, quiet>>

\* ReloadConfig: GetVersion and ActivateVersion.
ReloadConfig(r, v) ==
    /\ at[r] = "idle" /\ ActivateVersion(v)
    /\ at' = [at EXCEPT ![r] = "copy"] /\ doing' = [doing EXCEPT ![r] = v]
    /\ quiet' = \A x \in Reload : at[x] = "idle"
    /\ UNCHANGED todo

CopyWatchers(r) ==
    /\ at[r] = "copy"
    /\ todo' = [todo EXCEPT ![r] = watchers] /\ at' = [at EXCEPT ![r] = "notify"]
    /\ UNCHANGED <<managerVars, watchers, has, doing, quiet>>

\* Mutant: the reload ends at the first watcher that fails.
RestOnError(r, w, ok) == IF ok THEN todo[r] \ {w} ELSE {}

Rest(r, w, ok) == todo[r] \ {w}

\* One watcher: an error is logged and the others are told as well.
Notify(r, w) ==
    /\ at[r] = "notify" /\ w \in todo[r]
    /\ \E ok \in BOOLEAN :
          /\ has' = IF ok THEN [has EXCEPT ![w] = [version |-> doing[r],
                                                   content |-> versions[doing[r]].content]]
                    ELSE [has EXCEPT ![w] = Nothing]
          /\ todo' = [todo EXCEPT ![r] = Rest(r, w, ok)]
    /\ UNCHANGED <<managerVars, watchers, at, doing, quiet>>

ReloadDone(r) ==
    /\ at[r] = "notify" /\ todo[r] = {}
    /\ at' = [at EXCEPT ![r] = "idle"] /\ doing' = [doing EXCEPT ![r] = NoVersion]
    /\ UNCHANGED <<managerVars, watchers, has, todo, quiet>>

Next ==
    \/ \E v \in Version :
          \/ CreateVersion(v) \/ UpdateVersion(v) \/ RollbackVersion(v)
          \/ ActivateVersion(v) /\ quiet' = FALSE /\ UNCHANGED reloadVars
          \/ \E r \in Reload : ReloadConfig(r, v)
    \/ ApproveChange \/ RejectChange
    \/ \E w \in Watcher : RegisterWatcher(w) \/ UnregisterWatcher(w)
    \/ \E r \in Reload : CopyWatchers(r) \/ ReloadDone(r) \/ \E w \in Watcher : Notify(r, w)

Spec == Init /\ [][Next]_vars

-----------------------------------------------------------------------------
\* The type invariant of the versions.
TypeOK ==
    /\ \A v \in DOMAIN versions :
          v \in Version /\ versions[v] \in [content : 1 .. MaxConfig, IsActive : BOOLEAN]
    /\ activeVersion \in Version \cup {NoVersion} /\ watchers \subseteq Watcher
    /\ DOMAIN changes = {"pending", "approved", "rejected", "applied"}
    /\ \A s \in DOMAIN changes : changes[s] \in 0 .. MaxChanges
    /\ at \in [Reload -> {"idle", "copy", "notify"}] /\ todo \in [Reload -> SUBSET Watcher]

\* The version that GetActiveVersion returns is the only one that says it is active, across
\* activations, roll-backs and reloads that overlap.
OneActive ==
    /\ {v \in DOMAIN versions : versions[v].IsActive} =
          IF activeVersion = NoVersion THEN {} ELSE {activeVersion}
    /\ activeVersion # NoVersion => activeVersion \in DOMAIN versions

\* When a reload is over and nothing came between (no other reload, activation, roll-back or
\* update, no new watcher), every watcher has the active version as it is now, but for those
\* that failed: one failure does not keep the others from being told.
ReloadTellsAll ==
    quiet /\ (\A r \in Reload : at[r] = "idle") =>
        \A w \in watchers :
            has[w] \in {Nothing, [version |-> activeVersion,
                                 content |-> versions[activeVersion].content]}

\* "通知所有观察者": after reloads all the watchers that did not fail have the active version.
WatchersAgree ==
    (\A r \in Reload : at[r] = "idle") =>
        \A w \in watchers : has[w].version \in {activeVersion, NoVersion}
=============================================================================
