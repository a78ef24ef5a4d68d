----------------------------- MODULE EventStore -----------------------------
(***************************************************************************)
(* PersistentEventBus, MemoryEventStore, the replay manager, snapshots and *)
(* the archive (app/common/patterns/event_persistence.go).  Each operation *)
(* of a store is atomic; archiving, restoring and replaying are loops over *)
(* a list taken before, in the order of a Go map: any.                     *)
(***************************************************************************)
EXTENDS Naturals, FiniteSets

CONSTANTS
    Event,           \* the ids of the events
    Kind,            \* event -> its type, which also stands for its source
    Job,             \* goroutines that archive, restore or replay
    retention,       \* retentionDays
    MaxTime          \* bound on the clock

VARIABLES
    now,
    stamp,           \* event -> its Timestamp, or 0 before it was made
    form,            \* event -> "made": as it was made, "json": through a snapshot
    store, archive,  \* the ids in the two stores
    snapshots,       \* the ids with a snapshot
    persist,         \* whether Publish saves
    at, list, cutoff, \* job -> what it does, the events it still has to handle, its cutoff
    deleted,         \* the ids an explicit deletion removed
    late             \* the ids saved with a Timestamp that some archiving has passed

jobVars == <<at, list, cutoff>>
vars == <<now, stamp, form, store, archive, snapshots, persist, jobVars, deleted, late>>

Init ==
    /\ now = 1 /\ stamp = [e \in Event |-> 0] /\ form = [e \in Event |-> "made"]
    /\ store = {} /\ archive = {} /\ snapshots = {} /\ persist = TRUE
    /\ at = [j \in Job |-> "idle"] /\ list = [j \in Job |-> {}] /\ cutoff = [j \in Job |-> 0]
    /\ deleted = {} /\ late = {}

NewBaseEvent(e) ==
    /\ stamp[e] = 0 /\ stamp' = [stamp EXCEPT ![e] = now]
    /\ UNCHANGED <<now, form, store, archive, snapshots, persist, jobVars, deleted, late>>

Tick ==
    /\ now < MaxTime /\ now' = now + 1
    /\ UNCHANGED <<stamp, form, store, archive, snapshots, persist, jobVars, deleted, late>>

SetPersistence(b) ==
    /\ b # persist /\ persist' = b
    /\ UNCHANGED <<now, stamp, form, store, archive, snapshots, jobVars, deleted, late>>

\* SaveEvent into the store of the bus.
SaveEvent(e) ==
    /\ store' = store \cup {e} /\ deleted' = deleted \ {e}
    /\ late' = IF \E j \in Job : at[j] \in {"archive", "delete"} /\ stamp[e] < cutoff[j]
               THEN late \cup {e} ELSE late \ {e}

\* Publish: what the subscribers do with the event is the bus's part.
Publish(e) ==
    /\ stamp[e] # 0
    /\ IF persist THEN SaveEvent(e) ELSE UNCHANGED <<store, deleted, late>>
    /\ UNCHANGED <<now, stamp, form, archive, snapshots, persist, jobVars>>

\* GetEventsByType and GetEventsBySource, of the store or of the archive.
OfKind(S, k) == {e \in S : Kind[e] = k}

DeleteEvents(which) ==
    /\ store \cap which # {}
    /\ store' = store \ which /\ deleted' = deleted \cup (store \cap which)
    /\ UNCHANGED <<now, stamp, form, archive, snapshots, persist, jobVars, late>>

DeleteEvent(e) == DeleteEvents({e})
DeleteEventsByType(k) == DeleteEvents(OfKind(Event, k))
DeleteEventsBySource(k) == DeleteEventsByType(k)

-----------------------------------------------------------------------------
\* A snapshot keeps the data as JSON: restored, its integers are floats.
CreateSnapshot(e) ==
    /\ stamp[e] # 0 /\ e \notin snapshots /\ snapshots' = snapshots \cup {e}
    /\ UNCHANGED <<now, stamp, form, store, archive, persist, jobVars, deleted, late>>

RestoreEvent(e) ==
    /\ e \in snapshots /\ form' = [form EXCEPT ![e] = "json"]
    /\ UNCHANGED <<now, stamp, store, archive, snapshots, persist, jobVars, deleted, late>>

-----------------------------------------------------------------------------
Start(j, what, which, cut) ==
    /\ at[j] = "idle" /\ at' = [at EXCEPT ![j] = what]
    /\ list' = [list EXCEPT ![j] = which] /\ cutoff' = [cutoff EXCEPT ![j] = cut]
    /\ UNCHANGED <<now, stamp, form, store, archive, snapshots, persist, deleted, late>>

Stop(j) ==
    /\ at' = [at EXCEPT ![j] = "idle"] /\ list' = [list EXCEPT ![j] = {}]
    /\ cutoff' = [cutoff EXCEPT ![j] = 0]

Older(cut) == {e \in store : stamp[e] < cut}

\* ArchiveOldEvents: the list of the old events ...
ArchiveOldEvents(j) == Start(j, "archive", Older(now - retention), now - retention)

\* ... each saved in the archive, any error ending it ...
ArchiveOne(j, e) ==
    /\ at[j] = "archive" /\ e \in list[j]
    /\ \/ archive' = archive \cup {e} /\ list' = [list EXCEPT ![j] = @ \ {e}]
          /\ UNCHANGED <<at, cutoff>>
       \/ Stop(j) /\ UNCHANGED archive
    /\ UNCHANGED <<now, stamp, form, store, snapshots, persist, deleted, late>>

\* Mutant: the cutoff is taken again from the clock.
RemovedByClock(j) == Older(now - retention)

\* DeleteEventsByTimeRange with the cutoff of the list.
Removed(j) == Older(cutoff[j])

\* ... and what is older than the cutoff deleted.
ArchiveDelete(j) ==
    /\ at[j] = "archive" /\ list[j] = {}
    /\ store' = store \ Removed(j) /\ Stop(j)
    /\ UNCHANGED <<now, stamp, form, archive, snapshots, persist, deleted, late>>

\* RestoreFromArchive: the archived events of a type, each saved in the store.
RestoreFromArchive(j, k) == Start(j, "restore", OfKind(archive, k), 0)

RestoreOne(j, e) ==
    /\ at[j] = "restore" /\ e \in list[j]
    /\ SaveEvent(e) /\ list' = [list EXCEPT ![j] = @ \ {e}]
    /\ UNCHANGED <<now, stamp, form, archive, snapshots, persist, at, cutoff>>

\* ReplayEvents and replayEvents publish again, without saving; an error ends it.
ReplayEvents(j, k) == Start(j, "replay", OfKind(store, k), 0)

ReplayOne(j, e) ==
    /\ at[j] = "replay" /\ e \in list[j]
    /\ \/ list' = [list EXCEPT ![j] = @ \ {e}] /\ UNCHANGED <<at, cutoff>>
       \/ Stop(j)
    /\ UNCHANGED <<now, stamp, form, store, archive, snapshots, persist, deleted, late>>

Finish(j) ==
    /\ at[j] \in {"restore", "replay"} /\ list[j] = {} /\ Stop(j)
    /\ UNCHANGED <<now, stamp, form, store, archive, snapshots, persist, deleted, late>>

Kinds == {Kind[e] : e \in Event}

Next ==
    \/ Tick \/ \E b \in BOOLEAN : SetPersistence(b)
    \/ \E e \in Event :
          NewBaseEvent(e) \/ Publish(e) \/ DeleteEvent(e) \/ CreateSnapshot(e) \/ RestoreEvent(e)
    \/ \E k \in Kinds : DeleteEventsByType(k) \/ DeleteEventsBySource(k)
    \/ \E j \in Job :
          \/ ArchiveOldEvents(j) \/ ArchiveDelete(j) \/ Finish(j)
          \/ \E k \in Kinds : RestoreFromArchive(j, k) \/ ReplayEvents(j, k)
          \/ \E e \in Event : ArchiveOne(j, e) \/ RestoreOne(j, e) \/ ReplayOne(j, e)

Spec == Init /\ [][Next]_vars

-----------------------------------------------------------------------------
\* The type invariant of the stores.
TypeOK ==
    /\ now \in 1 .. MaxTime /\ stamp \in [Event -> 0 .. MaxTime]
    /\ store \cup archive \cup snapshots \cup deleted \cup late \subseteq Event
    /\ at \in [Job -> {"idle", "archive", "restore", "replay"}] /\ list \in [Job -> SUBSET Event]

\* Archiving loses nothing: a step that takes an event out of the store is a deletion
\* somebody asked for, or the event is in the archive, whatever jobs overlap; the one
\* exception is an event saved with an old Timestamp while the archiving was under way.
ArchivingLosesNothing ==
    \A e \in store \ store' : e \in deleted' \cup archive' \cup late

\* "归档旧事件": no event is lost without a deletion.
NoEventIsLost == \A e \in store \ store' : e \in deleted' \cup archive'

\* Archiving takes no event younger than the retention.
OnlyOldAreArchived == \A e \in archive : stamp[e] < now - retention
=============================================================================
