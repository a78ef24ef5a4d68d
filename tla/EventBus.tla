------------------------------ MODULE EventBus ------------------------------
(***************************************************************************)
(* EnhancedEventBus with its filters and priorities, and AsyncSubscriber   *)
(* (app/common/patterns/observer.go), for one type of event.  The list of  *)
(* subscribers is a Go slice: a header (array, length) over an array that  *)
(* several headers share.  Publish takes the header under the lock and     *)
(* copies the array after it has given the lock back; Unsubscribe moves    *)
(* the elements of the same array, one after the other, under the lock.    *)
(***************************************************************************)
EXTENDS Naturals, Sequences, SequencesExt

CONSTANTS
    Subscriber, Publisher, Async,   \* Async: the subscribers with a queue of their own
    NoSubscriber,
    queueSize,
    OwnPriority,                    \* subscriber -> what its GetPriority returns
    NewPriority,                    \* what SetPriority is called with
    MaxCalls, MaxPublished          \* bounds: calls that change the bus, events

VARIABLES
    arrays,      \* the arrays that were allocated, each as long as its capacity
    slice,       \* the bus's header: [array, len]
    moving,      \* 0, or the position Unsubscribe fills next: the lock is taken
    filters,     \* whether a filter is registered
    priority,    \* subscriber -> its priority
    at, header, sorted,  \* publisher -> its point, its headers, its copy
    cursor,              \* publisher -> where its sort is, the priority it read at i
    listed, disturbed,   \* publisher -> the subscribers at the start; what changed since
    calls, published,    \* the calls and events so far
    queue, ctx, worker   \* async subscriber -> events waiting, "live" "cancelled" "closed",
                         \* its worker "waits" or "gone"

listVars == <<arrays, slice, moving>>
pubVars == <<at, header, sorted, cursor, listed, disturbed>>
asyncVars == <<queue, ctx, worker>>
vars == <<listVars, filters, priority, pubVars, calls, published, asyncVars>>

NoHeader == [array |-> 0, len |-> 0, filtered |-> FALSE]
Start == [i |-> 1, j |-> 2, left |-> 0]

Init ==
    /\ arrays = <<>> /\ slice = [array |-> 0, len |-> 0] /\ moving = 0
    /\ filters = FALSE /\ priority = OwnPriority
    /\ at = [p \in Publisher |-> "idle"] /\ header = [p \in Publisher |-> NoHeader]
    /\ sorted = [p \in Publisher |-> <<>>] /\ listed = [p \in Publisher |-> <<>>]
    /\ cursor = [p \in Publisher |-> Start] /\ disturbed = [p \in Publisher |-> {}]
    /\ calls = 0 /\ published = 0
    /\ queue = [s \in Async |-> 0] /\ ctx = [s \in Async |-> "live"]
    /\ worker = [s \in Async |-> "waits"]

Elements(h) == IF h.len = 0 THEN <<>> ELSE SubSeq(arrays[h.array], 1, h.len)

Unlocked == moving = 0

Called == calls < MaxCalls /\ calls' = calls + 1

-----------------------------------------------------------------------------
\* append: in place while the capacity lasts, else into an array twice as long.
Appended(s) ==
    IF slice.array # 0 /\ slice.len < Len(arrays[slice.array])
    THEN /\ arrays' = [arrays EXCEPT ![slice.array][slice.len + 1] = s]
         /\ slice' = [slice EXCEPT !.len = @ + 1]
    ELSE LET cap == IF slice.len = 0 THEN 1 ELSE 2 * slice.len IN
         /\ arrays' = Append(arrays, [i \in 1 .. cap |->
                          IF i <= slice.len THEN arrays[slice.array][i]
                          ELSE IF i = slice.len + 1 THEN s ELSE NoSubscriber])
         /\ slice' = [array |-> Len(arrays) + 1, len |-> slice.len + 1]

Subscribe(s) ==
    /\ Unlocked /\ ~ Contains(Elements(slice), s)
    /\ Appended(s) /\ Called
    /\ UNCHANGED <<moving, filters, priority, pubVars, published, asyncVars>>

\* Unsubscribe takes the lock, finds the subscriber and begins to close the gap.
Unsubscribe(s) ==
    /\ Unlocked
    /\ \E i \in 1 .. slice.len :
          /\ Elements(slice)[i] = s /\ moving' = i
          /\ disturbed' = [p \in Publisher |-> IF at[p] \in {"filters", "copy"}
                                               THEN disturbed[p] \cup {"list"} ELSE disturbed[p]]
    /\ UNCHANGED <<arrays, slice, filters, priority, at, header, sorted, cursor, listed, calls,
                   published, asyncVars>>

\* append(subscribers[:i], subscribers[i+1:]...), one element per step.
Move ==
    /\ moving # 0
    /\ IF moving < slice.len
       THEN /\ arrays' = [arrays EXCEPT ![slice.array][moving] =
                                      arrays[slice.array][moving + 1]]
            /\ moving' = moving + 1 /\ UNCHANGED slice
       ELSE slice' = [slice EXCEPT !.len = @ - 1] /\ moving' = 0 /\ UNCHANGED arrays
    /\ UNCHANGED <<filters, priority, pubVars, calls, published, asyncVars>>

AddFilter ==
    /\ Unlocked /\ ~ filters /\ filters' = TRUE /\ Called
    /\ UNCHANGED <<listVars, priority, pubVars, published, asyncVars>>

RemoveFilter ==
    /\ Unlocked /\ filters /\ filters' = FALSE
    /\ UNCHANGED <<listVars, priority, pubVars, calls, published, asyncVars>>

SetPriority(s, l) ==
    /\ priority[s] # l /\ priority' = [priority EXCEPT ![s] = l] /\ Called
    /\ disturbed' = [p \in Publisher |-> IF at[p] \in {"left", "right"}
                                         THEN disturbed[p] \cup {"order"} ELSE disturbed[p]]
    /\ UNCHANGED <<listVars, filters, at, header, sorted, cursor, listed, published, asyncVars>>

-----------------------------------------------------------------------------
\* Publish: the headers of the subscribers and of the filters, under the lock.
Publish(p) ==
    /\ at[p] = "idle" /\ Unlocked /\ published < MaxPublished
    /\ published' = published + 1
    /\ header' = [header EXCEPT ![p] = [array |-> slice.array, len |-> slice.len,
                                        filtered |-> filters]]
    /\ listed' = [listed EXCEPT ![p] = Elements(slice)]
    /\ at' = [at EXCEPT ![p] = "filters"]
    /\ UNCHANGED <<listVars, filters, priority, sorted, cursor, disturbed, calls, asyncVars>>

Ended(p) ==
    /\ at' = [at EXCEPT ![p] = "idle"] /\ header' = [header EXCEPT ![p] = NoHeader]
    /\ listed' = [listed EXCEPT ![p] = <<>>] /\ disturbed' = [disturbed EXCEPT ![p] = {}]

\* The filter that was registered is asked without the lock; one that refuses ends it.
applyFilters(p) ==
    /\ at[p] = "filters"
    /\ \/ at' = [at EXCEPT ![p] = "copy"] /\ UNCHANGED <<header, listed, disturbed>>
       \/ header[p].filtered /\ Ended(p)
    /\ UNCHANGED <<listVars, filters, priority, sorted, cursor, calls, published, asyncVars>>

Copy(p) ==
    /\ at[p] = "copy"
    /\ LET k == Len(sorted[p]) + 1 IN
       IF k <= header[p].len
       THEN /\ sorted' = [sorted EXCEPT ![p] = Append(@, arrays[header[p].array][k])]
            /\ UNCHANGED at
       ELSE /\ at' = [at EXCEPT ![p] = IF header[p].len > 1 THEN "left" ELSE "tell"]
            /\ UNCHANGED sorted
    /\ UNCHANGED <<listVars, filters, priority, header, cursor, listed, disturbed, calls,
                   published, asyncVars>>

\* A comparison of the sort reads two priorities, each in a period of the lock of its own.
GetPriority(p) ==
    /\ at[p] = "left" /\ at' = [at EXCEPT ![p] = "right"]
    /\ cursor' = [cursor EXCEPT ![p].left = priority[sorted[p][cursor[p].i]]]
    /\ UNCHANGED <<listVars, filters, priority, header, sorted, listed, disturbed, calls,
                   published, asyncVars>>

\* The two loops: positions i < j, the inner one over j.
After(p) ==
    LET c == cursor[p] IN
    IF c.j < Len(sorted[p]) THEN [c EXCEPT !.j = @ + 1]
    ELSE [c EXCEPT !.i = @ + 1, !.j = IF c.i + 2 <= Len(sorted[p]) THEN c.i + 2 ELSE 0]

Exchanged(p) ==
    LET i == cursor[p].i
        j == cursor[p].j IN
    IF cursor[p].left < priority[sorted[p][j]]
    THEN [sorted[p] EXCEPT ![i] = sorted[p][j], ![j] = sorted[p][i]] ELSE sorted[p]

sortSubscribersByPriority(p) ==
    /\ at[p] = "right"
    /\ sorted' = [sorted EXCEPT ![p] = Exchanged(p)]
    /\ IF After(p).j = 0
       THEN cursor' = [cursor EXCEPT ![p] = Start] /\ at' = [at EXCEPT ![p] = "tell"]
       ELSE cursor' = [cursor EXCEPT ![p] = After(p)] /\ at' = [at EXCEPT ![p] = "left"]
    /\ UNCHANGED <<listVars, filters, priority, header, listed, disturbed, calls, published,
                   asyncVars>>

\* The next subscriber.  Whether a synchronous one fails only shows in the error that is
\* returned at the end; an asynchronous one takes the event if its queue has room; a queue
\* that is closed makes the publisher panic.
Notify(p) ==
    /\ at[p] = "tell" /\ sorted[p] # <<>>
    /\ LET s == Head(sorted[p]) IN
       /\ at' = [at EXCEPT ![p] = IF s \in Async /\ ctx[s] = "closed" THEN "panicked" ELSE @]
       /\ queue' = IF s \in Async /\ ctx[s] # "closed" /\ queue[s] < queueSize
                   THEN [queue EXCEPT ![s] = @ + 1] ELSE queue
    /\ sorted' = [sorted EXCEPT ![p] = Tail(@)]
    /\ UNCHANGED <<listVars, filters, priority, header, cursor, listed, disturbed, calls,
                   published, ctx, worker>>

Done(p) ==
    /\ at[p] = "tell" /\ sorted[p] = <<>> /\ Ended(p)
    /\ UNCHANGED <<listVars, filters, priority, sorted, cursor, calls, published, asyncVars>>

-----------------------------------------------------------------------------
\* The select of a worker: an event, the nil a closed queue gives, or the end.
Worker(s) ==
    /\ worker[s] = "waits"
    /\ \/ queue[s] > 0 /\ queue' = [queue EXCEPT ![s] = @ - 1] /\ UNCHANGED worker
       \/ queue[s] = 0 /\ ctx[s] = "closed" /\ UNCHANGED <<queue, worker>>
       \/ /\ ctx[s] # "live" /\ worker' = [worker EXCEPT ![s] = "gone"]
          /\ UNCHANGED queue
    /\ UNCHANGED <<listVars, filters, priority, pubVars, calls, published, ctx>>

\* Stop cancels, then closes the queue.
Stop(s) ==
    /\ \/ ctx[s] = "live" /\ ctx' = [ctx EXCEPT ![s] = "cancelled"]
       \/ ctx[s] = "cancelled" /\ ctx' = [ctx EXCEPT ![s] = "closed"]
    /\ UNCHANGED <<listVars, filters, priority, pubVars, calls, published, queue,
                   worker>>

Next ==
    \/ \E s \in Subscriber :
          Subscribe(s) \/ Unsubscribe(s) \/ \E l \in NewPriority : SetPriority(s, l)
    \/ Move \/ AddFilter \/ RemoveFilter
    \/ \E p \in Publisher :
          \/ Publish(p) \/ applyFilters(p) \/ Copy(p) \/ GetPriority(p)
          \/ sortSubscribersByPriority(p) \/ Notify(p) \/ Done(p)
    \/ \E s \in Async : Worker(s) \/ Stop(s)

Spec == Init /\ [][Next]_vars

-----------------------------------------------------------------------------
\* The type invariant of the bus.
TypeOK ==
    /\ slice.array \in 0 .. Len(arrays) /\ moving \in 0 .. slice.len
    /\ \A p \in Publisher : sorted[p] \in Seq(Subscriber)
    /\ DOMAIN priority = Subscriber /\ queue \in [Async -> 0 .. queueSize]

\* The bus's own list never holds a subscriber twice, although Subscribe and Unsubscribe
\* write to arrays that are in use.
ListedOnce == Unlocked => IsInjective(Elements(slice))

\* A Publish that no Unsubscribe overlaps is about to tell exactly the subscribers there
\* were when it began, each once, and if no priority changed while it sorted the higher
\* priority first.
UndisturbedIsComplete ==
    \A p \in Publisher :
        at[p] # "tell" /\ at'[p] = "tell" =>
            /\ "list" \notin disturbed[p] =>
                  /\ \A s \in Subscriber : Contains(sorted'[p], s) <=> Contains(listed[p], s)
                  /\ Len(sorted'[p]) = Len(listed[p])
            /\ "order" \notin disturbed[p] =>
                  \A i, j \in DOMAIN sorted'[p] :
                      i < j => priority[sorted'[p][i]] >= priority[sorted'[p][j]]

\* "通知所有订阅者": a Publish tells no subscriber twice, and each that stayed subscribed.
ToldOnce == \A p \in Publisher : at[p] = "tell" => IsInjective(sorted[p])
=============================================================================
