--------------------------- MODULE RequestMerger ---------------------------
(***************************************************************************)
(* RequestMerger of the performance package: callers of Submit put         *)
(* requests on a channel of twice the batch size, one goroutine collects   *)
(* them and has a batch merged when it is full or when its ticker fires,   *)
(* and answers each caller on a channel of its own.                        *)
(*                                                                         *)
(* The Merger is external: it fails, or it answers some of the keys.  Time *)
(* is left out: the ticker may fire, and a context may end, at any moment. *)
(***************************************************************************)
EXTENDS Integers, Sequences, FiniteSets

CONSTANTS
    Request,   \* calls of Submit
    KeyOf,     \* the key of each
    BatchSize,
    Nil,       \* what a closed channel yields
    MaxCloses  \* bound on the calls of Close

VARIABLES
    pc,       \* a call of Submit: "idle", "send", "wait" or "done"
    requests, \* the channel rm.requests
    closed,   \* rm.closed; the channel is closed under the same lock
    closes,
    proc,     \* processRequests: "select", "merge" or "answer"
    batch,
    next,     \* the request of the batch to be answered next
    found,    \* the keys Merge answered
    response, \* the buffer of each response channel
    answered, \* the requests processBatch has answered
    panic     \* why the program died; "none" while it runs

processVars == <<requests, proc, batch, next, found, response, answered>>
vars == <<pc, closed, closes, processVars, panic>>

Init ==
    /\ pc = [r \in Request |-> "idle"]
    /\ requests = <<>> /\ closed = FALSE /\ closes = 0
    /\ proc = "select" /\ batch = <<>> /\ next = 1 /\ found = {}
    /\ response = [r \in Request |-> <<>>]
    /\ answered = {}
    /\ panic = "none"

-----------------------------------------------------------------------------
(***************************************************************************)
(* Submit.  The lock is held for the check of closed only.                 *)
(***************************************************************************)
CheckClosed(r) ==
    /\ pc[r] = "idle"
    /\ pc' = [pc EXCEPT ![r] = IF closed THEN "done" ELSE "send"]
    /\ UNCHANGED <<closed, closes, processVars, panic>>

\* Sending on a closed channel panics, also for a caller that waited for room.
Send(r) ==
    /\ pc[r] = "send"
    /\ \/ /\ closed /\ panic' = "send"
          /\ UNCHANGED <<pc, requests>>
       \/ /\ ~closed /\ Len(requests) < 2 * BatchSize
          /\ requests' = Append(requests, r)
          /\ pc' = [pc EXCEPT ![r] = "wait"]
          /\ UNCHANGED panic
    /\ UNCHANGED <<closed, closes, proc, batch, next, found, response, answered>>

Receive(r) ==
    /\ pc[r] = "wait" /\ response[r] # <<>>
    /\ response' = [response EXCEPT ![r] = <<>>]
    /\ pc' = [pc EXCEPT ![r] = "done"]
    /\ UNCHANGED <<closed, closes, requests, proc, batch, next, found, answered, panic>>

\* The caller's context ends.
Cancelled(r) ==
    /\ pc[r] \in {"send", "wait"}
    /\ pc' = [pc EXCEPT ![r] = "done"]
    /\ UNCHANGED <<closed, closes, processVars, panic>>

\* Closing a closed channel panics.
Close ==
    /\ closes < MaxCloses
    /\ closes' = closes + 1
    /\ closed' = TRUE
    /\ panic' = IF closed THEN "close" ELSE "none"
    /\ UNCHANGED <<pc, processVars>>

-----------------------------------------------------------------------------
(***************************************************************************)
(* processRequests and processBatch.                                       *)
(***************************************************************************)
Full(b) == Len(b) >= BatchSize

\* A closed channel that is empty is always ready, with nil.
Collect ==
    /\ proc = "select"
    /\ requests # <<>> \/ closed
    /\ batch' = Append(batch, IF requests = <<>> THEN Nil ELSE Head(requests))
    /\ requests' = IF requests = <<>> THEN <<>> ELSE Tail(requests)
    /\ proc' = IF Full(batch') THEN "merge" ELSE "select"
    /\ UNCHANGED <<pc, closed, closes, next, found, response, answered, panic>>

\* Mutant: the ticker is looked at only when the batch is full.
FlushesFull == Full(batch)

Flushes == batch # <<>>

Tick ==
    /\ proc = "select" /\ Flushes
    /\ proc' = "merge"
    /\ UNCHANGED <<pc, requests, closed, closes, batch, next, found, response, answered, panic>>

\* The merger is called; an error is answered to the whole batch.
Merge ==
    /\ proc = "merge"
    /\ \/ \E f \in SUBSET {KeyOf[r] : r \in {batch[i] : i \in DOMAIN batch} \ {Nil}} : found' = f
       \/ found' = {"failed"}
    /\ proc' = "answer" /\ next' = 1
    /\ UNCHANGED <<pc, requests, closed, closes, batch, response, answered, panic>>

AnswerOf(r) ==
    IF found = {"failed"} THEN "failed" ELSE IF KeyOf[r] \in found THEN KeyOf[r] ELSE "missing"

\* Mutant: the batch is kept.
RestOfBatchAll == batch

\* batch = nil.
RestOfBatch == <<>>

\* One turn of the loop over the batch: a full buffer is passed over; nil is
\* dereferenced.
Respond ==
    LET r == batch[next]
        last == next = Len(batch)
    IN  /\ proc = "answer"
        /\ \/ /\ r = Nil /\ panic' = "nil"
              /\ UNCHANGED <<proc, batch, next, found, response, answered>>
           \/ /\ r # Nil
              /\ response' = IF response[r] = <<>>
                             THEN [response EXCEPT ![r] = <<AnswerOf(r)>>] ELSE response
              /\ answered' = answered \cup {r}
              /\ IF last
                 THEN proc' = "select" /\ batch' = RestOfBatch /\ next' = 1 /\ found' = {}
                 ELSE next' = next + 1 /\ UNCHANGED <<proc, batch, found>>
              /\ UNCHANGED panic
        /\ UNCHANGED <<pc, requests, closed, closes>>

Process == Collect \/ Tick \/ Merge \/ Respond

Next ==
    /\ panic = "none"
    /\ \/ \E r \in Request : CheckClosed(r) \/ Send(r) \/ Receive(r) \/ Cancelled(r)
       \/ Close \/ Process

Spec == Init /\ [][Next]_vars

-----------------------------------------------------------------------------
(***************************************************************************)
(* Properties.                                                             *)
(***************************************************************************)
\* The places of r: in the channel, in the part of the batch that is not
\* answered yet, or answered.
Places(r) ==
    {<<"queued", i>> : i \in {j \in DOMAIN requests : requests[j] = r}}
        \cup {<<"batch", i>> : i \in {j \in DOMAIN batch : batch[j] = r /\ j >= next}}
        \cup {<<"answered", 1>> : s \in answered \cap {r}}

\* A request is never lost, merged twice or answered twice, whether its caller is
\* still there or not: one that Submit has sent is in one place, and one it has not
\* sent is in none.  A caller that waits for its answer finds it in the buffer.
OnePlace ==
    \A r \in Request :
        /\ Cardinality(Places(r)) <= 1
        /\ pc[r] = "wait" => Cardinality(Places(r)) = 1
        /\ pc[r] = "wait" /\ r \in answered => response[r] # <<>>
        /\ pc[r] \in {"idle", "send"} => Places(r) = {}

\* A request that was sent is answered, also one that does not fill a batch, while
\* the merger is not closed.
Sent(r) == pc[r] = "wait"
Answered(r) == pc[r] = "done" \/ closed
SentIsAnswered == \A r \in Request : Sent(r) ~> Answered(r)

\* A caller of Submit on a merger that was closed is told so, with an error.
ClosedIsAnError == panic # "send"

\* Close ends the merger and nothing else.
CloseIsClean == panic # "nil"
=============================================================================
