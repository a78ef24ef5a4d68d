--------------------------- MODULE BatchProcessor ---------------------------
(***************************************************************************)
(* BatchProcessor of the performance package: Add puts an item on a        *)
(* channel of twice the batch size or refuses it, and one goroutine hands  *)
(* the items to the processor when a batch is full or its ticker fires.    *)
(* The processor is external; its error is dropped, so its answer is left  *)
(* out.  Each item is added once.                                          *)
(***************************************************************************)
EXTENDS Naturals, Sequences

CONSTANTS
    Item,
    BatchSize,
    Nil,     \* what a closed channel yields
    MaxNil   \* bound on the nils received

VARIABLES
    pc,       \* Add of each item: "idle", "put", or what it came to
    items,    \* the channel bp.items
    closed,   \* bp.closed; the channel is closed under the same lock
    batch,
    handed,   \* all the processor was handed, in order
    accepted, \* the items Add accepted, in order
    nils, panic

vars == <<pc, items, closed, batch, handed, accepted, nils, panic>>

Init ==
    /\ pc = [i \in Item |-> "idle"]
    /\ items = <<>> /\ closed = FALSE /\ batch = <<>> /\ handed = <<>> /\ accepted = <<>>
    /\ nils = 0 /\ panic = FALSE

\* Add holds the lock for this check only.
CheckClosed(i) ==
    /\ pc[i] = "idle"
    /\ pc' = [pc EXCEPT ![i] = IF closed THEN "closed" ELSE "put"]
    /\ UNCHANGED <<items, closed, batch, handed, accepted, nils, panic>>

Put(i) ==
    /\ pc[i] = "put"
    /\ \/ /\ closed /\ panic' = TRUE
          /\ UNCHANGED <<pc, items, accepted>>
       \/ /\ ~closed /\ Len(items) < 2 * BatchSize
          /\ items' = Append(items, i) /\ accepted' = Append(accepted, i)
          /\ pc' = [pc EXCEPT ![i] = "accepted"]
          /\ UNCHANGED panic
       \/ /\ ~closed /\ Len(items) >= 2 * BatchSize
          /\ pc' = [pc EXCEPT ![i] = "full"]
          /\ UNCHANGED <<items, accepted, panic>>
    /\ UNCHANGED <<closed, batch, handed, nils>>

\* A second call panics.
Close ==
    /\ closed' = TRUE
    /\ panic' = closed
    /\ UNCHANGED <<pc, items, batch, handed, accepted, nils>>

\* Mutant: a batch that is handed over is not started anew.
HandOverKeeps(b) == handed' = handed \o b /\ batch' = b

\* processBatch, and batch = nil.
HandOver(b) == handed' = handed \o b /\ batch' = <<>>

\* The next item: nil for ever from a closed channel that is empty.
Receive ==
    /\ \/ /\ items # <<>> /\ items' = Tail(items) /\ UNCHANGED nils
       \/ /\ items = <<>> /\ closed /\ nils < MaxNil
          /\ nils' = nils + 1 /\ UNCHANGED items
    /\ LET b == Append(batch, IF items = <<>> THEN Nil ELSE Head(items))
       IN  IF Len(b) >= BatchSize THEN HandOver(b) ELSE batch' = b /\ UNCHANGED handed
    /\ UNCHANGED <<pc, closed, accepted, panic>>

Tick ==
    /\ batch # <<>> /\ HandOver(batch)
    /\ UNCHANGED <<pc, items, closed, accepted, nils, panic>>

Next ==
    /\ ~panic
    /\ (\E i \in Item : CheckClosed(i) \/ Put(i)) \/ Close \/ Receive \/ Tick

Spec == Init /\ [][Next]_vars

-----------------------------------------------------------------------------
\* The processor is handed what was accepted, once each and in the order in which
\* Add accepted it, and what is not handed over yet waits in that order; the nils
\* of a closed channel come after all of it.
HandedInOrder ==
    \E n \in 0 .. nils : handed \o batch \o items = accepted \o [i \in 1 .. n |-> Nil]
=============================================================================
