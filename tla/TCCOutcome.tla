----------------------------- MODULE TCCOutcome -----------------------------
(***************************************************************************)
(* What the TCC transaction manager keeps of the try-confirm-cancel        *)
(* contract, seen from outside: components accept, confirm and cancel, and *)
(* the log records an outcome.  A Confirm, and a recorded success, need    *)
(* the acceptance of every component.  Nothing of the kind is promised for *)
(* Cancel or for a recorded failure: the log may overwrite one outcome by  *)
(* another, and a transaction may be both confirmed and cancelled (the run *)
(* of TXManager on AllOrNothing shows how).                                *)
(***************************************************************************)
CONSTANT Component

VARIABLES
    status,     \* the outcome in the log
    acked,      \* components that accepted
    confirmed,  \* components that confirmed
    cancelled   \* components that cancelled

vars == <<status, acked, confirmed, cancelled>>

Init == status = "none" /\ acked = {} /\ confirmed = {} /\ cancelled = {}

Begin ==
    /\ status = "none"
    /\ status' = "hanging"
    /\ UNCHANGED <<acked, confirmed, cancelled>>

Accept(c) ==
    /\ status # "none"
    /\ acked' = acked \cup {c}
    /\ UNCHANGED <<status, confirmed, cancelled>>

Confirm(c) ==
    /\ acked = Component
    /\ confirmed' = confirmed \cup {c}
    /\ UNCHANGED <<status, acked, cancelled>>

Cancel(c) ==
    /\ status # "none"
    /\ cancelled' = cancelled \cup {c}
    /\ UNCHANGED <<status, acked, confirmed>>

Settle(s) ==
    /\ status # "none"
    /\ s = "successful" => acked = Component
    /\ status' = s
    /\ UNCHANGED <<acked, confirmed, cancelled>>

Next ==
    \/ Begin
    \/ \E c \in Component : Accept(c) \/ Confirm(c) \/ Cancel(c)
    \/ \E s \in {"successful", "failure"} : Settle(s)

Spec == Init /\ [][Next]_vars
=============================================================================
