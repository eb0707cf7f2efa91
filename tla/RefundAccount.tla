------------------------------ MODULE RefundAccount ------------------------------
(***************************************************************************)
(* What the requests, late answers, reconciliations, releases and notices of *)
(* one paid trade promise together about its amounts: a refund is reserved   *)
(* before it is booked, one at a time, and what is reserved or booked fits   *)
(* into the trade; a reservation is booked once, whole, or given up; and     *)
(* what is booked or given up is settled.                                    *)
(***************************************************************************)
EXTENDS Integers

CONSTANTS Requests, Refunds, Amount, Gross

VARIABLES
    row,        \* the refund row of each request
    noticed,    \* refunds booked by a notice
    booked      \* what the trade says is refunded

vars == <<row, noticed, booked>>

Init ==
    /\ row = [r \in Requests |-> "none"]
    /\ noticed = {}
    /\ booked = 0

NothingReserved == \A r \in Requests : row[r] # "pending"

Fits(x) == booked + Amount[x] <= Gross

Reserve(r) ==
    /\ row[r] = "none" /\ NothingReserved /\ Fits(r)
    /\ row' = [row EXCEPT ![r] = "pending"]
    /\ UNCHANGED <<noticed, booked>>

Settle(r) ==
    /\ row[r] = "pending"
    /\ row' = [row EXCEPT ![r] = "processed"]
    /\ booked' = booked + Amount[r]
    /\ UNCHANGED noticed

GiveUp(r) ==
    /\ row[r] = "pending"
    /\ row' = [row EXCEPT ![r] = "failed"]
    /\ UNCHANGED <<noticed, booked>>

Notice(x) ==
    /\ x \notin noticed /\ NothingReserved /\ Fits(x)
    /\ noticed' = noticed \cup {x}
    /\ booked' = booked + Amount[x]
    /\ UNCHANGED row

Next ==
    \/ \E r \in Requests : Reserve(r) \/ Settle(r) \/ GiveUp(r)
    \/ \E x \in Refunds : Notice(x)

Spec == Init /\ [][Next]_vars
=============================================================================
