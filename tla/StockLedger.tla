------------------------------- MODULE StockLedger -------------------------------
(***************************************************************************)
(* What the checkout, its callbacks, its refunds and its expiry job promise *)
(* together about stock: every sale of a payment is one deal, the units of  *)
(* a deal move as a whole, and a deal that was sold ends only in a refund.  *)
(***************************************************************************)
EXTENDS Integers

CONSTANTS Payments, Products, Cart, InitialStock

VARIABLES
    shelf,      \* units of each product that can be bought
    deal,       \* the deal of each payment
    supply      \* units put on sale, the held and sold ones included

vars == <<shelf, deal, supply>>

Deals == {"none", "held", "sold", "refunded"}

Init ==
    /\ shelf = InitialStock
    /\ deal = [p \in Payments |-> "none"]
    /\ supply = InitialStock

Take(items) ==
    /\ \A x \in items : shelf[x] >= 1
    /\ shelf' = [x \in Products |-> IF x \in items THEN shelf[x] - 1 ELSE shelf[x]]

PutBack(items) ==
    shelf' = [x \in Products |-> IF x \in items THEN shelf[x] + 1 ELSE shelf[x]]

Hold(p) ==
    /\ deal[p] = "none"
    /\ Take(Cart[p])
    /\ deal' = [deal EXCEPT ![p] = "held"]
    /\ UNCHANGED supply

Release(p) ==
    /\ deal[p] = "held"
    /\ PutBack(Cart[p])
    /\ deal' = [deal EXCEPT ![p] = "none"]
    /\ UNCHANGED supply

(* A deal is sold from its hold or, when the hold is gone, from the shelf.   *)
Sell(p) ==
    /\ \/ deal[p] = "held" /\ UNCHANGED shelf
       \/ deal[p] = "none" /\ Take(Cart[p])
    /\ deal' = [deal EXCEPT ![p] = "sold"]
    /\ UNCHANGED supply

Refund(p) ==
    /\ deal[p] = "sold"
    /\ PutBack(Cart[p])
    /\ deal' = [deal EXCEPT ![p] = "refunded"]
    /\ UNCHANGED supply

(* The merchant sets the shelf of a product; deals are not touched, and what *)
(* was put on sale changes by exactly what appears on or leaves the shelf.   *)
Restock(x) ==
    /\ shelf'[x] \in Nat
    /\ shelf' = [shelf EXCEPT ![x] = shelf'[x]]
    /\ supply' = [supply EXCEPT ![x] = @ + (shelf'[x] - shelf[x])]
    /\ UNCHANGED deal

Next ==
    \/ \E p \in Payments : Hold(p) \/ Release(p) \/ Sell(p) \/ Refund(p)
    \/ \E x \in Products : Restock(x)

Spec == Init /\ [][Next]_vars
=============================================================================
