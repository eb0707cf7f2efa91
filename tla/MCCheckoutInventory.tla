-------------------------- MODULE MCCheckoutInventory --------------------------
(* A small instance of CheckoutInventory: which products each payment takes. *)
EXTENDS CheckoutInventory, TLC

CONSTANTS p1, p2, a, b

(* One order takes a and its order bump b, the other takes the last b.       *)
SharedCart == (p1 :> {a, b}) @@ (p2 :> {b})
OneOfEach == (a :> 1) @@ (b :> 1)
=============================================================================
