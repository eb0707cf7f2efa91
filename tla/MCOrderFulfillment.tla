--------------------------- MODULE MCOrderFulfillment ---------------------------
(***************************************************************************)
(* Instances of OrderFulfillment for TLC.                                   *)
(***************************************************************************)
EXTENDS OrderFulfillment, TLC

CONSTANTS o1, o2, o3, a1, a2, a3, g1, s1, x1, x2, m1

(* One order with an item of each kind and three entitlements, which a batch *)
(* of two splits.                                                            *)
OneOrder == [i \in Items |-> o1]

(* Orders of one item each, so that each may be the upgrade of another.      *)
OneItemEach == (a1 :> o1) @@ (g1 :> o2) @@ (a2 :> o3)
=============================================================================
