----------------------------- MODULE MCPayUniRefund -----------------------------
(* Small instances of PayUniRefund: two requests and a refund made outside.  *)
EXTENDS PayUniRefund, TLC

CONSTANTS r1, r2, x, o1, o2

OneEach == [y \in Refunds |-> 1]

(* The refund made outside is worth the two others.                          *)
OutsideTwice == [y \in Refunds |-> IF y \in Outside THEN 2 ELSE 1]

Symmetry == Permutations({o1, o2})
=============================================================================
