----------------------------- MODULE MCAccountEmail -----------------------------
(* Small instances of AccountEmail: one account, and a newcomer.             *)
EXTENDS AccountEmail, TLC

CONSTANTS owner, newcomer, a, b, r1, r2, r3

OneAccount == (owner :> a) @@ (newcomer :> NoAccount)

(* Every request is the account's; the newcomer takes what is free.          *)
OnesOwn == [r \in Requests |-> owner]

Symmetry == Permutations(Requests)
=============================================================================
