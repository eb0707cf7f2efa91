------------------------------ MODULE WebhookRetry ------------------------------
(***************************************************************************)
(* The life of one WebhookEvent row: provider callbacks, a resend of them,  *)
(* and overlapping runs of the retry job all try to process the event, each *)
(* in several statements.  A worker owns the event while the row is         *)
(* "retrying" with the retryCount the worker claimed; nothing else locks it.*)
(* The row is one variable per column; every write moves updatedAt, which   *)
(* version stands for.  Time is the two facts the queries ask for: the      *)
(* lease of the current claim is over, the next retry is due.               *)
(***************************************************************************)
EXTENDS Integers

CONSTANTS
    Callbacks,      \* requests of the provider that are handled at a time
    Jobs,           \* runs of the retry job that overlap
    MaxRetries,     \* WebhookEvent.maxRetries
    MaxDeliveries   \* bound: times the provider delivers the event

ASSUME RetryAssumption ==
    /\ Callbacks \cap Jobs = {}
    /\ MaxRetries \in Nat \ {0}
    /\ MaxDeliveries \in Nat

Workers == Callbacks \cup Jobs

VARIABLES
    status,         \* WebhookEvent.status, "none" before the row exists
    retryCount,     \* WebhookEvent.retryCount
    version,        \* WebhookEvent.updatedAt: the number of writes so far
    leaseOver,      \* updatedAt is older than the retry lease
    due,            \* nextRetryAt has passed
    unprovable,     \* a legacy paid event whose proof was not stored; never written
    at,             \* where each worker stands
    seen,           \* the row as each worker read it last
    claimed,        \* the retryCount each worker claimed the event with
    deliveries,     \* callbacks that have arrived
    claims,         \* history: attempts that were started
    effects         \* history: times the payment effects were committed

row == <<status, retryCount, version, leaseOver, due, unprovable>>
vars == <<row, at, seen, claimed, deliveries, claims, effects>>

Final == {"processed", "exhausted", "needs_manual_reconciliation"}
Statuses == {"none", "received", "retrying", "failed"} \cup Final
Rows == [status : Statuses, count : 0..MaxRetries, version : Nat]

-----------------------------------------------------------------------------
Snapshot == [status |-> status, count |-> retryCount, version |-> version]

(* One UPDATE of the row; isDue is whether it leaves nextRetryAt in the past.*)
Write(newStatus, newCount, isDue) ==
    /\ status' = newStatus
    /\ retryCount' = newCount
    /\ version' = version + 1
    /\ leaseOver' = FALSE
    /\ due' = isDue
    /\ UNCHANGED unprovable

(* Faulty: allows one retry more.                                            *)
SpentLate(count) == count > MaxRetries

Spent(count) == count >= MaxRetries

(* Faulty: a retry reuses the count of the attempt before it.                *)
SameCount(count, isRetry) == count

ClaimCount(count, isRetry) == IF isRetry THEN count + 1 ELSE count

(* Faulty: whoever finishes may write.                                       *)
AnyoneOwns(w) == TRUE

(* The WHERE clause of every write that ends an attempt.                     *)
Owns(w) == status = "retrying" /\ retryCount = claimed[w]

(* The WHERE clause of the job: the row is as it was read.                   *)
Unchanged(w, expected) ==
    /\ status = expected
    /\ retryCount = seen[w].count
    /\ version = seen[w].version

Go(w, place) == at' = [at EXCEPT ![w] = place]

Init ==
    /\ status = "none"
    /\ retryCount = 0
    /\ version = 0
    /\ leaseOver = FALSE
    /\ due = FALSE
    /\ unprovable \in BOOLEAN
    /\ at = [w \in Workers |-> "idle"]
    /\ seen = [w \in Workers |-> Snapshot]
    /\ claimed = [w \in Workers |-> 0]
    /\ deliveries = 0
    /\ claims = 0
    /\ effects = 0

-----------------------------------------------------------------------------
(* A callback of the provider (POST of api/webhooks/payments).               *)

(* The event is found, or created under its unique key.                      *)
CallbackArrives(w) ==
    /\ at[w] = "idle"
    /\ deliveries < MaxDeliveries
    /\ deliveries' = deliveries + 1
    /\ IF status = "none"
       THEN Write("received", 0, FALSE)
       ELSE UNCHANGED row
    /\ seen' = [seen EXCEPT ![w] = Snapshot']
    /\ Go(w, "claim")
    /\ UNCHANGED <<claimed, claims, effects>>

(* claimWebhookEvent: compares status and count, not updatedAt and not       *)
(* nextRetryAt.  A processed, owned or spent event is answered and left.     *)
CallbackClaims(w) ==
    LET isRetry == seen[w].status = "failed"
        count == ClaimCount(seen[w].count, isRetry)
        wins == /\ seen[w].status = "received" \/ (isRetry /\ ~Spent(seen[w].count))
                /\ status = seen[w].status
                /\ retryCount = seen[w].count
    IN
    /\ at[w] = "claim"
    /\ \/ /\ wins
          /\ Write("retrying", count, FALSE)
          /\ claimed' = [claimed EXCEPT ![w] = count]
          /\ claims' = claims + 1
          /\ Go(w, "working")
       \/ /\ ~wins
          /\ Go(w, "idle")
          /\ UNCHANGED <<row, claimed, claims>>
    /\ UNCHANGED <<seen, deliveries, effects>>

-----------------------------------------------------------------------------
(* A run of the retry job (processDueWebhookRetries).                        *)

(* Faulty: nobody looks for claims whose owner is gone.                      *)
JobScansFailedOnly(w) ==
    /\ at[w] = "idle"
    /\ status = "failed" /\ due
    /\ Go(w, "reread")
    /\ seen' = [seen EXCEPT ![w] = Snapshot]
    /\ UNCHANGED <<row, claimed, deliveries, claims, effects>>

(* The two queries: claims whose lease is over, and failed events that are   *)
(* due.                                                                      *)
JobScans(w) ==
    /\ at[w] = "idle"
    /\ \/ status = "retrying" /\ leaseOver /\ Go(w, "recover")
       \/ status = "failed" /\ due /\ Go(w, "reread")
    /\ seen' = [seen EXCEPT ![w] = Snapshot]
    /\ UNCHANGED <<row, claimed, deliveries, claims, effects>>

(* recoverStaleWebhookRetryClaim, up to its call of retryWebhookEvent.       *)
JobRecovers(w) ==
    /\ at[w] = "recover"
    /\ \/ /\ Unchanged(w, "retrying") /\ Spent(seen[w].count)
          /\ Write("exhausted", retryCount, FALSE)
          /\ Go(w, "idle")
       \/ /\ Unchanged(w, "retrying") /\ ~Spent(seen[w].count)
          /\ Write("failed", retryCount, TRUE)
          /\ Go(w, "reread")
       \/ /\ ~Unchanged(w, "retrying")
          /\ Go(w, "idle")
          /\ UNCHANGED row
    /\ UNCHANGED <<seen, claimed, deliveries, claims, effects>>

(* retryWebhookEvent reads the row again and does not ask whether it is due. *)
JobReads(w) ==
    /\ at[w] = "reread"
    /\ seen' = [seen EXCEPT ![w] = Snapshot]
    /\ Go(w, "retry")
    /\ UNCHANGED <<row, claimed, deliveries, claims, effects>>

(* ... and sets it aside, gives it up or claims it.                          *)
JobRetries(w) ==
    /\ at[w] = "retry"
    /\ \/ /\ Unchanged(w, "failed") /\ unprovable
          /\ Write("needs_manual_reconciliation", retryCount, FALSE)
          /\ Go(w, "idle")
          /\ UNCHANGED <<claimed, claims>>
       \/ /\ Unchanged(w, "failed") /\ ~unprovable /\ Spent(seen[w].count)
          /\ Write("exhausted", retryCount, FALSE)
          /\ Go(w, "idle")
          /\ UNCHANGED <<claimed, claims>>
       \/ /\ Unchanged(w, "failed") /\ ~unprovable /\ ~Spent(seen[w].count)
          /\ Write("retrying", ClaimCount(retryCount, TRUE), FALSE)
          /\ claimed' = [claimed EXCEPT ![w] = ClaimCount(retryCount, TRUE)]
          /\ claims' = claims + 1
          /\ Go(w, "working")
       \/ /\ ~Unchanged(w, "failed")
          /\ Go(w, "idle")
          /\ UNCHANGED <<row, claimed, claims>>
    /\ UNCHANGED <<seen, deliveries, effects>>

-----------------------------------------------------------------------------
(* The attempt itself, the same for both kinds of worker.                    *)

(* processPaymentWebhookOnce: the payment effects and the final status are   *)
(* one transaction, which aborts when the claim is gone.                     *)
Commits(w) ==
    /\ at[w] = "working"
    /\ Owns(w)
    /\ Write("processed", retryCount, FALSE)
    /\ effects' = effects + 1
    /\ Go(w, "committed")
    /\ UNCHANGED <<seen, claimed, deliveries, claims>>

(* The transaction aborts, or a statement after a commit throws.             *)
AttemptThrows(w) ==
    /\ at[w] \in {"working", "committed"}
    /\ Go(w, "failing")
    /\ UNCHANGED <<row, seen, claimed, deliveries, claims, effects>>

(* A retry clears the error columns of the processed event once more.        *)
AttemptReturns(w) ==
    /\ at[w] = "committed"
    /\ IF w \in Jobs /\ status = "processed" /\ retryCount = claimed[w]
       THEN Write("processed", retryCount, FALSE)
       ELSE UNCHANGED row
    /\ Go(w, "idle")
    /\ UNCHANGED <<seen, claimed, deliveries, claims, effects>>

(* A first attempt counts when it fails, a retry counted when it was claimed.*)
RecordsFailure(w) ==
    /\ at[w] = "failing"
    /\ \/ /\ Owns(w) /\ w \in Callbacks
          /\ Write("failed", IF seen[w].status = "failed" THEN retryCount ELSE retryCount + 1, FALSE)
       \/ /\ Owns(w) /\ w \in Jobs
          /\ Write(IF Spent(claimed[w]) THEN "exhausted" ELSE "failed", retryCount, FALSE)
       \/ /\ ~Owns(w)
          /\ UNCHANGED row
    /\ Go(w, "idle")
    /\ UNCHANGED <<seen, claimed, deliveries, claims, effects>>

(* The process of the worker ends: a crash, or the limit of the platform.    *)
Dies(w) ==
    /\ at[w] \in {"working", "failing", "committed"}
    /\ Go(w, "idle")
    /\ UNCHANGED <<row, seen, claimed, deliveries, claims, effects>>

-----------------------------------------------------------------------------
(* Time.                                                                     *)

LeaseEnds ==
    /\ status = "retrying" /\ ~leaseOver
    /\ leaseOver' = TRUE
    /\ UNCHANGED <<status, retryCount, version, due, unprovable, at, seen, claimed, deliveries, claims, effects>>

RetryFallsDue ==
    /\ status = "failed" /\ ~due
    /\ due' = TRUE
    /\ UNCHANGED <<status, retryCount, version, leaseOver, unprovable, at, seen, claimed, deliveries, claims, effects>>

-----------------------------------------------------------------------------
Next ==
    \/ \E w \in Callbacks : CallbackArrives(w) \/ CallbackClaims(w)
    \/ \E w \in Jobs : JobScans(w) \/ JobRecovers(w) \/ JobReads(w) \/ JobRetries(w)
    \/ \E w \in Workers :
          Commits(w) \/ AttemptThrows(w) \/ AttemptReturns(w) \/ RecordsFailure(w) \/ Dies(w)
    \/ LeaseEnds \/ RetryFallsDue

Spec == Init /\ [][Next]_vars

(* Time passes, the cron entry keeps starting the job and a started run      *)
(* reaches its statements, and the platform lets no attempt run for ever:    *)
(* it ends in some way, a crash included.  The provider owes no resend.      *)
Fairness ==
    /\ WF_vars(LeaseEnds) /\ WF_vars(RetryFallsDue)
    /\ \A w \in Jobs :
          /\ WF_vars(JobScans(w)) /\ WF_vars(JobRecovers(w))
          /\ WF_vars(JobReads(w)) /\ WF_vars(JobRetries(w))
    /\ \A w \in Workers :
          WF_vars(Commits(w) \/ AttemptThrows(w) \/ AttemptReturns(w) \/ RecordsFailure(w) \/ Dies(w))

FairSpec == Spec /\ Fairness

-----------------------------------------------------------------------------
Places == {"idle", "claim", "recover", "reread", "retry", "working", "committed", "failing"}

(* Every variable has its type; in particular no path counts past the limit. *)
TypeOK ==
    /\ status \in Statuses
    /\ retryCount \in 0..MaxRetries
    /\ version \in Nat
    /\ leaseOver \in BOOLEAN
    /\ due \in BOOLEAN
    /\ unprovable \in BOOLEAN
    /\ at \in [Workers -> Places]
    /\ seen \in [Workers -> Rows]
    /\ claimed \in [Workers -> 0..MaxRetries]
    /\ deliveries \in Nat
    /\ claims \in Nat
    /\ effects \in Nat

(* The payment effects of an event are committed at most once, and exactly   *)
(* when the row says so, although an attempt whose lease was taken away may  *)
(* still be running (payment-webhooks.ts:1285-1303).                         *)
AppliedOnce == effects = IF status = "processed" THEN 1 ELSE 0

(* (status, retryCount) is a token: no two running attempts ever hold the    *)
(* claim the row shows, so the writes that end an attempt need no other lock *)
(* (webhook-retry.ts:83-88).                                                 *)
Running == {"working", "failing"}

OneOwner ==
    \A v, w \in Workers :
        (at[v] \in Running /\ at[w] \in Running /\ Owns(v) /\ Owns(w)) => v = w

(* A poisoned event is attempted a bounded number of times, whichever mix of *)
(* callbacks, job runs, failures and expired leases drives it.               *)
AttemptsBounded == claims <= MaxRetries + 1

(* No late writer reopens an event that was settled, or moves its count.     *)
FinalKept ==
    [][(status \in Final) => (status' = status /\ retryCount' = retryCount)]_vars

(* An event that somebody has begun to process is settled in the end, even   *)
(* if every process that works on it dies (webhook-retry.ts:277-318).        *)
ClaimedEventSettles == status \in {"retrying", "failed"} ~> status \in Final
=============================================================================
