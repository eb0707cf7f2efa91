----------------------------- MODULE OrderFulfillment -----------------------------
(***************************************************************************)
(* What the buyers of one vendor get: entitlements of digital goods and      *)
(* courses, shipments and services, against payment, refund, the forms of    *)
(* merchants, the suspension of the vendor, and the upgrades that turn a paid *)
(* order into the credit of another one.  A paid callback and a refund       *)
(* are Serializable transactions, and so is what a merchant's form commits;  *)
(* the database triggers on credits run inside them;                         *)
(* the release of held entitlements runs at read committed, so that its two  *)
(* statements are two actions, between which the other transactions run.     *)
(***************************************************************************)
EXTENDS Integers, FiniteSets

CONSTANTS
    Orders,
    NoOrder,        \* no order: what the source of an ordinary order is
    Access,         \* order items that are digital goods or courses
    Goods,          \* order items that are shipped
    Services,       \* order items that are services
    OrderOf,        \* the order of each item
    Admins,         \* release runs of platform administrators at a time
    Merchants,      \* forms of merchants open at a time
    BatchSize,      \* RELEASE_BATCH_SIZE
    MaxSuspensions, \* bound: how often the vendor is suspended
    MaxRevision     \* bound on the revision up to which services are moved

Items == Access \cup Goods \cup Services

ASSUME FulfillmentAssumption ==
    /\ IsFiniteSet(Access)
    /\ Access \cap Goods = {} /\ Access \cap Services = {} /\ Goods \cap Services = {}
    /\ OrderOf \in [Items -> Orders] /\ NoOrder \notin Orders
    /\ BatchSize \in Nat \ {0}
    /\ MaxSuspensions \in Nat /\ MaxRevision \in Nat

VARIABLES
    order,          \* CommerceOrder.status; "ended" is payment_failed or expired
    status,         \* status of each item's entitlement, shipment or service
    revision,       \* its revision
    source,         \* PostPurchaseCredit.sourceOrderId of the credit each order received
    marks,          \* which of its releasedAt, invalidatedAt and supersededAt are set
    suspended,      \* Vendor.suspendedAt is set
    lifts,          \* suspensions that were lifted so far
    release,        \* each run of releaseHeldEntitlements
    owed,           \* history: a suspension was lifted, no release completed since
    form            \* each merchant's form: the row it shows

rows == <<order, status, revision>>
credits == <<source, marks>>
vendor == <<suspended, lifts>>
vars == <<rows, credits, vendor, release, owed, form>>

NoRun == [at |-> "idle", batch |-> {}]
NoForm == [at |-> "idle", item |-> "none", revision |-> 0, saw |-> "none"]

ItemsOf(o) == {i \in Items : OrderOf[i] = o}
Paid(o) == order[o] \in {"paid", "partially_refunded"}

Unpaid == {"none", "pending_payment", "ended"}

(* Faulty: asks only for the order, so that granted rows are found again.    *)
HeldOrGranted == {i \in Access : status[i] \in {"pending", "granted"} /\ Paid(OrderOf[i])}

(* What a release would grant.                                               *)
Held == {i \in Access : status[i] = "pending" /\ Paid(OrderOf[i])}

Init ==
    /\ order = [o \in Orders |-> "none"]
    /\ status = [i \in Items |-> "pending"]
    /\ revision = [i \in Items |-> 1]
    /\ source = [o \in Orders |-> NoOrder]
    /\ marks = [o \in Orders |-> {}]
    /\ suspended = FALSE
    /\ lifts = 0
    /\ release = [a \in Admins |-> NoRun]
    /\ owed = FALSE
    /\ form = [m \in Merchants |-> NoForm]

(* Faulty: the status of some rows changes and their revision does not.      *)
MoveQuietly(items, to) ==
    /\ status' = [i \in Items |-> IF i \in items THEN to[i] ELSE status[i]]
    /\ revision' = revision

(* An updateMany: the rows get a status and a new revision.                  *)
Move(items, to) ==
    /\ status' = [i \in Items |-> IF i \in items THEN to[i] ELSE status[i]]
    /\ revision' = [i \in Items |-> IF i \in items THEN revision[i] + 1 ELSE revision[i]]

All(next) == [i \in Items |-> next]

Grant(items) == Move({i \in items : status[i] = "pending"}, All("granted"))

-----------------------------------------------------------------------------
(* Checkout.  An order of one item, paid and not shipped, can be the credit  *)
(* of an upgrade: the order of the upgrade is created together with it.      *)

Checkout(o) ==
    /\ order[o] = "none"
    /\ order' = [order EXCEPT ![o] = "pending_payment"]
    /\ UNCHANGED <<status, revision, credits, vendor, release, owed, form>>

Sent(o) == \E i \in ItemsOf(o) : status[i] \in {"shipped", "refund_review", "delivered", "returned"}

OneItem(o) == \E i \in Items : ItemsOf(o) = {i}

(* validate_post_purchase_credit, and the unique key of unreleased credits.  *)
(* The window of 24 hours may close at any time.                             *)
Creditable(s) ==
    /\ order[s] = "paid" /\ OneItem(s) /\ ~Sent(s)
    /\ source[s] = NoOrder
    /\ \A t \in Orders : source[t] = s => "released" \in marks[t]

Upgrade(t, s) ==
    /\ order[t] = "none" /\ OneItem(t)
    /\ Creditable(s)
    /\ order' = [order EXCEPT ![t] = "pending_payment"]
    /\ source' = [source EXCEPT ![t] = s]
    /\ UNCHANGED <<status, revision, marks, vendor, release, owed, form>>

Bound(t) == source[t] # NoOrder /\ marks[t] = {}

-----------------------------------------------------------------------------
(* What a refund, and a trigger of the credits, withdraws.                   *)

(* Faulty: everything that is not over is cancelled.                         *)
CancelledByRefund(i) ==
    IF status[i] \in {"pending", "granted", "packing", "shipped", "scheduled"}
    THEN "cancelled" ELSE status[i]

(* convergeFullRefundFulfillment                                             *)
AfterRefund(i) ==
    CASE i \in Access /\ status[i] \in {"pending", "granted"} -> "revoked"
      [] i \in Goods /\ status[i] \in {"pending", "packing"} -> "cancelled"
      [] i \in Goods /\ status[i] = "shipped" -> "refund_review"
      [] i \in Services /\ status[i] \in {"pending", "scheduled"} -> "cancelled"
      [] OTHER -> status[i]

(* revoke_post_purchase_order does the same to the rows of an order.         *)
Withdraw(orders) ==
    Move({i \in Items : OrderOf[i] \in orders /\ AfterRefund(i) # status[i]},
         [i \in Items |-> AfterRefund(i)])

(* releasePostPurchaseCreditForTerminalPayment and the trigger on releasedAt.*)
GiveBack(t) ==
    /\ Bound(t)
    /\ marks' = [marks EXCEPT ![t] = {"released"}]
    /\ Withdraw({t})

-----------------------------------------------------------------------------
(* Payment and refund.                                                       *)

(* A failed callback or the expiry job ends an order unpaid and gives its    *)
(* credit back; a checkout that failed itself, and the local demo session,   *)
(* keep the credit for a recovery.                                           *)
EndUnpaid(o) ==
    /\ order[o] = "pending_payment"
    /\ order' = [order EXCEPT ![o] = "ended"]
    /\ \/ UNCHANGED <<status, revision, marks>>
       \/ GiveBack(o)
    /\ UNCHANGED <<source, vendor, release, owed, form>>

(* resumePostPurchaseCheckout                                                *)
Recover(t) ==
    /\ order[t] = "ended" /\ Bound(t)
    /\ order[source[t]] = "paid" /\ ~Sent(source[t])
    /\ order' = [order EXCEPT ![t] = "pending_payment"]
    /\ UNCHANGED <<status, revision, credits, vendor, release, owed, form>>

(* ... or its refusal: the source was shipped, or its window is over.        *)
Lapse(t) ==
    /\ order[t] = "ended"
    /\ GiveBack(t)
    /\ UNCHANGED <<order, source, vendor, release, owed, form>>

(* Faulty: a suspension does not hold anything back.                         *)
NeverHeld == FALSE

(* vendorFulfillmentHeld                                                     *)
FulfillmentHeld == suspended

(* settle_paid_post_purchase_target: the first payment of an upgrade uses up *)
(* its credit, unless the credit was given back or refunded before.          *)
Settles(o) == order[o] \in Unpaid /\ Bound(o)

(* Faulty: the buyer of an upgrade keeps the order it replaces.              *)
NothingReplaced(o) == {}

(* What the upgrade replaces; goods on their way stay as they are.           *)
Replaced(o) ==
    {i \in Items : /\ Settles(o) /\ OrderOf[i] = source[o]
                   /\ status[i] # "shipped" /\ AfterRefund(i) # status[i]}

Opened(o) == {i \in Access \cap ItemsOf(o) : ~FulfillmentHeld /\ status[i] = "pending"}

(* A paid callback, first or repeated: a refunded order stays as it is, and  *)
(* a suspended vendor's order is paid and not provisioned.                   *)
PaidCallback(o) ==
    /\ order[o] \notin {"none", "refunded"}
    /\ order' = [order EXCEPT ![o] = IF Paid(o) THEN order[o] ELSE "paid"]
    /\ marks' = [marks EXCEPT ![o] = IF Settles(o) THEN {"superseded"} ELSE marks[o]]
    /\ Move(Replaced(o) \cup Opened(o),
            [i \in Items |-> IF i \in Opened(o) THEN "granted" ELSE AfterRefund(i)])
    /\ UNCHANGED <<source, vendor, release, owed, form>>

(* invalidate_refunded_post_purchase_credit: any refund of an order withdraws*)
(* the upgrade it paid for.                                                  *)
Funded(o) == {t \in Orders : source[t] = o /\ "released" \notin marks[t]}

Invalidate(o) ==
    marks' = [t \in Orders |-> IF t \in Funded(o) THEN marks[t] \cup {"invalidated"} ELSE marks[t]]

PartialRefund(o) ==
    /\ Paid(o)
    /\ order' = [order EXCEPT ![o] = "partially_refunded"]
    /\ Invalidate(o)
    /\ Withdraw(Funded(o))
    /\ UNCHANGED <<source, vendor, release, owed, form>>

FullRefund(o) ==
    /\ Paid(o)
    /\ order' = [order EXCEPT ![o] = "refunded"]
    /\ Invalidate(o)
    /\ Withdraw(Funded(o) \cup {o})
    /\ UNCHANGED <<source, vendor, release, owed, form>>

-----------------------------------------------------------------------------
(* The forms of merchants.                                                   *)

ShippingTransitions ==
    {<<"pending", "packing">>, <<"pending", "shipped">>, <<"packing", "shipped">>,
     <<"shipped", "delivered">>, <<"refund_review", "returned">>, <<"refund_review", "delivered">>}

ServiceTransitions ==
    {<<"pending", "scheduled">>, <<"scheduled", "scheduled">>, <<"scheduled", "completed">>}

(* grantCommerceEntitlement                                                  *)
Grantable(i, next) ==
    i \in Access /\ Paid(OrderOf[i]) /\ <<status[i], next>> = <<"pending", "granted">>

(* transitionShippingFulfillment: a review goes on after the refund.         *)
Shippable(i, next) ==
    /\ i \in Goods /\ <<status[i], next>> \in ShippingTransitions
    /\ Paid(OrderOf[i]) \/ (order[OrderOf[i]] = "refunded" /\ status[i] = "refund_review")

(* transitionServiceFulfillment                                              *)
Serviceable(i, next) ==
    /\ i \in Services /\ <<status[i], next>> \in ServiceTransitions
    /\ Paid(OrderOf[i]) /\ revision[i] < MaxRevision

Allowed(i, next) == Grantable(i, next) \/ Shippable(i, next) \/ Serviceable(i, next)

Statuses == {"pending", "granted", "revoked", "packing", "shipped", "delivered", "refund_review",
             "returned", "cancelled", "scheduled", "completed"}

(* The page has forms for what a row may become, with its revision; the      *)
(* request checks the suspension first and commits in a transaction of its   *)
(* own later.                                                                *)

OpenForm(m, i) ==
    /\ form[m].at = "idle" /\ ~suspended
    /\ \E next \in Statuses : Allowed(i, next)
    /\ form' = [form EXCEPT ![m] =
                  [at |-> "open", item |-> i, revision |-> revision[i], saw |-> status[i]]]
    /\ UNCHANGED <<rows, credits, vendor, release, owed>>

(* requireVendorManagerMember                                                *)
SubmitForm(m) ==
    /\ form[m].at = "open" /\ ~suspended
    /\ form' = [form EXCEPT ![m].at = "admitted"]
    /\ UNCHANGED <<rows, credits, vendor, release, owed>>

CommitForm(m) ==
    LET i == form[m].item IN
    /\ form[m].at = "admitted"
    /\ revision[i] = form[m].revision
    /\ \E next \in Statuses : Allowed(i, next) /\ Move({i}, All(next))
    /\ form' = [form EXCEPT ![m] = NoForm]
    /\ UNCHANGED <<order, credits, vendor, release, owed>>

(* Refused, left, or the process ended.                                      *)
DropForm(m) ==
    /\ form[m].at # "idle"
    /\ form' = [form EXCEPT ![m] = NoForm]
    /\ UNCHANGED <<rows, credits, vendor, release, owed>>

-----------------------------------------------------------------------------
(* The vendor is suspended and resumed.                                      *)

(* A batch holds the vendor row FOR SHARE until it commits.                  *)
Unlocked == \A a \in Admins : release[a].at # "granting"

Suspend ==
    /\ ~suspended /\ Unlocked
    /\ lifts < MaxSuspensions
    /\ suspended' = TRUE
    /\ UNCHANGED <<rows, credits, lifts, release, owed, form>>

Run(a, place, batch) == release' = [release EXCEPT ![a].at = place, ![a].batch = batch]
EndRun(a) == release' = [release EXCEPT ![a] = NoRun]

(* resumeVendor: one transaction, and then the release in others.            *)
Resume(a) ==
    /\ release[a].at = "idle"
    /\ suspended
    /\ suspended' = FALSE
    /\ lifts' = lifts + 1
    /\ release' = [release EXCEPT ![a] = [at |-> "next", batch |-> {}]]
    /\ owed' = TRUE
    /\ UNCHANGED <<rows, credits, form>>

(* releaseHeldEntitlementsAction                                             *)
ReleaseAgain(a) ==
    /\ release[a].at = "idle"
    /\ ~suspended /\ lifts > 0
    /\ release' = [release EXCEPT ![a] = [at |-> "next", batch |-> {}]]
    /\ UNCHANGED <<rows, credits, vendor, owed, form>>

(* releaseHeldBatch, first statements: a run that finds the vendor suspended *)
(* ends incomplete, one that finds nothing ends complete.                    *)
BatchReads(a) ==
    /\ release[a].at = "next"
    /\ \/ /\ suspended
          /\ EndRun(a) /\ UNCHANGED owed
       \/ /\ ~suspended /\ Held = {}
          /\ EndRun(a) /\ owed' = FALSE
       \/ /\ ~suspended
          /\ \E batch \in SUBSET Held :
                /\ batch # {}
                /\ Cardinality(batch) <= BatchSize
                /\ batch = Held \/ Cardinality(batch) = BatchSize
                /\ Run(a, "granting", batch)
          /\ UNCHANGED owed
    /\ UNCHANGED <<rows, credits, vendor, form>>

(* Faulty: a full batch is taken for the last one.                           *)
LastIfFull(batch) == Cardinality(batch) <= BatchSize

LastBatch(batch) == Cardinality(batch) < BatchSize

(* Faulty: the rows are not asked for their status again.                    *)
GrantBatchBlindly(batch) == Move(batch, All("granted"))

GrantBatch(batch) == Grant(batch)

(* ... and its last ones: what is pending still is granted.                  *)
BatchGrants(a) ==
    LET run == release[a] IN
    /\ run.at = "granting"
    /\ GrantBatch(run.batch)
    /\ IF LastBatch(run.batch)
       THEN EndRun(a) /\ owed' = FALSE
       ELSE Run(a, "next", {}) /\ UNCHANGED owed
    /\ UNCHANGED <<order, credits, vendor, form>>

(* A batch fails and is rolled back, or the process ends.                    *)
RunFails(a) ==
    /\ release[a].at # "idle"
    /\ EndRun(a)
    /\ UNCHANGED <<rows, credits, vendor, owed, form>>

-----------------------------------------------------------------------------
Next ==
    \/ \E o \in Orders :
          \/ Checkout(o) \/ EndUnpaid(o) \/ Recover(o) \/ Lapse(o)
          \/ PaidCallback(o) \/ PartialRefund(o) \/ FullRefund(o)
          \/ \E s \in Orders : Upgrade(o, s)
    \/ \E m \in Merchants :
          \/ \E i \in Items : OpenForm(m, i)
          \/ SubmitForm(m) \/ CommitForm(m) \/ DropForm(m)
    \/ Suspend
    \/ \E a \in Admins :
          Resume(a) \/ ReleaseAgain(a) \/ BatchReads(a) \/ BatchGrants(a) \/ RunFails(a)

Spec == Init /\ [][Next]_vars

(* A run that was started reaches its next batch; nobody has to start one.   *)
Fairness == \A a \in Admins : WF_vars(BatchReads(a)) /\ WF_vars(BatchGrants(a))

FairSpec == Spec /\ Fairness

-----------------------------------------------------------------------------
(* Every variable has its type, and each kind of row its own statuses.       *)
TypeOK ==
    /\ order \in [Orders -> Unpaid \cup {"paid", "partially_refunded", "refunded"}]
    /\ source \in [Orders -> Orders \cup {NoOrder}]
    /\ marks \in [Orders -> SUBSET {"released", "invalidated", "superseded"}]
    /\ status \in [Items -> Statuses]
    /\ \A i \in Access : status[i] \in {"pending", "granted", "revoked"}
    /\ \A i \in Services : status[i] \in {"pending", "scheduled", "completed", "cancelled"}
    /\ \A i \in Goods : status[i] \notin {"granted", "revoked", "scheduled", "completed"}
    /\ revision \in [Items -> Nat]
    /\ suspended \in BOOLEAN
    /\ lifts \in Nat
    /\ release \in [Admins -> [at : {"idle", "next", "granting"}, batch : SUBSET Access]]
    /\ owed \in BOOLEAN
    /\ form \in [Merchants -> [at : {"idle", "open", "admitted"}, item : Items \cup {"none"},
                               revision : Nat, saw : Statuses \cup {"none"}]]

Open == {"pending", "granted", "packing", "shipped", "scheduled"}
Withdrawn == {"revoked", "cancelled", "refund_review", "returned"}

(* The credit of an upgrade was given back or refunded; an order was         *)
(* replaced by its upgrade.                                                  *)
Void(o) == marks[o] \cap {"released", "invalidated"} # {}
Upgraded(o) == \E t \in Orders : source[t] = o /\ "superseded" \in marks[t]

(* Nothing is begun for an unpaid order; a refunded order has nothing open   *)
(* and nothing on its way, whatever callbacks, forms and releases were in    *)
(* flight; and what is withdrawn was refunded, replaced by its upgrade, or   *)
(* an upgrade without its credit (commerce-orders.ts:743-794 and the         *)
(* triggers of post-purchase credits).                                       *)
FulfilmentFollowsPayment ==
    \A i \in Items :
        LET o == OrderOf[i] IN
        /\ order[o] \in Unpaid => status[i] \in Withdrawn \cup {"pending"}
        /\ order[o] = "refunded" => status[i] \notin Open
        /\ order[o] # "refunded" /\ status[i] \in Withdrawn => Void(o) \/ Upgraded(o)

(* The money of one order is delivered once: of an order and its upgrades    *)
(* one at most is being delivered, goods that have left the merchant apart,  *)
(* and an upgrade whose credit was given back or refunded has nothing open,  *)
(* even when it is paid later: after a release, a lapse, a recovery or a     *)
(* suspension (20261017130000_post_purchase_credit_window_supersede, 1-19;   *)
(* revoke_superseded_post_purchase_source).                                  *)
Delivering(o) == \E i \in ItemsOf(o) : status[i] \in {"granted", "packing", "scheduled"}
Family(s) == {s} \cup {t \in Orders : source[t] = s}

DeliveredOnce ==
    \A s \in Orders :
        /\ Void(s) => \A i \in ItemsOf(s) : status[i] \notin Open
        /\ \A o, p \in Family(s) : Delivering(o) /\ Delivering(p) => o = p

(* What was paid for during a suspension is granted once a release completed,*)
(* even when runs overlap, fail, or the vendor is suspended again meanwhile  *)
(* (vendor-suspension.ts:184-191, 250-257).                                  *)
NothingForgotten == ~suspended /\ ~owed => Held = {}

(* While the vendor is suspended nothing opens, except by a merchant's       *)
(* request that had passed its check before (commerce-orders.ts:629-639).    *)
NothingOpensSuspended ==
    [][\A i \in Access :
          (suspended /\ status[i] = "pending" /\ status'[i] = "granted")
              => \E m \in Merchants : form[m].at = "admitted" /\ form[m].item = i]_vars

(* What a merchant decided on a page is applied only to the row the page     *)
(* showed, although the request compares nothing but the revision            *)
(* (commerce-order-fulfillment.ts:150-156).                                  *)
DecidedOnWhatWasShown ==
    [][\A m \in Merchants :
          (form[m].at = "admitted" /\ form'[m] # form[m] /\ status' # status)
              => status[form[m].item] = form[m].saw]_vars

(* A release ends: each full batch leaves less to release.                   *)
ReleaseEnds == \A a \in Admins : release[a].at # "idle" ~> release[a].at = "idle"

=============================================================================
