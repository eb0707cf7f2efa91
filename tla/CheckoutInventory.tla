--------------------------- MODULE CheckoutInventory ---------------------------
(***************************************************************************)
(* Checkout, payment, order and stock of one vendor.                       *)
(*                                                                         *)
(* A payment p is one checkout attempt.  The database rows it owns are the *)
(* PaymentTransaction (payment, held), the CommerceOrder (order), and the  *)
(* InventoryReservation (reservation, releaseReason, expiresAt).  Every    *)
(* Serializable transaction of the code is one action here; a request that *)
(* crosses several transactions, or that reads outside one, is a chain of  *)
(* actions with a program counter of its own (checkout, recorder, editing, *)
(* batch), and any other action may run between two of its steps.          *)
(***************************************************************************)
EXTENDS Integers, FiniteSets

CONSTANTS
    Payments,       \* checkout attempts
    Products,       \* products of the vendor
    Cart,           \* Cart[p]: the products of p, one unit of each
    InitialStock,   \* InitialStock[x]: units of product x at the start
    TTL,            \* life of a reservation, in clock ticks
    CleanupLimit,   \* rows one run of the expiry job takes
    Recoverable,    \* the payments that are post-purchase upgrades
    LocalManual,    \* TRUE where a local manual session may be reissued
    MaxNow,         \* bound: the clock stops here
    MaxStock,       \* bound: largest stock a merchant types in
    MaxEdits,       \* bound: product forms a merchant opens
    MaxCuts         \* bound: runs of the expiry job that are cut short

ASSUME CheckoutAssumption ==
    /\ IsFiniteSet(Payments)
    /\ Cart \in [Payments -> SUBSET Products]
    /\ InitialStock \in [Products -> Nat]
    /\ TTL \in Nat
    /\ CleanupLimit \in Nat \ {0}
    /\ Recoverable \subseteq Payments
    /\ LocalManual \in BOOLEAN
    /\ {MaxNow, MaxStock, MaxEdits, MaxCuts} \subseteq Nat

VARIABLES
    stock,          \* Product.inventory
    active,         \* Product.isActive
    payment,        \* PaymentTransaction.status
    held,           \* PaymentTransaction.metadata.paymentManualReconciliation
    issued,         \* PaymentTransaction.metadata.checkoutSession
    order,          \* CommerceOrder.status
    expiryRecorded, \* the order has its payment.expired event
    reservation,    \* InventoryReservation.status
    releaseReason,  \* InventoryReservation.releaseReason
    expiresAt,      \* InventoryReservation.expiresAt
    checkout,       \* where the checkout request of p stands
    captured,       \* the provider has collected the money of p
    reconciliation, \* WebhookEvent of the manual reconciliation of p
    recorder,       \* where the callback that records it stands
    now,            \* the clock
    batch,          \* rows the running expiry job still has to examine
    batchNow,       \* the clock when that job started
    cuts,           \* runs of the job cut short so far
    editing,        \* products whose form a merchant has open
    baseline,       \* the stock that form was loaded with
    edits,          \* forms opened so far
    supply          \* history: units put on sale, sold ones included

rowVars == <<payment, held, issued, order, expiryRecorded,
             reservation, releaseReason, expiresAt>>
productVars == <<stock, active>>
recorderVars == <<reconciliation, recorder>>
jobVars == <<now, batch, batchNow, cuts>>
merchantVars == <<editing, baseline, edits, supply>>
vars == <<rowVars, productVars, checkout, captured, recorderVars, jobVars,
          merchantVars>>

PaymentStatus == {"none", "pending", "paid", "failed", "expired",
                  "partially_refunded", "refunded"}
OrderStatus == {"none", "pending_payment", "paid", "payment_failed",
                "expired", "partially_refunded", "refunded"}
PaidStatuses == {"paid", "partially_refunded", "refunded"}
Refundable == {"paid", "partially_refunded"}
RefundEvents == {"partially_refunded", "refunded"}
Holding == {"reserved", "committed"}
RecoverableReasons == {"provider_checkout_failed", "checkout_metadata_failed",
                       "payment_failed", "expired"}
UnissuedReasons == {"provider_checkout_failed", "checkout_metadata_failed"}

-----------------------------------------------------------------------------
(* Stock writes.  Both are one UPDATE per product inside the transaction of  *)
(* the action that uses them.                                                *)

(* Faulty: sells a product as long as it is on sale.                         *)
OnSale(items) == \A x \in items : active[x]

InStock(items) == \A x \in items : active[x] /\ stock[x] >= 1

TakeStock(items) ==
    stock' = [x \in Products |-> IF x \in items THEN stock[x] - 1 ELSE stock[x]]

ReturnStock(items) ==
    stock' = [x \in Products |-> IF x \in items THEN stock[x] + 1 ELSE stock[x]]

(* Faulty: a sale never returns its units.                                   *)
ReleaseReservedOnly(p, reason) ==
    IF reservation[p] = "reserved"
    THEN /\ reservation' = [reservation EXCEPT ![p] = "released"]
         /\ releaseReason' = [releaseReason EXCEPT ![p] = reason]
         /\ ReturnStock(Cart[p])
    ELSE UNCHANGED <<reservation, releaseReason, stock>>

(* releaseReservation: a reserved or committed row becomes released and its  *)
(* units return; a row that was released before is left alone.               *)
ReleaseReservation(p, reason) ==
    IF reservation[p] \in Holding
    THEN /\ reservation' = [reservation EXCEPT ![p] = "released"]
         /\ releaseReason' = [releaseReason EXCEPT ![p] = reason]
         /\ ReturnStock(Cart[p])
    ELSE UNCHANGED <<reservation, releaseReason, stock>>

(* Faulty: the last event wins.                                              *)
LastEventWins(status, event) == event

(* resolvePaymentStatus: the status a provider event leads to.               *)
ResolvePaymentStatus(status, event) ==
    CASE status = "pending" -> event
      [] status = "refunded" -> "refunded"
      [] status = "partially_refunded" ->
            IF event = "refunded" THEN "refunded" ELSE "partially_refunded"
      [] status = "paid" -> IF event \in RefundEvents THEN event ELSE "paid"
      [] OTHER -> IF event = "paid" THEN "paid" ELSE status

(* An event whose status is overruled is recorded and changes nothing else.  *)
Applies(p, event) ==
    payment[p] # "none" /\ ResolvePaymentStatus(payment[p], event) = event

-----------------------------------------------------------------------------
Init ==
    /\ stock = InitialStock
    /\ active = [x \in Products |-> TRUE]
    /\ payment = [p \in Payments |-> "none"]
    /\ held = [p \in Payments |-> FALSE]
    /\ issued = [p \in Payments |-> FALSE]
    /\ order = [p \in Payments |-> "none"]
    /\ expiryRecorded = [p \in Payments |-> FALSE]
    /\ reservation = [p \in Payments |-> "none"]
    /\ releaseReason = [p \in Payments |-> "none"]
    /\ expiresAt = [p \in Payments |-> 0]
    /\ checkout = [p \in Payments |-> "idle"]
    /\ captured = [p \in Payments |-> FALSE]
    /\ reconciliation = [p \in Payments |-> "none"]
    /\ recorder = [p \in Payments |-> "idle"]
    /\ now = 0
    /\ batch = {}
    /\ batchNow = 0
    /\ cuts = 0
    /\ editing = {}
    /\ baseline = InitialStock
    /\ edits = 0
    /\ supply = InitialStock

-----------------------------------------------------------------------------
(* The checkout request.                                                     *)

(* createReservedPaymentTransaction: payment, order and reservation appear   *)
(* together with the decrement of every product, or nothing does.            *)
Reserve(p) ==
    /\ checkout[p] = "idle"
    /\ payment[p] = "none"
    /\ InStock(Cart[p])
    /\ TakeStock(Cart[p])
    /\ payment' = [payment EXCEPT ![p] = "pending"]
    /\ order' = [order EXCEPT ![p] = "pending_payment"]
    /\ reservation' = [reservation EXCEPT ![p] = "reserved"]
    /\ expiresAt' = [expiresAt EXCEPT ![p] = now + TTL]
    /\ checkout' = [checkout EXCEPT ![p] = "session"]
    /\ UNCHANGED <<held, issued, expiryRecorded, releaseReason, active, captured,
                   recorderVars, jobVars, merchantVars>>

(* The provider prepares the session, outside any transaction.               *)
CreateSession(p) ==
    /\ checkout[p] = "session"
    /\ \E outcome \in {"store", "provider_checkout_failed"} :
          checkout' = [checkout EXCEPT ![p] = outcome]
    /\ UNCHANGED <<rowVars, productVars, captured, recorderVars, jobVars, merchantVars>>

(* The session is stored by an UPDATE by id that replaces the metadata with  *)
(* the snapshot the request was built from: no status is checked, and a hold *)
(* written in between would be lost.                                         *)
StoreSession(p) ==
    /\ checkout[p] = "store"
    /\ issued' = [issued EXCEPT ![p] = TRUE]
    /\ held' = [held EXCEPT ![p] = FALSE]
    /\ checkout' = [checkout EXCEPT ![p] = "done"]
    /\ UNCHANGED <<payment, order, expiryRecorded, reservation, releaseReason, expiresAt,
                   productVars, captured, recorderVars, jobVars, merchantVars>>

StoreSessionFails(p) ==
    /\ checkout[p] = "store"
    /\ checkout' = [checkout EXCEPT ![p] = "checkout_metadata_failed"]
    /\ UNCHANGED <<rowVars, productVars, captured, recorderVars, jobVars, merchantVars>>

(* failPendingCheckoutAndReleaseInventory, for the reason the request failed *)
(* with.  A payment that is no longer pending is left alone.                 *)
FailPendingCheckout(p) ==
    /\ checkout[p] \in UnissuedReasons
    /\ checkout' = [checkout EXCEPT ![p] = "done"]
    /\ IF payment[p] = "pending"
       THEN /\ payment' = [payment EXCEPT ![p] = "failed"]
            /\ order' = [order EXCEPT ![p] = IF @ = "pending_payment" THEN "payment_failed" ELSE @]
            /\ ReleaseReservation(p, checkout[p])
       ELSE UNCHANGED <<payment, order, reservation, releaseReason, stock>>
    /\ UNCHANGED <<held, issued, expiryRecorded, expiresAt, active, captured,
                   recorderVars, jobVars, merchantVars>>

(* The request dies, or its recovery write fails and is swallowed.           *)
CheckoutDies(p) ==
    /\ checkout[p] \notin {"idle", "done"}
    /\ checkout' = [checkout EXCEPT ![p] = "done"]
    /\ UNCHANGED <<rowVars, productVars, captured, recorderVars, jobVars, merchantVars>>

(* resumePostPurchaseCheckout: the original units are taken again and the    *)
(* same rows go back to pending.  An unissued session was never shown to the *)
(* buyer; an issued one is reissued only where LocalManual holds.            *)
ResumeCheckout(p) ==
    /\ p \in Recoverable
    /\ checkout[p] = "done"
    /\ \/ payment[p] = "failed" /\ order[p] = "payment_failed"
       \/ payment[p] = "expired" /\ order[p] = "expired"
    /\ IF issued[p]
       THEN LocalManual
       ELSE payment[p] = "failed" /\ releaseReason[p] \in UnissuedReasons
    /\ reservation[p] = "released"
    /\ releaseReason[p] \in RecoverableReasons
    /\ InStock(Cart[p])
    /\ TakeStock(Cart[p])
    /\ reservation' = [reservation EXCEPT ![p] = "reserved"]
    /\ releaseReason' = [releaseReason EXCEPT ![p] = "none"]
    /\ expiresAt' = [expiresAt EXCEPT ![p] = now + TTL]
    /\ payment' = [payment EXCEPT ![p] = "pending"]
    /\ order' = [order EXCEPT ![p] = "pending_payment"]
    /\ issued' = [issued EXCEPT ![p] = TRUE]
    /\ UNCHANGED <<held, expiryRecorded, active, checkout, captured,
                   recorderVars, jobVars, merchantVars>>

-----------------------------------------------------------------------------
(* The provider and its callbacks.  A callback reports a fact that stays     *)
(* true (a failed attempt, a capture), so it may arrive late, twice, or      *)
(* after a later one.                                                        *)

(* The buyer pays the session it was given, however late.                    *)
Capture(p) ==
    /\ issued[p]
    /\ ~captured[p]
    /\ captured' = [captured EXCEPT ![p] = TRUE]
    /\ UNCHANGED <<rowVars, productVars, checkout, recorderVars, jobVars, merchantVars>>

(* Faulty: a late payment commits a released row without its units.          *)
CommitWithoutStock(p) ==
    /\ reservation' = [reservation EXCEPT ![p] = "committed"]
    /\ releaseReason' = [releaseReason EXCEPT ![p] = "none"]
    /\ UNCHANGED stock

(* applyPaymentInventoryTransition for a paid event: a reserved row commits, *)
(* a released one takes its units again or the whole event rolls back.       *)
CommitInventory(p) ==
    /\ reservation' = [reservation EXCEPT ![p] = "committed"]
    /\ releaseReason' = [releaseReason EXCEPT ![p] = "none"]
    /\ IF reservation[p] \in Holding
       THEN UNCHANGED stock
       ELSE InStock(Cart[p]) /\ TakeStock(Cart[p])

(* Faulty: an expired order is over.                                         *)
OrderPaidUnlessExpired(status) ==
    IF status \in {"pending_payment", "payment_failed"} THEN "paid" ELSE status

(* reconcileCommerceOrderPaymentTransition for a paid event.                 *)
OrderPaid(status) ==
    IF status \in {"pending_payment", "payment_failed", "expired"} THEN "paid" ELSE status

PaidWebhook(p) ==
    /\ captured[p]
    /\ Applies(p, "paid")
    /\ payment' = [payment EXCEPT ![p] = "paid"]
    /\ held' = [held EXCEPT ![p] = FALSE]
    /\ reconciliation' = [reconciliation EXCEPT ![p] = IF @ = "open" THEN "resolved" ELSE @]
    /\ CommitInventory(p)
    /\ order' = [order EXCEPT ![p] = OrderPaid(@)]
    /\ UNCHANGED <<issued, expiryRecorded, expiresAt, active, checkout, captured,
                   recorder, jobVars, merchantVars>>

(* A failed attempt of a trade whose session was shown to the buyer.         *)
FailedWebhook(p) ==
    /\ issued[p]
    /\ Applies(p, "failed")
    /\ payment' = [payment EXCEPT ![p] = "failed"]
    /\ IF reservation[p] = "reserved"
       THEN ReleaseReservation(p, "payment_failed")
       ELSE UNCHANGED <<reservation, releaseReason, stock>>
    /\ order' = [order EXCEPT ![p] = IF @ = "pending_payment" THEN "payment_failed" ELSE @]
    /\ UNCHANGED <<held, issued, expiryRecorded, expiresAt, active, checkout, captured,
                   recorderVars, jobVars, merchantVars>>

(* A completed refund is booked: all of the rest, or a part of it.  Only a   *)
(* full refund returns the units.                                            *)
RefundBooked(p, event) ==
    /\ payment[p] \in Refundable
    /\ order[p] \in Refundable
    /\ payment' = [payment EXCEPT ![p] = ResolvePaymentStatus(@, event)]
    /\ order' = [order EXCEPT ![p] = event]
    /\ IF event = "refunded"
       THEN ReleaseReservation(p, "full_refund")
       ELSE UNCHANGED <<reservation, releaseReason, stock>>
    /\ UNCHANGED <<held, issued, expiryRecorded, expiresAt, active, checkout, captured,
                   recorderVars, jobVars, merchantVars>>

-----------------------------------------------------------------------------
(* recordPaymentWebhookManualReconciliation: a callback reports a collection *)
(* that cannot be applied.  It reads the payment, writes the reconciliation  *)
(* event and then the hold, in three statements and no transaction.          *)

RecorderReads(p) ==
    /\ captured[p]
    /\ recorder[p] = "idle"
    /\ payment[p] \notin PaidStatuses
    /\ recorder' = [recorder EXCEPT ![p] =
                       IF payment[p] = "pending" /\ ~held[p] THEN "event_then_hold" ELSE "event"]
    /\ UNCHANGED <<rowVars, productVars, checkout, captured, reconciliation, jobVars, merchantVars>>

(* The event is found or created; one that was resolved before stays so.     *)
RecorderCreatesEvent(p) ==
    /\ recorder[p] \in {"event", "event_then_hold"}
    /\ reconciliation' = [reconciliation EXCEPT ![p] = IF @ = "none" THEN "open" ELSE @]
    /\ recorder' = [recorder EXCEPT ![p] = IF @ = "event" THEN "idle" ELSE "hold"]
    /\ UNCHANGED <<rowVars, productVars, checkout, captured, jobVars, merchantVars>>

RecorderHolds(p) ==
    /\ recorder[p] = "hold"
    /\ held' = [held EXCEPT ![p] = @ \/ payment[p] = "pending"]
    /\ recorder' = [recorder EXCEPT ![p] = "idle"]
    /\ UNCHANGED <<payment, issued, order, expiryRecorded, reservation, releaseReason, expiresAt,
                   productVars, checkout, captured, reconciliation, jobVars, merchantVars>>

RecorderDies(p) ==
    /\ recorder[p] # "idle"
    /\ recorder' = [recorder EXCEPT ![p] = "idle"]
    /\ UNCHANGED <<rowVars, productVars, checkout, captured, reconciliation, jobVars, merchantVars>>

-----------------------------------------------------------------------------
(* releaseExpiredInventoryReservations: one query for the oldest expired     *)
(* rows, then one transaction per row that reads the row again.              *)

ExpiredRows == {p \in Payments : reservation[p] = "reserved" /\ expiresAt[p] <= now}

(* The rows a query ordered by expiresAt and limited to CleanupLimit returns.*)
OldestRows(rows) ==
    {some \in SUBSET rows :
        /\ Cardinality(some) <= CleanupLimit
        /\ some # rows => Cardinality(some) = CleanupLimit
        /\ \A p \in some, q \in rows \ some : expiresAt[p] <= expiresAt[q]}

StartCleanup ==
    /\ batch = {}
    /\ ExpiredRows # {}
    /\ batch' \in OldestRows(ExpiredRows)
    /\ batchNow' = now
    /\ UNCHANGED <<rowVars, productVars, checkout, captured, recorderVars, now, cuts, merchantVars>>

(* The row as its transaction reads it again.                                *)
StillDue(p) == reservation[p] = "reserved" /\ expiresAt[p] <= batchNow

(* Faulty: no hold protects a row; any pending payment is held.              *)
NeverKept(p) == FALSE
AnyPendingKept(p) == payment[p] = "pending"

KeptByHold(p) == payment[p] = "pending" /\ held[p]

(* expireCommerceOrderForPayment: an order that has its expiry event already *)
(* takes no second one.                                                      *)
ExpireOrder(p) ==
    LET expires == order[p] = "pending_payment" /\ ~expiryRecorded[p] IN
    /\ order' = [order EXCEPT ![p] = IF expires THEN "expired" ELSE @]
    /\ expiryRecorded' = [expiryRecorded EXCEPT ![p] = @ \/ expires]

(* The transaction of one row: left alone, committed (a paid payment whose   *)
(* reservation was left reserved), or released, with the payment and the     *)
(* order if the payment is still pending.                                    *)
CleanupRow(p) ==
    /\ p \in batch
    /\ batch' = batch \ {p}
    /\ \/ /\ ~StillDue(p) \/ KeptByHold(p)
          /\ UNCHANGED <<payment, order, expiryRecorded, reservation, releaseReason, stock>>
       \/ /\ StillDue(p) /\ payment[p] = "paid"
          /\ reservation' = [reservation EXCEPT ![p] = "committed"]
          /\ order' = [order EXCEPT ![p] = OrderPaid(@)]
          /\ UNCHANGED <<payment, expiryRecorded, releaseReason, stock>>
       \/ /\ StillDue(p) /\ payment[p] = "pending" /\ ~KeptByHold(p)
          /\ ReleaseReservation(p, "expired")
          /\ payment' = [payment EXCEPT ![p] = "expired"]
          /\ ExpireOrder(p)
       \/ /\ StillDue(p) /\ payment[p] \notin {"paid", "pending"}
          /\ ReleaseReservation(p, "expired")
          /\ UNCHANGED <<payment, order, expiryRecorded>>
    /\ UNCHANGED <<held, issued, expiresAt, active, checkout, captured, recorderVars,
                   now, batchNow, cuts, merchantVars>>

(* The deadline of the run passes, or the job dies: the rest is left to the  *)
(* next run.                                                                 *)
CutCleanup ==
    /\ batch # {}
    /\ cuts < MaxCuts
    /\ cuts' = cuts + 1
    /\ batch' = {}
    /\ UNCHANGED <<rowVars, productVars, checkout, captured, recorderVars, now, batchNow, merchantVars>>

Tick ==
    /\ now < MaxNow
    /\ now' = now + 1
    /\ UNCHANGED <<rowVars, productVars, checkout, captured, recorderVars,
                   batch, batchNow, cuts, merchantVars>>

-----------------------------------------------------------------------------
(* The merchant edits a product: a form is loaded, and saved later.          *)

OpenForm(x) ==
    /\ edits < MaxEdits
    /\ x \notin editing
    /\ editing' = editing \cup {x}
    /\ baseline' = [baseline EXCEPT ![x] = stock[x]]
    /\ edits' = edits + 1
    /\ UNCHANGED <<rowVars, productVars, checkout, captured, recorderVars, jobVars, supply>>

(* persistProduct: stock the merchant did not touch is left alone; stock it  *)
(* did is written only over the value the form was loaded with.              *)
SaveForm(x, typed, onSale) ==
    /\ x \in editing
    /\ editing' = editing \ {x}
    /\ \/ /\ typed = baseline[x]
          /\ active' = [active EXCEPT ![x] = onSale]
          /\ UNCHANGED <<stock, supply>>
       \/ /\ typed # baseline[x]
          /\ stock[x] = baseline[x]
          /\ active' = [active EXCEPT ![x] = onSale]
          /\ stock' = [stock EXCEPT ![x] = typed]
          /\ supply' = [supply EXCEPT ![x] = (@ - baseline[x]) + typed]
       \/ /\ typed # baseline[x]
          /\ stock[x] # baseline[x]
          /\ UNCHANGED <<stock, active, supply>>
    /\ UNCHANGED <<rowVars, checkout, captured, recorderVars, jobVars, baseline, edits>>

-----------------------------------------------------------------------------
Next ==
    \/ \E p \in Payments :
          \/ Reserve(p) \/ CreateSession(p) \/ StoreSession(p) \/ StoreSessionFails(p)
          \/ FailPendingCheckout(p) \/ CheckoutDies(p) \/ ResumeCheckout(p)
          \/ Capture(p) \/ PaidWebhook(p) \/ FailedWebhook(p)
          \/ \E event \in RefundEvents : RefundBooked(p, event)
          \/ RecorderReads(p) \/ RecorderCreatesEvent(p) \/ RecorderHolds(p) \/ RecorderDies(p)
          \/ CleanupRow(p)
    \/ StartCleanup \/ CutCleanup \/ Tick
    \/ \E x \in Products :
          \/ OpenForm(x)
          \/ \E typed \in 0..MaxStock, onSale \in BOOLEAN : SaveForm(x, typed, onSale)

Spec == Init /\ [][Next]_vars

(* The cron entry starts the expiry job again and again and a started run    *)
(* takes its rows in turn; nothing obliges the provider to call, or finance  *)
(* to settle a held payment.                                                 *)
Fairness == WF_vars(StartCleanup) /\ \A p \in Payments : WF_vars(CleanupRow(p))

FairSpec == Spec /\ Fairness

-----------------------------------------------------------------------------
TypeOK ==
    /\ stock \in [Products -> Nat]
    /\ active \in [Products -> BOOLEAN]
    /\ payment \in [Payments -> PaymentStatus]
    /\ held \in [Payments -> BOOLEAN]
    /\ issued \in [Payments -> BOOLEAN]
    /\ order \in [Payments -> OrderStatus]
    /\ expiryRecorded \in [Payments -> BOOLEAN]
    /\ reservation \in [Payments -> {"none", "released"} \cup Holding]
    /\ releaseReason \in [Payments -> {"none", "full_refund"} \cup RecoverableReasons]
    /\ expiresAt \in [Payments -> Nat]
    /\ checkout \in [Payments -> {"idle", "session", "store", "done"} \cup UnissuedReasons]
    /\ captured \in [Payments -> BOOLEAN]
    /\ reconciliation \in [Payments -> {"none", "open", "resolved"}]
    /\ recorder \in [Payments -> {"idle", "event", "event_then_hold", "hold"}]
    /\ now \in Nat
    /\ batch \subseteq Payments
    /\ batchNow \in Nat
    /\ cuts \in Nat
    /\ editing \subseteq Products
    /\ baseline \in [Products -> Nat]
    /\ edits \in Nat
    /\ supply \in [Products -> Int]

(* No unit is sold twice, lost, or returned twice: what is on the shelf and  *)
(* what open or sold reservations hold is what was put on sale.  Reservation *)
(* writes are spread over the checkout, its recovery, the callbacks, the     *)
(* refunds and the expiry job, and merchants type stock in between           *)
(* (inventory-reservations.ts, product-actions.ts persistProduct).           *)
Holders(x) == {p \in Payments : x \in Cart[p] /\ reservation[p] \in Holding}

StockConserved ==
    \A x \in Products : stock[x] + Cardinality(Holders(x)) = supply[x]

(* The three ledgers of one checkout never disagree, although five handlers  *)
(* each move all of them: a paid order has its stock committed, an order     *)
(* that can no longer be paid has given it back, and the merchant's order    *)
(* says what the payment says.                                               *)
AgreedStates ==
    {<<"none", "none", "none">>,
     <<"pending", "pending_payment", "reserved">>,
     <<"paid", "paid", "committed">>,
     <<"failed", "payment_failed", "released">>,
     <<"expired", "expired", "released">>,
     <<"partially_refunded", "partially_refunded", "committed">>,
     <<"refunded", "refunded", "released">>}

LedgersAgree ==
    \A p \in Payments : <<payment[p], order[p], reservation[p]>> \in AgreedStates

(* The expiry job takes neither the payment nor the units of a collection    *)
(* that waits for finance, whatever it saw when it picked its rows, and no   *)
(* other writer of the metadata drops the hold meanwhile: only a callback    *)
(* that settles the trade, paid or failed, ends the wait                     *)
(* (inventory-reservations.ts:579-586, payment-webhook-manual-reconciliation.ts). *)
HeldPaymentKept ==
    [][\A p \in Payments :
         (payment[p] = "pending" /\ held[p]) =>
            /\ payment'[p] \in {"pending", "paid", "failed"}
            /\ payment'[p] = "pending" => reservation'[p] = reservation[p] /\ held'[p]
            /\ payment'[p] = "paid" => reservation'[p] = "committed"]_vars

(* No late, duplicated or reordered callback, recovery or expiry takes back  *)
(* money that was booked: a payment that was paid moves only to refunds, and *)
(* its units return on nothing but a full refund (commerce-orders.ts:640).   *)
PaidNeverDowngraded ==
    [][\A p \in Payments :
         payment[p] \in PaidStatuses =>
            /\ payment'[p] \in PaidStatuses
            /\ payment[p] = "refunded" => payment'[p] = "refunded"
            /\ payment[p] = "partially_refunded" => payment'[p] # "paid"
            /\ (reservation[p] = "committed" /\ reservation'[p] # "committed") =>
                  payment'[p] = "refunded"]_vars

(* Abandoned stock comes back: an expired reservation is released unless its *)
(* payment is held, as long as the held rows, which stay expired and sort    *)
(* first, do not fill a whole run of the job (inventory-reservations.ts:541).*)
HeldRows == {q \in ExpiredRows : held[q]}

ExpiredRowReleased ==
    \A p \in Payments :
        (p \in ExpiredRows) ~>
            (p \notin ExpiredRows \/ held[p] \/ Cardinality(HeldRows) >= CleanupLimit)

(* The whole life of a sale, seen from the shelf: releases, late payments,   *)
(* recoveries, refunds, expiry and merchant edits are steps of the ledger,   *)
(* and no step returns units that were sold except the full refund.          *)
Deal ==
    [p \in Payments |->
        CASE payment[p] = "refunded" -> "refunded"
          [] payment[p] # "refunded" /\ reservation[p] = "committed" -> "sold"
          [] payment[p] # "refunded" /\ reservation[p] = "reserved" -> "held"
          [] OTHER -> "none"]

Ledger == INSTANCE StockLedger WITH shelf <- stock, deal <- Deal

SalesFollowLedger == Ledger!Init /\ [][Ledger!Next]_(Ledger!vars)
=============================================================================
