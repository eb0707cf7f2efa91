------------------------- MODULE OrderFulfillmentProofs -------------------------
(***************************************************************************)
(* Proofs about OrderFulfillment, for any orders and items, any number of    *)
(* forms and release runs, any batch size and any number of suspensions.     *)
(***************************************************************************)
EXTENDS OrderFulfillment, TLAPS

(* A form that shows the row's revision shows its status: revisions only     *)
(* grow, and no status changes without one.                                  *)
FormsShowRows ==
    \A m \in Merchants : form[m].at # "idle" =>
        /\ form[m].item \in Items
        /\ form[m].revision <= revision[form[m].item]
        /\ form[m].revision = revision[form[m].item] => form[m].saw = status[form[m].item]

(* A batch was read of paid orders and no suspension begins before it is     *)
(* over; one that is not full has everything that is held.                   *)
BatchesRead ==
    \A a \in Admins : release[a].at = "granting" =>
        /\ ~suspended
        /\ \A i \in release[a].batch : order[OrderOf[i]] \notin Unpaid
        /\ Cardinality(release[a].batch) < BatchSize => Held \subseteq release[a].batch

(* A credit belongs to one upgrade: at most one upgrade of an order has not  *)
(* given it back, a released credit is final, and a paid upgrade has used,   *)
(* lost or returned its own.                                                 *)
CreditBound ==
    /\ \A o \in Orders : order[o] = "none" => source[o] = NoOrder
    /\ \A o \in Orders : source[o] = NoOrder => marks[o] = {}
    /\ \A o \in Orders : source[o] # o
    /\ \A o \in Orders : "released" \in marks[o] => marks[o] = {"released"}
    /\ \A o \in Orders : order[o] \notin Unpaid /\ source[o] # NoOrder => marks[o] # {}
    /\ \A o, p \in Orders :
          source[o] # NoOrder /\ source[o] = source[p] /\ o # p
              => "released" \in marks[o] \/ "released" \in marks[p]

(* What lost its credit or was replaced is over, except goods on their way.  *)
WithdrawnStays ==
    \A i \in Items :
        /\ Void(OrderOf[i]) => status[i] \notin Open
        /\ Upgraded(OrderOf[i]) => status[i] \notin Open \/ status[i] = "shipped"

Inv == /\ TypeOK
       /\ FulfilmentFollowsPayment /\ CreditBound /\ WithdrawnStays
       /\ NothingForgotten /\ FormsShowRows /\ BatchesRead

(* The statuses a kind of row may have.                                      *)
StatusesOf(i) ==
    {s \in Statuses :
        /\ i \in Access => s \in {"pending", "granted", "revoked"}
        /\ i \in Services => s \in {"pending", "scheduled", "completed", "cancelled"}
        /\ i \in Goods => s \notin {"granted", "revoked", "scheduled", "completed"}}

OrderStatuses == Unpaid \cup {"paid", "partially_refunded", "refunded"}

RowsOK ==
    /\ order \in [Orders -> OrderStatuses]
    /\ status \in [Items -> Statuses]
    /\ \A i \in Items : status[i] \in StatusesOf(i)
    /\ revision \in [Items -> Nat]

CreditsOK ==
    /\ source \in [Orders -> Orders \cup {NoOrder}]
    /\ marks \in [Orders -> SUBSET {"released", "invalidated", "superseded"}]

VendorOK == suspended \in BOOLEAN /\ owed \in BOOLEAN

RunsOK ==
    /\ lifts \in Nat
    /\ release \in [Admins -> [at : {"idle", "next", "granting"}, batch : SUBSET Access]]

FormsOK ==
    form \in [Merchants -> [at : {"idle", "open", "admitted"}, item : Items \cup {"none"},
                            revision : Nat, saw : Statuses \cup {"none"}]]

(* The five parts are TypeOK.                                                *)
LEMMA TypeParts == TypeOK <=> RowsOK /\ CreditsOK /\ VendorOK /\ RunsOK /\ FormsOK
  <1>1. TypeOK => RowsOK
      BY DEF TypeOK, RowsOK, StatusesOf, Items, OrderStatuses
  <1>2. RowsOK => /\ \A i \in Access : status[i] \in {"pending", "granted", "revoked"}
                  /\ \A i \in Services : status[i] \in {"pending", "scheduled", "completed", "cancelled"}
                  /\ \A i \in Goods : status[i] \notin {"granted", "revoked", "scheduled", "completed"}
      BY DEF RowsOK, StatusesOf, Items
  <1>3. TypeOK => CreditsOK /\ VendorOK /\ RunsOK /\ FormsOK
      BY DEF TypeOK, CreditsOK, VendorOK, RunsOK, FormsOK
  <1>4. RowsOK /\ CreditsOK /\ VendorOK /\ RunsOK /\ FormsOK => TypeOK
      BY <1>2 DEF TypeOK, RowsOK, CreditsOK, VendorOK, RunsOK, FormsOK, OrderStatuses
  <1> QED
      BY <1>1, <1>3, <1>4

(* The invariant holds before the first payment.                             *)
LEMMA FulfilmentInit == Init => Inv
  <1> SUFFICES ASSUME Init PROVE Inv
      OBVIOUS
  <1> USE FulfillmentAssumption DEF Init, FulfillmentAssumption
  <1>1. RowsOK
      BY DEF RowsOK, StatusesOf, Statuses, Items, OrderStatuses, Unpaid
  <1>2. VendorOK /\ CreditsOK
      BY DEF VendorOK, CreditsOK
  <1>3. RunsOK /\ FormsOK
      BY DEF RunsOK, FormsOK, NoRun, NoForm
  <1>4. FulfilmentFollowsPayment /\ NothingForgotten
      BY DEF FulfilmentFollowsPayment, NothingForgotten, Held, Paid, Items, Unpaid, Withdrawn
  <1>6. CreditBound /\ WithdrawnStays
      BY DEF CreditBound, WithdrawnStays, Void, Upgraded, Unpaid, Items
  <1>5. FormsShowRows /\ BatchesRead
      BY DEF FormsShowRows, BatchesRead, NoRun, NoForm
  <1> QED
      BY <1>1, <1>2, <1>3, <1>4, <1>5, <1>6, TypeParts DEF Inv

(* An update of rows keeps their type and never lowers a revision; a row     *)
(* that changes its status gets a new one.                                   *)
LEMMA MoveRows ==
  ASSUME TypeOK, NEW items \in SUBSET Items, NEW to \in [Items -> Statuses],
         \A i \in items : to[i] \in StatusesOf(i),
         order' \in [Orders -> OrderStatuses],
         Move(items, to)
  PROVE  /\ RowsOK'
         /\ \A i \in Items : \/ status'[i] = status[i] /\ revision'[i] = revision[i]
                             \/ revision'[i] = revision[i] + 1
  <1>1. RowsOK
      BY TypeParts
  <1>2. \A i \in Items : \/ status'[i] = status[i] /\ revision'[i] = revision[i]
                         \/ revision'[i] = revision[i] + 1
      BY <1>1 DEF Move, RowsOK
  <1>3. \A i \in Items : status'[i] \in StatusesOf(i) /\ status'[i] \in Statuses
      BY <1>1 DEF Move, RowsOK
  <1>4. status' \in [Items -> Statuses] /\ revision' \in [Items -> Nat]
      BY <1>1, <1>3 DEF Move, RowsOK
  <1> QED
      BY <1>2, <1>3, <1>4 DEF RowsOK, StatusesOf

(* Forms that stay, or close, still show their rows.                         *)
LEMMA FormsFollow ==
  ASSUME TypeOK, FormsShowRows,
         \A i \in Items : \/ status'[i] = status[i] /\ revision'[i] = revision[i]
                          \/ revision'[i] = revision[i] + 1,
         \A m \in Merchants : form'[m] = form[m] \/ form'[m].at = "idle"
  PROVE  FormsShowRows'
  <1> SUFFICES ASSUME NEW m \in Merchants, form'[m].at # "idle"
               PROVE  /\ form'[m].item \in Items
                      /\ form'[m].revision <= revision'[form'[m].item]
                      /\ form'[m].revision = revision'[form'[m].item]
                            => form'[m].saw = status'[form'[m].item]
      BY DEF FormsShowRows
  <1> DEFINE i == form[m].item
             r == revision'[i]
  <1>1. form'[m] = form[m] /\ i \in Items
      BY DEF FormsShowRows
  <1>2. form[m].revision \in Nat /\ revision[i] \in Nat
      BY <1>1, TypeParts DEF FormsOK, RowsOK
  <1>3. form[m].revision <= revision[i] /\ (form[m].revision = revision[i] => form[m].saw = status[i])
      BY <1>1 DEF FormsShowRows
  <1>4. (status'[i] = status[i] /\ r = revision[i]) \/ r = revision[i] + 1
      BY <1>1
  <1> HIDE DEF r
  <1>5. form[m].revision <= r /\ (form[m].revision = r => form[m].saw = status'[i])
      BY <1>2, <1>3, <1>4
  <1> QED
      BY <1>1, <1>5 DEF r

(* What a release rests on is kept by steps of others that hold nothing      *)
(* more, and by any that runs while the vendor is suspended.                 *)
LEMMA ReleaseFollows ==
  ASSUME NothingForgotten, BatchesRead,
         UNCHANGED <<suspended, release, owed>>,
         (Held' \subseteq Held) \/ suspended,
         \A o \in Orders : order'[o] \in Unpaid => order[o] \in Unpaid,
         \A a \in Admins : \A i \in release[a].batch : OrderOf[i] \in Orders
  PROVE  NothingForgotten' /\ BatchesRead'
  <1>1. NothingForgotten'
      BY DEF NothingForgotten
  <1>2. BatchesRead'
      BY DEF BatchesRead
  <1> QED
      BY <1>1, <1>2

(* Steps that touch neither rows nor credits, and no order's status.         *)
PaymentPart == FulfilmentFollowsPayment /\ CreditBound /\ WithdrawnStays

LEMMA PaymentUntouched ==
  ASSUME PaymentPart, UNCHANGED <<order, status, source, marks>>
  PROVE  PaymentPart'
  BY DEF PaymentPart, FulfilmentFollowsPayment, CreditBound, WithdrawnStays, Void, Upgraded, Paid

(* A withdrawal leaves nothing open and takes no row from its kind.          *)
LEMMA AfterRefundCloses ==
  ASSUME TypeOK, NEW i \in Items
  PROVE  /\ AfterRefund(i) \in StatusesOf(i) /\ AfterRefund(i) \in Statuses
         /\ AfterRefund(i) \notin Open
         /\ status[i] \in Withdrawn \cup {"pending"} => AfterRefund(i) \in Withdrawn
         /\ AfterRefund(i) \in Withdrawn \/ AfterRefund(i) = status[i]
  <1>1. status[i] \in StatusesOf(i)
      BY TypeParts DEF RowsOK
  <1> USE FulfillmentAssumption
      DEF FulfillmentAssumption, AfterRefund, StatusesOf, Statuses, Open, Withdrawn
  <1>2. CASE i \in Access
      BY <1>1, <1>2
  <1>3. CASE i \in Goods
      BY <1>1, <1>3
  <1>4. CASE i \in Services
      BY <1>1, <1>4
  <1> QED
      BY <1>2, <1>3, <1>4 DEF Items

(* What revoke_post_purchase_order and convergeFullRefundFulfillment do.     *)
LEMMA WithdrawRows ==
  ASSUME TypeOK, NEW orders, order' \in [Orders -> OrderStatuses], Withdraw(orders)
  PROVE  /\ RowsOK'
         /\ \A i \in Items : \/ status'[i] = status[i] /\ revision'[i] = revision[i]
                             \/ revision'[i] = revision[i] + 1
         /\ \A i \in Items : status'[i] = IF OrderOf[i] \in orders THEN AfterRefund(i) ELSE status[i]
  <1> DEFINE items == {i \in Items : OrderOf[i] \in orders /\ AfterRefund(i) # status[i]}
             to == [i \in Items |-> AfterRefund(i)]
  <1>1. items \in SUBSET Items /\ to \in [Items -> Statuses] /\ \A i \in items : to[i] \in StatusesOf(i)
      BY AfterRefundCloses
  <1>2. Move(items, to)
      BY DEF Withdraw
  <1>3. \A i \in Items : status'[i] = IF OrderOf[i] \in orders THEN AfterRefund(i) ELSE status[i]
      BY <1>2, TypeParts DEF Move, RowsOK
  <1> HIDE DEF items, to
  <1> QED
      BY <1>1, <1>2, <1>3, MoveRows

(* What a row may do while payments, credits and refunds move: stay where    *)
(* its order stays, be withdrawn where the order is refunded, has lost its   *)
(* credit or is replaced, stay shipped, or be granted where the order is     *)
(* paid.                                                                     *)
Stays(i) ==
    LET o == OrderOf[i] IN
    /\ status'[i] = status[i]
    /\ \/ order'[o] = order[o]
       \/ order'[o] \in Unpaid
       \/ order[o] # "refunded" /\ order'[o] \notin Unpaid /\ order'[o] # "refunded"
    /\ Void(o)' => Void(o)
    /\ Upgraded(o)' => Upgraded(o)

Goes(i) ==
    /\ status'[i] = AfterRefund(i)
    /\ order'[OrderOf[i]] = "refunded" \/ Void(OrderOf[i])' \/ Upgraded(OrderOf[i])'

StaysSent(i) ==
    /\ status'[i] = status[i] /\ status[i] = "shipped"
    /\ order'[OrderOf[i]] = order[OrderOf[i]]
    /\ Void(OrderOf[i])' => Void(OrderOf[i])

Opens(i) ==
    LET o == OrderOf[i] IN
    /\ status[i] = "pending" /\ status'[i] = "granted"
    /\ order'[o] \notin Unpaid /\ order'[o] # "refunded"
    /\ Void(o)' => Void(o)
    /\ Upgraded(o)' => Upgraded(o)

LEMMA PaymentFollows ==
  ASSUME TypeOK, FulfilmentFollowsPayment, WithdrawnStays,
         \A o \in Orders : /\ order'[o] \in Unpaid => order[o] \in Unpaid
                           /\ Void(o) => Void(o)'
                           /\ Upgraded(o) => Upgraded(o)',
         \A i \in Items : Stays(i) \/ Goes(i) \/ StaysSent(i) \/ Opens(i)
  PROVE  FulfilmentFollowsPayment' /\ WithdrawnStays'
  <1> SUFFICES ASSUME NEW i \in Items
               PROVE  /\ order'[OrderOf[i]] \in Unpaid => status'[i] \in Withdrawn \cup {"pending"}
                      /\ order'[OrderOf[i]] = "refunded" => status'[i] \notin Open
                      /\ order'[OrderOf[i]] # "refunded" /\ status'[i] \in Withdrawn
                            => Void(OrderOf[i])' \/ Upgraded(OrderOf[i])'
                      /\ Void(OrderOf[i])' => status'[i] \notin Open
                      /\ Upgraded(OrderOf[i])' => status'[i] \notin Open \/ status'[i] = "shipped"
      BY DEF FulfilmentFollowsPayment, WithdrawnStays
  <1> DEFINE o == OrderOf[i]
  <1>1. o \in Orders
      BY FulfillmentAssumption DEF FulfillmentAssumption
  <1>2. /\ order[o] \in Unpaid => status[i] \in Withdrawn \cup {"pending"}
        /\ order[o] = "refunded" => status[i] \notin Open
        /\ order[o] # "refunded" /\ status[i] \in Withdrawn => Void(o) \/ Upgraded(o)
        /\ Void(o) => status[i] \notin Open
        /\ Upgraded(o) => status[i] \notin Open \/ status[i] = "shipped"
      BY DEF FulfilmentFollowsPayment, WithdrawnStays
  <1>3. /\ order'[o] \in Unpaid => order[o] \in Unpaid
        /\ Void(o) => Void(o)'
        /\ Upgraded(o) => Upgraded(o)'
      BY <1>1
  <1> HIDE DEF o
  <1>4. CASE Stays(i)
      BY <1>2, <1>3, <1>4 DEF Stays, o, Unpaid
  <1>5. CASE Goes(i)
    <2>1. order'[o] = "refunded" \/ Void(o)' \/ Upgraded(o)'
        BY <1>5 DEF Goes, o
    <2>2. status'[i] = AfterRefund(i)
        BY <1>5 DEF Goes
    <2>3. AfterRefund(i) \notin Open /\ (status[i] \in Withdrawn \cup {"pending"} => AfterRefund(i) \in Withdrawn)
        BY AfterRefundCloses
    <2> QED
        BY <1>2, <1>3, <2>1, <2>2, <2>3 DEF o
  <1>6. CASE StaysSent(i)
      BY <1>2, <1>3, <1>6 DEF StaysSent, o, Open, Withdrawn
  <1>7. CASE Opens(i)
      BY <1>2, <1>3, <1>7 DEF Opens, o, Open, Withdrawn
  <1> QED
      BY <1>4, <1>5, <1>6, <1>7

(* The order of an item is one, and the items of a batch are items.          *)
LEMMA OrderTypes ==
  TypeOK => /\ \A i \in Items : OrderOf[i] \in Orders
            /\ \A a \in Admins : \A i \in release[a].batch : i \in Access /\ OrderOf[i] \in Orders
  BY FulfillmentAssumption, TypeParts DEF FulfillmentAssumption, RunsOK, Items

(* The parts of the type invariant, after a step.                            *)
LEMMA TypesNext == RowsOK' /\ CreditsOK' /\ VendorOK' /\ RunsOK' /\ FormsOK' => TypeOK'
  <1> SUFFICES ASSUME RowsOK', CreditsOK', VendorOK', RunsOK', FormsOK' PROVE TypeOK'
      OBVIOUS
  <1>1. /\ \A i \in Access : status'[i] \in {"pending", "granted", "revoked"}
        /\ \A i \in Services : status'[i] \in {"pending", "scheduled", "completed", "cancelled"}
        /\ \A i \in Goods : status'[i] \notin {"granted", "revoked", "scheduled", "completed"}
      BY DEF RowsOK, StatusesOf, Items
  <1> QED
      BY <1>1 DEF TypeOK, RowsOK, CreditsOK, VendorOK, RunsOK, FormsOK, OrderStatuses

(* What steps of payment, credit and refund leave alone, and what they may   *)
(* do to rows and credits, keeps the invariant.                              *)
LEMMA MoneyStep ==
  ASSUME Inv, UNCHANGED <<suspended, lifts, release, owed, form>>,
         RowsOK', CreditsOK', CreditBound',
         \A i \in Items : \/ status'[i] = status[i] /\ revision'[i] = revision[i]
                          \/ revision'[i] = revision[i] + 1,
         \A o \in Orders : /\ order'[o] \in Unpaid => order[o] \in Unpaid
                           /\ Void(o) => Void(o)'
                           /\ Upgraded(o) => Upgraded(o)',
         \A i \in Items : Stays(i) \/ Goes(i) \/ StaysSent(i) \/ Opens(i),
         (Held' \subseteq Held) \/ suspended
  PROVE  Inv'
  <1> USE DEF Inv
  <1>1. TypeOK'
    <2>1. VendorOK' /\ RunsOK' /\ FormsOK'
        BY TypeParts DEF VendorOK, RunsOK, FormsOK
    <2> QED
        BY <2>1, TypesNext
  <1>2. FulfilmentFollowsPayment' /\ WithdrawnStays'
      BY PaymentFollows
  <1>3. NothingForgotten' /\ BatchesRead'
      BY OrderTypes, ReleaseFollows
  <1>4. FormsShowRows'
      BY FormsFollow
  <1> QED
      BY <1>1, <1>2, <1>3, <1>4

(* Checkouts, upgrades and recoveries touch no row, and no paid order.       *)
LEMMA CheckoutKeeps ==
  ASSUME Inv, NEW o \in Orders, Checkout(o) \/ Recover(o) \/ \E s \in Orders : Upgrade(o, s)
  PROVE  Inv'
  <1> USE DEF Inv
  <1>1. /\ RowsOK /\ CreditsOK
        /\ UNCHANGED <<status, revision, marks, suspended, lifts, release, owed, form>>
        /\ order[o] \in Unpaid /\ order' = [order EXCEPT ![o] = "pending_payment"]
      BY TypeParts DEF Checkout, Recover, Upgrade, credits, vendor, Unpaid
  <1>2. \/ source' = source
        \/ \E s \in Orders : Creditable(s) /\ order[o] = "none" /\ source' = [source EXCEPT ![o] = s]
      BY DEF Checkout, Recover, Upgrade, credits
  <1>3. RowsOK' /\ CreditsOK'
      BY <1>1, <1>2 DEF RowsOK, CreditsOK, OrderStatuses, Unpaid
  <1>4. \A p \in Orders : /\ order'[p] = order[p] \/ (order[p] \in Unpaid /\ order'[p] = "pending_payment")
                          /\ order'[p] \in Unpaid => order[p] \in Unpaid
      BY <1>1 DEF RowsOK
  <1>5. \A p \in Orders : Void(p)' <=> Void(p)
      BY <1>1 DEF Void
  <1>6. CreditBound' /\ \A p \in Orders : Upgraded(p)' <=> Upgraded(p)
    <2>1. CASE source' = source
        BY <1>1, <1>4, <2>1 DEF CreditBound, Upgraded, Unpaid
    <2>2. ASSUME NEW s \in Orders, Creditable(s), order[o] = "none", source' = [source EXCEPT ![o] = s]
          PROVE  CreditBound' /\ \A p \in Orders : Upgraded(p)' <=> Upgraded(p)
      <3>1. source[o] = NoOrder /\ marks[o] = {} /\ s # o /\ s # NoOrder
          BY <2>2, FulfillmentAssumption DEF CreditBound, Creditable, FulfillmentAssumption
      <3>2. \A t \in Orders : source[t] = s => "released" \in marks[t]
          BY <2>2 DEF Creditable
      <3>3. \A p \in Orders : source'[p] = IF p = o THEN s ELSE source[p]
          BY <1>1, <2>2 DEF CreditsOK
      <3>4. CreditBound'
        <4>1. \A t \in Orders : order'[t] \in Unpaid <=> order[t] \in Unpaid
            BY <1>1, <1>4 DEF Unpaid
        <4>2. order'[o] # "none" /\ \A t \in Orders : order'[t] = "none" => order[t] = "none" /\ t # o
            BY <1>1 DEF RowsOK
        <4> QED
            BY <1>1, <4>1, <4>2, <2>2, <3>1, <3>2, <3>3 DEF CreditBound
      <3>5. \A p \in Orders : Upgraded(p)' <=> Upgraded(p)
          BY <1>1, <3>1, <3>3 DEF Upgraded
      <3> QED
          BY <3>4, <3>5
    <2> QED
        BY <1>2, <2>1, <2>2
  <1>7. \A i \in Items : Stays(i)
      BY <1>1, <1>4, <1>5, <1>6, OrderTypes DEF Stays, Unpaid
  <1>8. Held' \subseteq Held
      BY <1>1, <1>4, OrderTypes DEF Held, Paid, Unpaid, Items
  <1> QED
      BY <1>1, <1>3, <1>4, <1>5, <1>6, <1>7, <1>8, MoneyStep

(* A credit that is given back leaves nothing of its upgrade.                *)
LEMMA GiveBackKeeps ==
  ASSUME Inv, NEW t \in Orders, GiveBack(t), order' \in [Orders -> OrderStatuses],
         UNCHANGED <<source, suspended, lifts, release, owed, form>>,
         \A p \in Orders : order'[p] = order[p] \/ (p = t /\ order'[p] = "ended"),
         order[t] \in Unpaid, order'[t] \in Unpaid, order'[t] # "none"
  PROVE  Inv'
  <1> USE DEF Inv
  <1>1. RowsOK /\ CreditsOK /\ source[t] # NoOrder /\ marks[t] = {} /\ marks' = [marks EXCEPT ![t] = {"released"}]
      BY TypeParts DEF GiveBack, Bound
  <1>2. /\ RowsOK'
        /\ \A i \in Items : \/ status'[i] = status[i] /\ revision'[i] = revision[i]
                            \/ revision'[i] = revision[i] + 1
        /\ \A i \in Items : status'[i] = IF OrderOf[i] \in {t} THEN AfterRefund(i) ELSE status[i]
    <2>1. Withdraw({t})
        BY DEF GiveBack
    <2> HIDE DEF Inv
    <2> QED
        BY <2>1, WithdrawRows DEF Inv
  <1>3. CreditsOK'
      BY <1>1 DEF CreditsOK
  <1>4. \A p \in Orders : marks'[p] = IF p = t THEN {"released"} ELSE marks[p]
      BY <1>1 DEF CreditsOK
  <1>5. CreditBound'
      BY <1>1, <1>4 DEF CreditBound, Unpaid
  <1>6. /\ Void(t)' /\ ~Void(t)
        /\ \A p \in Orders : p # t => (Void(p)' <=> Void(p))
      BY <1>1, <1>4 DEF Void
  <1>7. \A p \in Orders : Upgraded(p)' <=> Upgraded(p)
      BY <1>1, <1>4 DEF Upgraded
  <1>8. \A p \in Orders : order'[p] \in Unpaid => order[p] \in Unpaid
      OBVIOUS
  <1>9. \A i \in Items : Stays(i) \/ Goes(i)
      BY <1>2, <1>6, <1>7, OrderTypes DEF Stays, Goes
  <1>10. Held' \subseteq Held
    <2> SUFFICES ASSUME NEW i \in Held' PROVE i \in Held
        OBVIOUS
    <2>1. i \in Access /\ i \in Items /\ status'[i] = "pending" /\ order'[OrderOf[i]] \notin Unpaid
        BY DEF Held, Items, Paid, Unpaid
    <2>2. OrderOf[i] \in Orders /\ OrderOf[i] # t
        BY <2>1, OrderTypes
    <2>3. order'[OrderOf[i]] = order[OrderOf[i]] /\ status'[i] = status[i]
        BY <1>2, <2>1, <2>2
    <2> QED
        BY <2>1, <2>3 DEF Held, Paid
  <1> QED
      BY <1>2, <1>3, <1>5, <1>6, <1>7, <1>8, <1>9, <1>10, MoneyStep

(* An order that ends unpaid, or whose recovery is refused.                  *)
LEMMA UnpaidKeeps ==
  ASSUME Inv, NEW o \in Orders, EndUnpaid(o) \/ Lapse(o)
  PROVE  Inv'
  <1> USE DEF Inv
  <1>1. RowsOK /\ CreditsOK /\ UNCHANGED <<source, suspended, lifts, release, owed, form>>
      BY TypeParts DEF EndUnpaid, Lapse, vendor
  <1>2. /\ order' \in [Orders -> OrderStatuses]
        /\ \A p \in Orders : order'[p] = order[p] \/ (p = o /\ order'[p] = "ended")
        /\ order[o] \in Unpaid /\ order'[o] \in Unpaid /\ order'[o] # "none"
      BY <1>1 DEF EndUnpaid, Lapse, RowsOK, OrderStatuses, Unpaid
  <1>3. CASE GiveBack(o)
    <2> HIDE DEF Inv
    <2> QED
        BY <1>1, <1>2, <1>3, GiveBackKeeps
  <1>4. CASE UNCHANGED <<status, revision, marks>>
    <2>1. RowsOK' /\ CreditsOK'
        BY <1>1, <1>2, <1>4 DEF RowsOK, CreditsOK
    <2>2. CreditBound' /\ \A p \in Orders : (Void(p)' <=> Void(p)) /\ (Upgraded(p)' <=> Upgraded(p))
        BY <1>1, <1>2, <1>4 DEF CreditBound, Void, Upgraded, Unpaid
    <2>3. \A p \in Orders : order'[p] \in Unpaid => order[p] \in Unpaid
        BY <1>2
    <2>4. \A i \in Items : Stays(i)
        BY <1>2, <1>4, <2>2, OrderTypes DEF Stays
    <2>5. Held' \subseteq Held
        BY <1>2, <1>4, OrderTypes DEF Held, Paid, Unpaid, Items
    <2> QED
        BY <1>1, <1>4, <2>1, <2>2, <2>3, <2>4, <2>5, MoneyStep
  <1> QED
      BY <1>3, <1>4 DEF EndUnpaid, Lapse

(* A paid callback grants what is pending of its order, or leaves it all     *)
(* pending while the vendor is suspended; the first one of an upgrade        *)
(* withdraws the order it replaces.                                          *)
LEMMA PaidKeeps ==
  ASSUME Inv, NEW o \in Orders, PaidCallback(o)
  PROVE  Inv'
  <1> DEFINE items == Replaced(o) \cup Opened(o)
             to == [i \in Items |-> IF i \in Opened(o) THEN "granted" ELSE AfterRefund(i)]
  <1> USE DEF Inv
  <1>1. /\ RowsOK /\ CreditsOK
        /\ UNCHANGED <<source, suspended, owed, lifts, release, form>>
        /\ order[o] \notin {"none", "refunded"}
      BY TypeParts DEF PaidCallback, vendor
  <1>2. /\ order' \in [Orders -> OrderStatuses]
        /\ \A p \in Orders : p # o => order'[p] = order[p]
        /\ order'[o] \in {"paid", "partially_refunded"}
        /\ order[o] \notin Unpaid => order'[o] = order[o]
      BY <1>1 DEF PaidCallback, RowsOK, OrderStatuses, Unpaid, Paid
  <1>3. /\ marks' = [marks EXCEPT ![o] = IF Settles(o) THEN {"superseded"} ELSE marks[o]]
        /\ Settles(o) => marks[o] = {} /\ source[o] # NoOrder
      BY DEF PaidCallback, Settles, Bound
  <1>4. /\ items \in SUBSET Items
        /\ to \in [Items -> Statuses]
        /\ \A i \in items : to[i] \in StatusesOf(i)
    <2>1. \A i \in Opened(o) : i \in Access /\ i \in Items /\ status[i] = "pending" /\ OrderOf[i] = o
        BY DEF Opened, ItemsOf
    <2>2. \A i \in Items : AfterRefund(i) \in StatusesOf(i) /\ AfterRefund(i) \in Statuses
        BY AfterRefundCloses
    <2> QED
        BY <2>1, <2>2, FulfillmentAssumption
        DEF FulfillmentAssumption, Replaced, StatusesOf, Statuses
  <1>5. Move(items, to)
      BY DEF PaidCallback
  <1>6. \A i \in Items : status'[i] = IF i \in Opened(o) THEN "granted"
                                      ELSE IF i \in Replaced(o) THEN AfterRefund(i) ELSE status[i]
      BY <1>1, <1>5 DEF Move, RowsOK
  <1> HIDE DEF items, to
  <1>7. /\ RowsOK'
        /\ \A i \in Items : \/ status'[i] = status[i] /\ revision'[i] = revision[i]
                            \/ revision'[i] = revision[i] + 1
      BY <1>2, <1>4, <1>5, MoveRows
  <1>8. \A p \in Orders : marks'[p] = IF p = o /\ Settles(o) THEN {"superseded"} ELSE marks[p]
      BY <1>1, <1>3 DEF CreditsOK
  <1>9. CreditsOK'
      BY <1>1, <1>3 DEF CreditsOK
  <1>10. CreditBound'
    <2>1. \A p \in Orders : "released" \in marks'[p] <=> "released" \in marks[p]
        BY <1>3, <1>8
    <2>2. order[o] \notin Unpaid \/ source[o] = NoOrder \/ marks[o] # {} \/ Settles(o)
        BY DEF Settles, Bound
    <2>3. \A p \in Orders : order'[p] \notin Unpaid /\ source'[p] # NoOrder => marks'[p] # {}
        BY <1>1, <1>2, <1>8, <2>2 DEF CreditBound
    <2>4. order'[o] # "none" /\ \A p \in Orders : order'[p] = "none" => order[p] = "none"
        BY <1>2
    <2> QED
        BY <1>1, <1>3, <1>8, <2>1, <2>3, <2>4 DEF CreditBound
  <1>11. \A p \in Orders : Void(p)' <=> Void(p)
      BY <1>3, <1>8 DEF Void
  <1>12. \A p \in Orders : Upgraded(p)' <=> Upgraded(p) \/ (Settles(o) /\ p = source[o])
    <2>1. \A p, t \in Orders : "superseded" \in marks'[t] <=> "superseded" \in marks[t] \/ (t = o /\ Settles(o))
        BY <1>3, <1>8
    <2> QED
        BY <1>1, <2>1 DEF Upgraded
  <1>13. \A p \in Orders : order'[p] \in Unpaid => order[p] \in Unpaid
      BY <1>2 DEF Unpaid
  <1>14. \A i \in Items : Stays(i) \/ Goes(i) \/ StaysSent(i) \/ Opens(i)
    <2> SUFFICES ASSUME NEW i \in Items PROVE Stays(i) \/ Goes(i) \/ StaysSent(i) \/ Opens(i)
        OBVIOUS
    <2>0. OrderOf[i] \in Orders /\ source[o] # o
        BY OrderTypes DEF CreditBound
    <2>1. CASE i \in Opened(o)
      <3>1. OrderOf[i] = o /\ status[i] = "pending" /\ status'[i] = "granted"
          BY <1>6, <2>1 DEF Opened, ItemsOf
      <3> QED
          BY <1>2, <1>11, <1>12, <2>0, <3>1 DEF Opens, Unpaid
    <2>2. CASE i \notin Opened(o) /\ Settles(o) /\ OrderOf[i] = source[o]
      <3>1. Upgraded(OrderOf[i])' /\ order'[OrderOf[i]] = order[OrderOf[i]]
          BY <1>2, <1>12, <2>0, <2>2
      <3>2. CASE status[i] = "shipped"
        <4>1. status'[i] = status[i]
            BY <1>6, <2>2, <3>2 DEF Replaced
        <4> QED
            BY <1>11, <2>0, <3>1, <3>2, <4>1 DEF StaysSent
      <3>3. CASE status[i] # "shipped"
        <4>1. status'[i] = AfterRefund(i)
            BY <1>6, <2>2, <3>3 DEF Replaced
        <4> QED
            BY <3>1, <4>1 DEF Goes
      <3> QED
          BY <3>2, <3>3
    <2>3. CASE i \notin Opened(o) /\ ~(Settles(o) /\ OrderOf[i] = source[o])
      <3>1. status'[i] = status[i]
          BY <1>6, <2>3 DEF Replaced
      <3>2. (Void(OrderOf[i])' => Void(OrderOf[i])) /\ (Upgraded(OrderOf[i])' => Upgraded(OrderOf[i]))
          BY <1>11, <1>12, <2>0, <2>3
      <3>3. \/ order'[OrderOf[i]] = order[OrderOf[i]]
            \/ /\ order[OrderOf[i]] # "refunded"
               /\ order'[OrderOf[i]] \notin Unpaid /\ order'[OrderOf[i]] # "refunded"
          BY <1>1, <1>2, <2>0 DEF Unpaid
      <3> QED
          BY <3>1, <3>2, <3>3 DEF Stays
    <2> QED
        BY <2>1, <2>2, <2>3
  <1>15. (Held' \subseteq Held) \/ suspended
    <2> SUFFICES ASSUME ~suspended, NEW i \in Held' PROVE i \in Held
        OBVIOUS
    <2>1. i \in Items /\ i \in Access /\ OrderOf[i] \in Orders /\ status'[i] = "pending"
        BY OrderTypes DEF Held, Items
    <2>2. i \notin Opened(o) /\ (AfterRefund(i) # "pending" \/ status[i] = "pending")
        BY <1>6, <2>1 DEF AfterRefund
    <2>3. status[i] = "pending"
        BY <1>6, <2>1, <2>2
    <2>4. OrderOf[i] # o
        BY <2>1, <2>2, <2>3 DEF Opened, FulfillmentHeld, ItemsOf
    <2> QED
        BY <1>2, <2>1, <2>3, <2>4 DEF Held, Paid
  <1> QED
      BY <1>1, <1>7, <1>9, <1>10, <1>11, <1>12, <1>13, <1>14, <1>15, MoneyStep

(* A refund withdraws the upgrade its order paid for, and a full one the     *)
(* order itself.                                                             *)
LEMMA RefundKeeps ==
  ASSUME Inv, NEW o \in Orders, PartialRefund(o) \/ FullRefund(o)
  PROVE  Inv'
  <1> USE DEF Inv
  <1>1. /\ RowsOK /\ CreditsOK /\ Paid(o) /\ Invalidate(o)
        /\ UNCHANGED <<source, suspended, owed, lifts, release, form>>
      BY TypeParts DEF PartialRefund, FullRefund, vendor
  <1>2. PICK orders : /\ Withdraw(orders)
                      /\ \/ orders = Funded(o) /\ order' = [order EXCEPT ![o] = "partially_refunded"]
                         \/ orders = Funded(o) \cup {o} /\ order' = [order EXCEPT ![o] = "refunded"]
      BY DEF PartialRefund, FullRefund
  <1>3. /\ order' \in [Orders -> OrderStatuses]
        /\ \A p \in Orders : p # o => order'[p] = order[p]
        /\ order'[o] \in {"partially_refunded", "refunded"}
        /\ order[o] \in {"paid", "partially_refunded"}
        /\ o \in orders => order'[o] = "refunded" \/ o \in Funded(o)
        /\ order'[o] = "refunded" => o \in orders
        /\ \A p \in Orders : p \in Funded(o) => p \in orders
        /\ \A p \in orders : p \in Funded(o) \/ p = o
      BY <1>1, <1>2 DEF RowsOK, OrderStatuses, Paid
  <1>4. /\ RowsOK'
        /\ \A i \in Items : \/ status'[i] = status[i] /\ revision'[i] = revision[i]
                            \/ revision'[i] = revision[i] + 1
        /\ \A i \in Items : status'[i] = IF OrderOf[i] \in orders THEN AfterRefund(i) ELSE status[i]
    <2> HIDE DEF Inv
    <2> QED
        BY <1>2, <1>3, WithdrawRows DEF Inv
  <1>5. \A p \in Orders : marks'[p] = IF p \in Funded(o) THEN marks[p] \cup {"invalidated"} ELSE marks[p]
      BY <1>1 DEF Invalidate
  <1>6. CreditsOK'
      BY <1>1, <1>5 DEF CreditsOK, Invalidate
  <1>7. /\ \A p \in Orders : p \in Funded(o) => source[p] = o /\ "released" \notin marks[p] /\ Void(p)'
        /\ \A p \in Orders : Void(p) => Void(p)'
        /\ \A p \in Orders : p \notin Funded(o) => (Void(p)' => Void(p))
        /\ \A p \in Orders : Upgraded(p)' <=> Upgraded(p)
    <2>1. \A p \in Orders : p \in Funded(o) => source[p] = o /\ "released" \notin marks[p]
        BY DEF Funded
    <2>2. \A p \in Orders : p \in Funded(o) => marks'[p] = marks[p] \cup {"invalidated"}
        BY <1>5
    <2>3. \A p \in Orders : p \notin Funded(o) => marks'[p] = marks[p]
        BY <1>5
    <2>4. \A p \in Orders : p \in Funded(o) => Void(p)'
        BY <2>2 DEF Void
    <2>5. \A p \in Orders : p \notin Funded(o) => (Void(p)' <=> Void(p))
        BY <2>3 DEF Void
    <2>6. \A p \in Orders : "superseded" \in marks'[p] <=> "superseded" \in marks[p]
        BY <2>2, <2>3
    <2>7. \A p \in Orders : Upgraded(p)' <=> Upgraded(p)
        BY <1>1, <2>6 DEF Upgraded
    <2> QED
        BY <2>1, <2>4, <2>5, <2>7
  <1>8. CreditBound'
    <2>1. \A p \in Orders : "released" \in marks'[p] <=> "released" \in marks[p]
      <3>1. \A p \in Orders : p \in Funded(o) => marks'[p] = marks[p] \cup {"invalidated"}
          BY <1>5
      <3>2. \A p \in Orders : p \notin Funded(o) => marks'[p] = marks[p]
          BY <1>5
      <3> QED
          BY <3>1, <3>2
    <2>2. \A p \in Orders : (order'[p] \in Unpaid <=> order[p] \in Unpaid) /\ (order'[p] = "none" <=> order[p] = "none")
        BY <1>3 DEF Unpaid
    <2>3. \A p \in Orders : /\ marks[p] # {} => marks'[p] # {}
                            /\ source[p] = NoOrder => marks'[p] = marks[p]
        BY <1>5, FulfillmentAssumption DEF Funded, FulfillmentAssumption
    <2>4. \A p \in Orders : "released" \in marks[p] => marks'[p] = marks[p]
        BY <1>5 DEF Funded
    <2> QED
        BY <1>1, <2>1, <2>2, <2>3, <2>4 DEF CreditBound
  <1>9. \A p \in Orders : order'[p] \in Unpaid => order[p] \in Unpaid
      BY <1>3 DEF Unpaid
  <1>10. \A i \in Items : Stays(i) \/ Goes(i)
    <2> SUFFICES ASSUME NEW i \in Items PROVE Stays(i) \/ Goes(i)
        OBVIOUS
    <2>0. OrderOf[i] \in Orders
        BY OrderTypes
    <2>1. CASE OrderOf[i] \in orders
      <3>1. order'[OrderOf[i]] = "refunded" \/ Void(OrderOf[i])'
          BY <1>3, <1>7, <2>0, <2>1
      <3> QED
          BY <1>4, <2>1, <3>1 DEF Goes
    <2>2. CASE OrderOf[i] \notin orders
      <3>1. status'[i] = status[i] /\ OrderOf[i] \notin Funded(o)
          BY <1>3, <1>4, <2>0, <2>2
      <3>2. (Void(OrderOf[i])' => Void(OrderOf[i])) /\ (Upgraded(OrderOf[i])' => Upgraded(OrderOf[i]))
          BY <1>7, <2>0, <3>1
      <3>3. \/ order'[OrderOf[i]] = order[OrderOf[i]]
            \/ /\ order[OrderOf[i]] # "refunded"
               /\ order'[OrderOf[i]] \notin Unpaid /\ order'[OrderOf[i]] # "refunded"
          BY <1>3, <2>0, <2>2 DEF Unpaid
      <3> QED
          BY <3>1, <3>2, <3>3 DEF Stays
    <2> QED
        BY <2>1, <2>2
  <1>11. Held' \subseteq Held
    <2> SUFFICES ASSUME NEW i \in Held' PROVE i \in Held
        OBVIOUS
    <2>1. i \in Items /\ i \in Access /\ OrderOf[i] \in Orders /\ status'[i] = "pending"
        BY OrderTypes DEF Held, Items
    <2>2. status[i] = "pending"
        BY <1>4, <2>1 DEF AfterRefund
    <2> QED
        BY <1>3, <2>1, <2>2 DEF Held, Paid
  <1> QED
      BY <1>1, <1>4, <1>6, <1>7, <1>8, <1>9, <1>10, <1>11, MoneyStep

(* Opening, submitting and leaving a form touches no row.                    *)
LEMMA FormKeeps ==
  ASSUME Inv, NEW m \in Merchants,
         \/ \E i \in Items : OpenForm(m, i)
         \/ SubmitForm(m)
         \/ DropForm(m)
  PROVE  Inv'
  <1> USE DEF Inv
  <1>1. UNCHANGED <<order, status, revision, source, marks, suspended, owed, lifts, release>>
      BY DEF OpenForm, SubmitForm, DropForm, rows, credits, vendor
  <1>2. FormsOK' /\ FormsShowRows'
    <2>1. FormsOK /\ RowsOK
        BY TypeParts
    <2>2. CASE \E i \in Items : OpenForm(m, i)
        BY <1>1, <2>1, <2>2 DEF OpenForm, FormsOK, FormsShowRows, RowsOK
    <2>3. CASE SubmitForm(m)
        BY <1>1, <2>1, <2>3 DEF SubmitForm, FormsOK, FormsShowRows
    <2>4. CASE DropForm(m)
        BY <1>1, <2>1, <2>4 DEF DropForm, FormsOK, FormsShowRows, NoForm
    <2> QED
        BY <2>2, <2>3, <2>4
  <1>3. TypeOK'
      BY <1>1, <1>2 DEF TypeOK, FormsOK
  <1>4. NothingForgotten' /\ BatchesRead'
      BY <1>1 DEF NothingForgotten, BatchesRead, Held, Paid
  <1>5. PaymentPart'
      BY <1>1, PaymentUntouched DEF PaymentPart
  <1> QED
      BY <1>2, <1>3, <1>4, <1>5 DEF PaymentPart

(* What a merchant's request may make of a row fits its kind and its order:  *)
(* nothing is withdrawn but goods under review, and what lost its credit or  *)
(* was replaced is not opened again.                                         *)
LEMMA AllowedFits ==
  ASSUME Inv, NEW i \in Items, NEW next \in Statuses, Allowed(i, next)
  PROVE  /\ next \in StatusesOf(i)
         /\ next # "pending"
         /\ order[OrderOf[i]] \notin Unpaid
         /\ order[OrderOf[i]] = "refunded" => next \notin Open
         /\ next \in Withdrawn => status[i] \in Withdrawn
         /\ next \in Open => status[i] \in Open /\ status[i] # "shipped"
         /\ (i \in Access => next = "granted" /\ status[i] = "pending")
  <1> USE FulfillmentAssumption DEF FulfillmentAssumption, Withdrawn, Open, Paid, Unpaid
  <1>1. CASE i \in Access
      BY <1>1 DEF Allowed, Grantable, Shippable, Serviceable, StatusesOf, Statuses
  <1>2. CASE i \in Goods
      BY <1>2 DEF Allowed, Grantable, Shippable, Serviceable, ShippingTransitions, StatusesOf, Statuses
  <1>3. CASE i \in Services
      BY <1>3 DEF Allowed, Grantable, Shippable, Serviceable, ServiceTransitions, StatusesOf, Statuses
  <1> QED
      BY <1>1, <1>2, <1>3 DEF Items

(* A merchant's commit moves the row of its form and closes the form.        *)
LEMMA CommitKeeps ==
  ASSUME Inv, NEW m \in Merchants, CommitForm(m)
  PROVE  Inv'
  <1> DEFINE i == form[m].item
  <1> USE DEF Inv
  <1>1. /\ RowsOK /\ CreditsOK /\ VendorOK /\ RunsOK /\ FormsOK
        /\ UNCHANGED <<order, source, marks, suspended, owed, lifts, release>>
      BY TypeParts DEF CommitForm, credits, vendor
  <1>2. i \in Items /\ form' = [form EXCEPT ![m] = NoForm]
      BY DEF CommitForm, FormsShowRows
  <1> HIDE DEF i
  <1>3. PICK next \in Statuses : Allowed(i, next) /\ Move({i}, All(next))
      BY DEF CommitForm, i
  <1>4. /\ next \in StatusesOf(i)
        /\ next # "pending"
        /\ order[OrderOf[i]] \notin Unpaid
        /\ order[OrderOf[i]] = "refunded" => next \notin Open
        /\ next \in Withdrawn => status[i] \in Withdrawn
        /\ next \in Open => status[i] \in Open /\ status[i] # "shipped"
      BY <1>2, <1>3, AllowedFits
  <1>5. /\ RowsOK'
        /\ \A j \in Items : \/ status'[j] = status[j] /\ revision'[j] = revision[j]
                            \/ revision'[j] = revision[j] + 1
    <2>1. {i} \in SUBSET Items /\ All(next) \in [Items -> Statuses] /\ \A j \in {i} : All(next)[j] \in StatusesOf(j)
        BY <1>2, <1>4 DEF All
    <2>2. order' \in [Orders -> OrderStatuses]
        BY <1>1 DEF RowsOK
    <2> QED
        BY <1>3, <2>1, <2>2, MoveRows
  <1>6. FormsOK' /\ \A n \in Merchants : form'[n] = form[n] \/ form'[n].at = "idle"
      BY <1>1, <1>2 DEF FormsOK, NoForm
  <1>7. TypeOK'
    <2>1. VendorOK' /\ RunsOK' /\ CreditsOK'
        BY <1>1 DEF VendorOK, RunsOK, CreditsOK
    <2> QED
        BY <1>5, <1>6, <2>1, TypesNext
  <1>8. \A j \in Items : status'[j] = IF j = i THEN next ELSE status[j]
      BY <1>2, <1>3 DEF Move, All
  <1>9. PaymentPart'
    <2>1. CreditBound'
        BY <1>1 DEF CreditBound
    <2>2. FulfilmentFollowsPayment'
        BY <1>1, <1>2, <1>4, <1>8 DEF FulfilmentFollowsPayment, Void, Upgraded
    <2>3. WithdrawnStays'
        BY <1>1, <1>2, <1>4, <1>8 DEF WithdrawnStays, Void, Upgraded
    <2> QED
        BY <2>1, <2>2, <2>3 DEF PaymentPart
  <1>10. NothingForgotten' /\ BatchesRead'
    <2>1. Held' \subseteq Held
        BY <1>1, <1>4, <1>8 DEF Held, Paid, Items
    <2> QED
        BY <1>1, <2>1, OrderTypes, ReleaseFollows
  <1>11. FormsShowRows'
      BY <1>5, <1>6, FormsFollow
  <1> QED
      BY <1>7, <1>9, <1>10, <1>11 DEF PaymentPart

(* A suspension begins when no batch is between its read and its commit, and *)
(* is lifted with a release to follow.                                       *)
LEMMA SuspensionKeeps ==
  ASSUME Inv, Suspend \/ \E a \in Admins : Resume(a) \/ ReleaseAgain(a) \/ RunFails(a)
  PROVE  Inv'
  <1> USE DEF Inv
  <1>1. UNCHANGED <<order, status, revision, source, marks, form>>
      BY DEF Suspend, Resume, ReleaseAgain, RunFails, rows, credits
  <1>2. VendorOK'
    <2>1. VendorOK
        BY TypeParts
    <2> QED
        BY <2>1 DEF Suspend, Resume, ReleaseAgain, RunFails, vendor, VendorOK
  <1>3. RunsOK'
    <2>1. RunsOK
        BY TypeParts
    <2> QED
        BY <2>1 DEF Suspend, Resume, ReleaseAgain, RunFails, vendor, RunsOK, EndRun, NoRun
  <1>4. TypeOK'
      BY <1>1, <1>2, <1>3 DEF TypeOK, VendorOK, RunsOK
  <1>5. PaymentPart' /\ FormsShowRows'
      BY <1>1, PaymentUntouched DEF PaymentPart, FormsShowRows
  <1>6. Held' = Held
      BY <1>1 DEF Held, Paid
  <1>7. NothingForgotten'
      BY <1>6 DEF NothingForgotten, Suspend, Resume, ReleaseAgain, RunFails, vendor
  <1>8. BatchesRead'
    <2>1. RunsOK
        BY TypeParts
    <2> QED
        BY <1>1, <1>6, <2>1 DEF BatchesRead, RunsOK, Suspend, Unlocked, Resume, ReleaseAgain, RunFails,
           vendor, EndRun, NoRun
  <1> QED
      BY <1>4, <1>5, <1>7, <1>8 DEF PaymentPart

(* A batch that is read is all that is held, or full.                        *)
LEMMA ReadKeeps ==
  ASSUME Inv, NEW a \in Admins, BatchReads(a)
  PROVE  Inv'
  <1> USE DEF Inv
  <1>1. UNCHANGED <<order, status, revision, source, marks, suspended, lifts, form>>
      BY DEF BatchReads, rows, credits, vendor
  <1>2. owed' = owed \/ (owed' = FALSE /\ Held = {})
      BY DEF BatchReads
  <1>3. \/ release' = [release EXCEPT ![a] = NoRun]
        \/ /\ ~suspended
           /\ \E batch \in SUBSET Held :
                 /\ batch = Held \/ Cardinality(batch) = BatchSize
                 /\ release' = [release EXCEPT ![a].at = "granting", ![a].batch = batch]
      BY DEF BatchReads, EndRun, Run
  <1>4. Held' = Held /\ Held \subseteq Access /\ \A i \in Held : order[OrderOf[i]] \notin Unpaid
      BY <1>1 DEF Held, Paid, Unpaid
  <1>5. TypeOK'
    <2>1. VendorOK'
        BY <1>1, <1>2, TypeParts DEF VendorOK
    <2>2. RunsOK'
      <3>1. RunsOK
          BY TypeParts
      <3> QED
          BY <1>1, <1>3, <1>4, <3>1 DEF RunsOK, NoRun
    <2> QED
        BY <1>1, <2>1, <2>2 DEF TypeOK, VendorOK, RunsOK
  <1>6. PaymentPart' /\ FormsShowRows'
      BY <1>1, PaymentUntouched DEF PaymentPart, FormsShowRows
  <1>7. NothingForgotten'
      BY <1>1, <1>2, <1>4 DEF NothingForgotten
  <1>8. BatchesRead'
    <2>1. RunsOK /\ BatchSize \in Nat
        BY TypeParts, FulfillmentAssumption DEF FulfillmentAssumption
    <2>2. CASE release' = [release EXCEPT ![a] = NoRun]
        BY <1>1, <1>4, <2>1, <2>2 DEF BatchesRead, RunsOK, NoRun
    <2>3. ASSUME ~suspended, NEW batch \in SUBSET Held,
                 batch = Held \/ Cardinality(batch) = BatchSize,
                 release' = [release EXCEPT ![a].at = "granting", ![a].batch = batch]
          PROVE  BatchesRead'
        BY <1>1, <1>4, <2>1, <2>3 DEF BatchesRead, RunsOK
    <2> QED
        BY <1>3, <2>2, <2>3
  <1> QED
      BY <1>5, <1>6, <1>7, <1>8 DEF PaymentPart

(* A batch grants what is pending of it still; after the last one nothing is *)
(* held.                                                                     *)
LEMMA GrantKeeps ==
  ASSUME Inv, NEW a \in Admins, BatchGrants(a)
  PROVE  Inv'
  <1> DEFINE batch == release[a].batch
             items == {i \in batch : status[i] = "pending"}
  <1> USE DEF Inv
  <1>1. /\ RowsOK /\ CreditsOK /\ VendorOK /\ RunsOK /\ FormsOK
        /\ UNCHANGED <<order, source, marks, suspended, lifts, form>>
        /\ release[a].at = "granting" /\ batch \subseteq Access
      BY TypeParts DEF BatchGrants, credits, vendor, RunsOK
  <1>2. Move(items, All("granted"))
      BY DEF BatchGrants, GrantBatch, Grant
  <1>3. /\ ~suspended
        /\ \A i \in batch : order[OrderOf[i]] \notin Unpaid
        /\ Cardinality(batch) < BatchSize => Held \subseteq batch
      BY <1>1 DEF BatchesRead
  <1>4. /\ items \in SUBSET Items /\ All("granted") \in [Items -> Statuses]
        /\ \A i \in items : All("granted")[i] \in StatusesOf(i)
      BY <1>1, FulfillmentAssumption DEF FulfillmentAssumption, All, StatusesOf, Statuses, Items
  <1>5. /\ RowsOK'
        /\ \A i \in Items : \/ status'[i] = status[i] /\ revision'[i] = revision[i]
                            \/ revision'[i] = revision[i] + 1
    <2>1. order' \in [Orders -> OrderStatuses]
        BY <1>1 DEF RowsOK
    <2> QED
        BY <1>2, <1>4, <2>1, MoveRows
  <1>6. \A i \in Items : status'[i] = IF i \in batch /\ status[i] = "pending" THEN "granted" ELSE status[i]
      BY <1>1, <1>2 DEF Move, All, RowsOK
  <1>7. \/ release' = [release EXCEPT ![a] = NoRun] /\ owed' = FALSE /\ Cardinality(batch) < BatchSize
        \/ release' = [release EXCEPT ![a].at = "next", ![a].batch = {}] /\ owed' = owed
      BY DEF BatchGrants, EndRun, Run, LastBatch
  <1> HIDE DEF items, batch
  <1>8. TypeOK'
    <2>1. VendorOK' /\ FormsOK' /\ CreditsOK'
        BY <1>1, <1>7 DEF VendorOK, FormsOK, CreditsOK
    <2>2. RunsOK'
        BY <1>1, <1>7 DEF RunsOK, NoRun
    <2> QED
        BY <1>5, <2>1, <2>2, TypesNext
  <1>9. PaymentPart'
    <2>1. CreditBound' /\ \A o : (Void(o)' <=> Void(o)) /\ (Upgraded(o)' <=> Upgraded(o))
        BY <1>1 DEF CreditBound, Void, Upgraded
    <2>2. \A i \in Items : Stays(i) \/ Opens(i)
      <3> TAKE i \in Items
      <3>1. CASE i \in batch /\ status[i] = "pending"
        <4>1. order[OrderOf[i]] # "refunded"
            BY <3>1 DEF FulfilmentFollowsPayment, Open
        <4> QED
            BY <1>1, <1>3, <1>6, <2>1, <3>1, <4>1 DEF Opens
      <3>2. CASE ~(i \in batch /\ status[i] = "pending")
          BY <1>1, <1>6, <2>1, <3>2 DEF Stays
      <3> QED
          BY <3>1, <3>2
    <2> QED
        BY <1>1, <2>1, <2>2, PaymentFollows DEF PaymentPart
  <1>10. Held' = Held \ batch
      BY <1>1, <1>6 DEF Held, Paid, Items
  <1>11. NothingForgotten'
      BY <1>1, <1>3, <1>7, <1>10 DEF NothingForgotten
  <1>12. BatchesRead'
      BY <1>1, <1>7, <1>10 DEF BatchesRead, RunsOK, NoRun
  <1>13. FormsShowRows'
      BY <1>1, <1>5, FormsFollow
  <1> QED
      BY <1>8, <1>9, <1>11, <1>12, <1>13 DEF PaymentPart

(* Every step keeps the invariant.                                           *)
LEMMA FulfilmentStep == Inv /\ [Next]_vars => Inv'
  <1> SUFFICES ASSUME Inv, [Next]_vars PROVE Inv'
      OBVIOUS
  <1>1. CASE \E o \in Orders : \/ Checkout(o) \/ EndUnpaid(o) \/ Recover(o) \/ Lapse(o)
                             \/ PaidCallback(o) \/ PartialRefund(o) \/ FullRefund(o)
                             \/ \E s \in Orders : Upgrade(o, s)
      BY <1>1, CheckoutKeeps, UnpaidKeeps, PaidKeeps, RefundKeeps
  <1>2. CASE \E m \in Merchants : \/ \E i \in Items : OpenForm(m, i)
                                  \/ SubmitForm(m) \/ CommitForm(m) \/ DropForm(m)
      BY <1>2, FormKeeps, CommitKeeps
  <1>3. CASE Suspend
      BY <1>3, SuspensionKeeps
  <1>4. CASE \E a \in Admins : Resume(a) \/ ReleaseAgain(a) \/ BatchReads(a) \/ BatchGrants(a) \/ RunFails(a)
      BY <1>4, SuspensionKeeps, ReadKeeps, GrantKeeps
  <1>5. CASE UNCHANGED vars
    <2>1. PaymentPart'
        BY <1>5, PaymentUntouched DEF Inv, PaymentPart, vars, rows, credits
    <2> QED
        BY <1>5, <2>1 DEF Inv, PaymentPart, vars, rows, credits, vendor, TypeOK, NothingForgotten,
           FormsShowRows, BatchesRead, Held, Paid
  <1> QED
      BY <1>1, <1>2, <1>3, <1>4, <1>5 DEF Next

(* The invariant holds throughout.                                           *)
LEMMA FulfilmentInvariant == Spec => []Inv
  BY FulfilmentInit, FulfilmentStep, PTL DEF Spec

(* No mix of callbacks, refunds, forms and releases takes a row to a status  *)
(* of another kind of item.                                                  *)
THEOREM FulfilmentTyping == Spec => []TypeOK
  BY FulfilmentInvariant, PTL DEF Inv

(* Nothing is begun before payment, nothing is open after a full refund, and *)
(* nothing is withdrawn without a refund, a replacement or a lost credit     *)
(* (commerce-orders.ts, convergeFullRefundFulfillment; the triggers of       *)
(* 20261018090000_post_purchase_recovery_guard).                             *)
THEOREM PaymentFollowed == Spec => []FulfilmentFollowsPayment
  BY FulfilmentInvariant, PTL DEF Inv

(* The money of one order is delivered once: of an order and its upgrades    *)
(* one at most is being delivered, whatever is released, recovered, refunded *)
(* or paid late (settle_paid_post_purchase_target).                          *)
THEOREM NothingTwice == Spec => []DeliveredOnce
  <1>1. Inv => DeliveredOnce
    <2> SUFFICES ASSUME Inv, NEW s \in Orders PROVE
                   /\ Void(s) => \A i \in ItemsOf(s) : status[i] \notin Open
                   /\ \A o, p \in Family(s) : Delivering(o) /\ Delivering(p) => o = p
        BY DEF DeliveredOnce
    <2> USE DEF Inv
    <2>1. \A o \in Orders : Delivering(o) =>
             /\ ~Void(o) /\ ~Upgraded(o)
             /\ source[o] # NoOrder => "superseded" \in marks[o] /\ "released" \notin marks[o]
      <3> SUFFICES ASSUME NEW o \in Orders, Delivering(o)
                   PROVE  /\ ~Void(o) /\ ~Upgraded(o)
                          /\ source[o] # NoOrder => "superseded" \in marks[o] /\ "released" \notin marks[o]
          OBVIOUS
      <3>1. PICK i \in Items : OrderOf[i] = o /\ status[i] \in {"granted", "packing", "scheduled"}
          BY DEF Delivering, ItemsOf
      <3>2. ~Void(o) /\ ~Upgraded(o)
          BY <3>1 DEF WithdrawnStays, Open
      <3>3. order[o] \notin Unpaid
          BY <3>1 DEF FulfilmentFollowsPayment, Withdrawn
      <3>4. source[o] # NoOrder => marks[o] # {}
          BY <3>3 DEF CreditBound
      <3>5. marks[o] \in SUBSET {"released", "invalidated", "superseded"}
          BY TypeParts DEF CreditsOK
      <3> QED
          BY <3>2, <3>4, <3>5 DEF Void
    <2>2. \A t \in Orders : source[t] = s /\ Delivering(t) => Upgraded(s)
        BY <2>1, FulfillmentAssumption DEF FulfillmentAssumption, Upgraded
    <2>3. ASSUME NEW o \in Family(s), NEW p \in Family(s), Delivering(o), Delivering(p), o # p
          PROVE  FALSE
      <3>1. CASE source[o] = s /\ source[p] = s /\ o \in Orders /\ p \in Orders
          BY <2>1, <2>3, <3>1, FulfillmentAssumption DEF FulfillmentAssumption, CreditBound
      <3>2. CASE o = s \/ p = s
          BY <2>1, <2>2, <2>3, <3>2 DEF Family
      <3> QED
          BY <3>1, <3>2 DEF Family
    <2>4. Void(s) => \A i \in ItemsOf(s) : status[i] \notin Open
        BY DEF WithdrawnStays, ItemsOf
    <2> QED
        BY <2>3, <2>4
  <1> QED
      BY <1>1, FulfilmentInvariant, PTL

(* A completed release leaves nothing held, for any batch size and any       *)
(* number of overlapping runs (vendor-suspension.ts, releaseHeldBatch).      *)
THEOREM ReleaseComplete == Spec => []NothingForgotten
  BY FulfilmentInvariant, PTL DEF Inv

(* No entitlement opens during a suspension but by a request admitted before *)
(* (commerce-orders.ts, vendorFulfillmentHeld).                              *)
THEOREM SuspensionHolds == Spec => NothingOpensSuspended
  <1> DEFINE Step == \A i \in Access :
          (suspended /\ status[i] = "pending" /\ status'[i] = "granted")
              => \E m \in Merchants : form[m].at = "admitted" /\ form[m].item = i
  <1>1. Inv /\ [Next]_vars => Step
    <2> SUFFICES ASSUME Inv, [Next]_vars, NEW i \in Access,
                        suspended, status[i] = "pending", status'[i] = "granted"
                 PROVE  \E m \in Merchants : form[m].at = "admitted" /\ form[m].item = i
        OBVIOUS
    <2> USE DEF Inv
    <2>1. i \in Items /\ RowsOK
        BY TypeParts DEF Items
    <2>2. ASSUME NEW o \in Orders, PaidCallback(o) PROVE FALSE
      <3>1. Opened(o) = {}
          BY DEF Opened, FulfillmentHeld
      <3>2. status'[i] = status[i] \/ status'[i] = AfterRefund(i)
          BY <2>1, <2>2, <3>1 DEF PaidCallback, Move
      <3> QED
          BY <3>2 DEF AfterRefund
    <2>3. ASSUME NEW orders, Withdraw(orders) PROVE FALSE
      <3>1. status'[i] = status[i] \/ status'[i] = AfterRefund(i)
          BY <2>1, <2>3 DEF Withdraw, Move
      <3> QED
          BY <3>1 DEF AfterRefund
    <2>4. ASSUME NEW m \in Merchants, CommitForm(m)
          PROVE  form[m].at = "admitted" /\ form[m].item = i
        BY <2>1, <2>4 DEF CommitForm, Move
    <2>5. ASSUME NEW a \in Admins, BatchGrants(a) PROVE FALSE
        BY <2>5 DEF BatchGrants, BatchesRead
    <2>6. CASE UNCHANGED status
        BY <2>6
    <2> QED
      <3>1. CASE \E m \in Merchants : (\E j \in Items : OpenForm(m, j)) \/ SubmitForm(m) \/ DropForm(m)
          BY <3>1, <2>6 DEF OpenForm, SubmitForm, DropForm, rows
      <3>2. CASE Suspend \/ \E a \in Admins : Resume(a) \/ ReleaseAgain(a) \/ BatchReads(a) \/ RunFails(a)
          BY <3>2, <2>6 DEF Suspend, Resume, ReleaseAgain, BatchReads, RunFails, rows
      <3>3. CASE UNCHANGED vars
          BY <3>3, <2>6 DEF vars, rows
      <3>4. CASE \E o \in Orders : PartialRefund(o) \/ FullRefund(o) \/ EndUnpaid(o) \/ Lapse(o)
          BY <3>4, <2>3, <2>6 DEF PartialRefund, FullRefund, EndUnpaid, Lapse, GiveBack
      <3>5. CASE \E o \in Orders : Checkout(o) \/ Recover(o) \/ \E s \in Orders : Upgrade(o, s)
          BY <3>5, <2>6 DEF Checkout, Recover, Upgrade
      <3> QED
          BY <2>2, <2>4, <2>5, <3>1, <3>2, <3>3, <3>4, <3>5 DEF Next
  <1> QED
      BY <1>1, FulfilmentInvariant, PTL DEF Spec, NothingOpensSuspended

(* A decision made on a page is applied only to the row the page showed      *)
(* (commerce-order-fulfillment.ts, the three handlers).                      *)
THEOREM DecisionsFit == Spec => DecidedOnWhatWasShown
  <1> DEFINE Step == \A m \in Merchants :
          (form[m].at = "admitted" /\ form'[m] # form[m] /\ status' # status)
              => status[form[m].item] = form[m].saw
  <1>1. Inv /\ [Next]_vars => Step
    <2> SUFFICES ASSUME Inv, [Next]_vars, NEW m \in Merchants,
                        form[m].at = "admitted", form'[m] # form[m], status' # status
                 PROVE  status[form[m].item] = form[m].saw
        OBVIOUS
    <2> USE DEF Inv
    <2>1. CASE CommitForm(m)
        BY <2>1 DEF CommitForm, FormsShowRows
    <2>2. ASSUME NEW n \in Merchants, CommitForm(n), n # m PROVE FALSE
        BY <2>2, TypeParts DEF CommitForm, FormsOK
    <2>3. CASE UNCHANGED form \/ UNCHANGED status
        BY <2>3
    <2> QED
      <3>1. CASE \E o \in Orders : \/ Checkout(o) \/ EndUnpaid(o) \/ Recover(o) \/ Lapse(o)
                                 \/ PaidCallback(o) \/ PartialRefund(o) \/ FullRefund(o)
                                 \/ \E s \in Orders : Upgrade(o, s)
          BY <3>1, <2>3 DEF Checkout, EndUnpaid, Recover, Lapse, PaidCallback, PartialRefund,
             FullRefund, Upgrade
      <3>2. CASE \E n \in Merchants : (\E j \in Items : OpenForm(n, j)) \/ SubmitForm(n) \/ DropForm(n)
          BY <3>2, <2>3 DEF OpenForm, SubmitForm, DropForm, rows
      <3>3. CASE Suspend \/ \E a \in Admins : Resume(a) \/ ReleaseAgain(a) \/ BatchReads(a) \/ BatchGrants(a) \/ RunFails(a)
          BY <3>3, <2>3 DEF Suspend, Resume, ReleaseAgain, BatchReads, BatchGrants, RunFails
      <3>4. CASE UNCHANGED vars
          BY <3>4, <2>3 DEF vars
      <3> QED
          BY <2>1, <2>2, <3>1, <3>2, <3>3, <3>4 DEF Next
  <1> QED
      BY <1>1, FulfilmentInvariant, PTL DEF Spec, DecidedOnWhatWasShown
=============================================================================
