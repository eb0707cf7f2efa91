------------------------- MODULE CheckoutInventoryProofs -------------------------
(***************************************************************************)
(* Proofs about CheckoutInventory, for any payments, products, carts and    *)
(* bounds.                                                                  *)
(***************************************************************************)
EXTENDS CheckoutInventory, FiniteSetTheorems, TLAPS

(* Every variable keeps its type: stock never goes below zero and every row  *)
(* status is one the code writes.                                            *)
LEMMA TypingInit == Init => TypeOK
  BY CheckoutAssumption
  DEF Init, TypeOK, CheckoutAssumption, PaymentStatus, OrderStatus, Holding,
      RecoverableReasons

StockRowsOK ==
    /\ stock \in [Products -> Nat]
    /\ reservation \in [Payments -> {"none", "released"} \cup Holding]
    /\ releaseReason \in [Payments -> {"none", "full_refund"} \cup RecoverableReasons]

(* Releasing a reservation keeps the types of the rows it writes.            *)
LEMMA ReleaseTyping ==
  ASSUME TypeOK, NEW p \in Payments,
         NEW reason \in {"full_refund"} \cup RecoverableReasons,
         ReleaseReservation(p, reason)
  PROVE  StockRowsOK'
  <1>1. CASE reservation[p] \in Holding
    <2>1. stock' \in [Products -> Nat]
        BY <1>1 DEF TypeOK, ReleaseReservation, ReturnStock
    <2> QED
        BY <1>1, <2>1 DEF TypeOK, StockRowsOK, ReleaseReservation
  <1>2. CASE reservation[p] \notin Holding
      BY <1>2 DEF TypeOK, StockRowsOK, ReleaseReservation
  <1> QED
      BY <1>1, <1>2

(* Every action writes values of the types of its columns.                  *)
LEMMA TypingStep == TypeOK /\ [Next]_vars => TypeOK'
  <1> SUFFICES ASSUME TypeOK, [Next]_vars PROVE TypeOK'
      OBVIOUS
  <1> USE CheckoutAssumption
      DEF CheckoutAssumption, TypeOK, PaymentStatus, OrderStatus, Holding,
          RecoverableReasons, UnissuedReasons, recorderVars, jobVars, merchantVars
  <1>1. ASSUME NEW p \in Payments, Reserve(p) PROVE TypeOK'
      BY <1>1 DEF Reserve, InStock, TakeStock
  <1>2. ASSUME NEW p \in Payments, CreateSession(p) PROVE TypeOK'
      BY <1>2 DEF CreateSession, rowVars, productVars
  <1>3. ASSUME NEW p \in Payments, StoreSession(p) PROVE TypeOK'
      BY <1>3 DEF StoreSession, productVars
  <1>4. ASSUME NEW p \in Payments, StoreSessionFails(p) PROVE TypeOK'
      BY <1>4 DEF StoreSessionFails, rowVars, productVars
  <1>5. ASSUME NEW p \in Payments, FailPendingCheckout(p) PROVE TypeOK'
    <2>1. CASE payment[p] = "pending"
      <3>1. StockRowsOK'
          BY <1>5, <2>1, ReleaseTyping DEF FailPendingCheckout
      <3>2. order' \in [Payments -> OrderStatus]
          BY <1>5, <2>1 DEF FailPendingCheckout
      <3>3. payment' \in [Payments -> PaymentStatus]
          BY <1>5, <2>1 DEF FailPendingCheckout
      <3> QED
          BY <1>5, <2>1, <3>1, <3>2, <3>3, SMTT(30) DEF FailPendingCheckout, StockRowsOK
    <2>2. CASE payment[p] # "pending"
        BY <1>5, <2>2 DEF FailPendingCheckout
    <2> QED
        BY <2>1, <2>2
  <1>6. ASSUME NEW p \in Payments, CheckoutDies(p) PROVE TypeOK'
      BY <1>6 DEF CheckoutDies, rowVars, productVars
  <1>7. ASSUME NEW p \in Payments, ResumeCheckout(p) PROVE TypeOK'
      BY <1>7 DEF ResumeCheckout, InStock, TakeStock
  <1>8. ASSUME NEW p \in Payments, Capture(p) PROVE TypeOK'
      BY <1>8 DEF Capture, rowVars, productVars
  <1>9. ASSUME NEW p \in Payments, PaidWebhook(p) PROVE TypeOK'
      BY <1>9 DEF PaidWebhook, CommitInventory, InStock, TakeStock, OrderPaid
  <1>10. ASSUME NEW p \in Payments, FailedWebhook(p) PROVE TypeOK'
    <2>1. StockRowsOK'
        BY <1>10, ReleaseTyping DEF FailedWebhook, StockRowsOK
    <2> QED
        BY <1>10, <2>1 DEF FailedWebhook, StockRowsOK
  <1>11. ASSUME NEW p \in Payments, NEW event \in RefundEvents, RefundBooked(p, event)
         PROVE  TypeOK'
    <2>1. StockRowsOK'
        BY <1>11, ReleaseTyping DEF RefundBooked, StockRowsOK
    <2> QED
        BY <1>11, <2>1 DEF RefundBooked, StockRowsOK, ResolvePaymentStatus, RefundEvents, Refundable
  <1>12. ASSUME NEW p \in Payments, RecorderReads(p) PROVE TypeOK'
      BY <1>12 DEF RecorderReads, rowVars, productVars
  <1>13. ASSUME NEW p \in Payments, RecorderCreatesEvent(p) PROVE TypeOK'
      BY <1>13 DEF RecorderCreatesEvent, rowVars, productVars
  <1>14. ASSUME NEW p \in Payments, RecorderHolds(p) PROVE TypeOK'
      BY <1>14 DEF RecorderHolds, productVars
  <1>15. ASSUME NEW p \in Payments, RecorderDies(p) PROVE TypeOK'
      BY <1>15 DEF RecorderDies, rowVars, productVars
  <1>16. ASSUME NEW p \in Payments, CleanupRow(p) PROVE TypeOK'
    <2>1. StockRowsOK'
      <3>1. CASE ReleaseReservation(p, "expired")
          BY <3>1, ReleaseTyping
      <3>2. CASE ~ReleaseReservation(p, "expired")
          BY <1>16, <3>2 DEF CleanupRow, StockRowsOK
      <3> QED
          BY <3>1, <3>2
    <2>2. order' \in [Payments -> OrderStatus]
        BY <1>16 DEF CleanupRow, OrderPaid, ExpireOrder
    <2>3. /\ payment' \in [Payments -> PaymentStatus]
          /\ expiryRecorded' \in [Payments -> BOOLEAN]
        BY <1>16 DEF CleanupRow, ExpireOrder
    <2> QED
        BY <1>16, <2>1, <2>2, <2>3 DEF CleanupRow, StockRowsOK
  <1>17. CASE StartCleanup
      BY <1>17 DEF StartCleanup, OldestRows, ExpiredRows, rowVars, productVars
  <1>18. CASE CutCleanup
      BY <1>18 DEF CutCleanup, rowVars, productVars
  <1>19. CASE Tick
      BY <1>19 DEF Tick, rowVars, productVars
  <1>20. ASSUME NEW x \in Products, OpenForm(x) PROVE TypeOK'
      BY <1>20 DEF OpenForm, rowVars, productVars
  <1>21. ASSUME NEW x \in Products, NEW typed \in 0..MaxStock, NEW onSale \in BOOLEAN,
                SaveForm(x, typed, onSale)
         PROVE  TypeOK'
      BY <1>21 DEF SaveForm, rowVars
  <1>22. CASE UNCHANGED vars
      BY <1>22 DEF vars, rowVars, productVars
  <1> HIDE DEF TypeOK
  <1> QED
      BY <1>1, <1>2, <1>3, <1>4, <1>5, <1>6, <1>7, <1>8, <1>9, <1>10, <1>11,
         <1>12, <1>13, <1>14, <1>15, <1>16, <1>17, <1>18, <1>19, <1>20, <1>21, <1>22 DEF Next

(* The code keeps every row well-typed; stock in particular is never        *)
(* negative, whatever mix of requests, callbacks, forms and jobs moves it.  *)
THEOREM Typing == Spec => []TypeOK
  BY TypingInit, TypingStep, PTL DEF Spec

-----------------------------------------------------------------------------
(* The reservation of a payment follows its status: stock is reserved while  *)
(* the payment is pending, committed while money of it is kept, and released *)
(* once it failed, expired or was refunded.                                  *)
RowsAgree ==
    \A p \in Payments :
        /\ payment[p] = "none" <=> reservation[p] = "none"
        /\ payment[p] = "pending" <=> reservation[p] = "reserved"
        /\ payment[p] \in Refundable <=> reservation[p] = "committed"

(* Before any checkout a payment has no reservation.                        *)
LEMMA RowsAgreeInit == Init => RowsAgree
  BY DEF Init, RowsAgree, Refundable

(* The steps that write a payment, an order or a reservation.                *)
RowStep(p) ==
    \/ Reserve(p) \/ FailPendingCheckout(p) \/ ResumeCheckout(p)
    \/ PaidWebhook(p) \/ FailedWebhook(p) \/ CleanupRow(p)
    \/ \E event \in RefundEvents : RefundBooked(p, event)

(* Every other step leaves those rows alone, and only a merchant writes stock*)
(* outside of them.                                                          *)
LEMMA OtherSteps ==
  ASSUME [Next]_vars
  PROVE  \/ \E p \in Payments : RowStep(p)
         \/ UNCHANGED <<payment, order, reservation, expiryRecorded, stock, supply>>
         \/ /\ UNCHANGED <<payment, order, reservation, expiryRecorded>>
            /\ \E x \in Products, typed \in 0..MaxStock, onSale \in BOOLEAN :
                  SaveForm(x, typed, onSale)
  <1> USE DEF rowVars, productVars, merchantVars
  <1>1. ASSUME NEW p \in Payments, CreateSession(p) \/ StoreSession(p) \/ StoreSessionFails(p)
                                   \/ CheckoutDies(p) \/ Capture(p)
        PROVE  UNCHANGED <<payment, order, reservation, expiryRecorded, stock, supply>>
      BY <1>1 DEF CreateSession, StoreSession, StoreSessionFails, CheckoutDies, Capture
  <1>2. ASSUME NEW p \in Payments, RecorderReads(p) \/ RecorderCreatesEvent(p)
                                   \/ RecorderHolds(p) \/ RecorderDies(p)
        PROVE  UNCHANGED <<payment, order, reservation, expiryRecorded, stock, supply>>
      BY <1>2 DEF RecorderReads, RecorderCreatesEvent, RecorderHolds, RecorderDies
  <1>3. ASSUME StartCleanup \/ CutCleanup \/ Tick \/ \E x \in Products : OpenForm(x)
        PROVE  UNCHANGED <<payment, order, reservation, expiryRecorded, stock, supply>>
      BY <1>3 DEF StartCleanup, CutCleanup, Tick, OpenForm
  <1>4. ASSUME NEW x \in Products, NEW typed \in 0..MaxStock, NEW onSale \in BOOLEAN,
               SaveForm(x, typed, onSale)
        PROVE  UNCHANGED <<payment, order, reservation, expiryRecorded>>
      BY <1>4 DEF SaveForm
  <1>5. CASE UNCHANGED vars
      BY <1>5 DEF vars
  <1> QED
      BY <1>1, <1>2, <1>3, <1>4, <1>5 DEF Next, RowStep

(* Which payments an event can move.                                         *)
LEMMA EventApplies ==
  ASSUME TypeOK, NEW p \in Payments
  PROVE  /\ Applies(p, "failed") => payment[p] \in {"pending", "failed"}
         /\ Applies(p, "paid") => payment[p] \in {"pending", "paid", "failed", "expired"}
  BY DEF TypeOK, PaymentStatus, Applies, ResolvePaymentStatus, RefundEvents

(* Every transaction moves payment and reservation together.                *)
LEMMA RowsAgreeStep == TypeOK /\ RowsAgree /\ [Next]_vars => RowsAgree'
  <1> SUFFICES ASSUME TypeOK, RowsAgree, [Next]_vars PROVE RowsAgree'
      OBVIOUS
  <1> USE DEF RowsAgree, TypeOK, PaymentStatus, Refundable, Holding
  <1>1. CASE UNCHANGED <<payment, reservation>>
      BY <1>1
  <1>2. ASSUME NEW p \in Payments, Reserve(p) PROVE RowsAgree'
      BY <1>2 DEF Reserve
  <1>3. ASSUME NEW p \in Payments, FailPendingCheckout(p) PROVE RowsAgree'
      BY <1>3 DEF FailPendingCheckout, ReleaseReservation
  <1>4. ASSUME NEW p \in Payments, ResumeCheckout(p) PROVE RowsAgree'
      BY <1>4 DEF ResumeCheckout
  <1>5. ASSUME NEW p \in Payments, PaidWebhook(p) PROVE RowsAgree'
      BY <1>5 DEF PaidWebhook, CommitInventory
  <1>6. ASSUME NEW p \in Payments, FailedWebhook(p) PROVE RowsAgree'
      BY <1>6, EventApplies DEF FailedWebhook, ReleaseReservation
  <1>7. ASSUME NEW p \in Payments, NEW event \in RefundEvents, RefundBooked(p, event)
        PROVE  RowsAgree'
      BY <1>7 DEF RefundBooked, ReleaseReservation, ResolvePaymentStatus, RefundEvents
  <1>8. ASSUME NEW p \in Payments, CleanupRow(p) PROVE RowsAgree'
      BY <1>8 DEF CleanupRow, StillDue, ReleaseReservation
  <1> QED
      BY <1>1, <1>2, <1>3, <1>4, <1>5, <1>6, <1>7, <1>8, OtherSteps DEF RowStep

-----------------------------------------------------------------------------
(* Every step is a step of the stock ledger or leaves it alone.              *)
LEMMA LedgerInit == Init => Ledger!Init
  BY DEF Init, Ledger!Init, Deal

(* A step that leaves the ledger's variables alone is a stutter of it.      *)
LEMMA LedgerStutter ==
  ASSUME UNCHANGED <<payment, reservation, stock, supply>>
  PROVE  UNCHANGED Ledger!vars
  BY DEF Ledger!vars, Deal

(* What the abstract deal of a payment is, and how it changes when one row   *)
(* changes.                                                                  *)
LEMMA DealChange ==
  ASSUME NEW p \in Payments, NEW status, NEW state,
         payment \in [Payments -> PaymentStatus],
         payment' \in [Payments -> PaymentStatus],
         payment' = [payment EXCEPT ![p] = status],
         reservation \in [Payments -> {"none", "released"} \cup Holding],
         reservation' = [reservation EXCEPT ![p] = state]
  PROVE  Deal' = [Deal EXCEPT ![p] =
                     CASE status = "refunded" -> "refunded"
                       [] status # "refunded" /\ state = "committed" -> "sold"
                       [] status # "refunded" /\ state = "reserved" -> "held"
                       [] OTHER -> "none"]
  BY DEF Deal

(* Every transaction is one step of the abstract sale, or none.             *)
LEMMA LedgerStep ==
  TypeOK /\ RowsAgree /\ [Next]_vars => [Ledger!Next]_(Ledger!vars)
  <1> SUFFICES ASSUME TypeOK, RowsAgree, [Next]_vars
               PROVE  Ledger!Next \/ UNCHANGED Ledger!vars
      OBVIOUS
  <1>0. TypeOK'
      BY TypingStep
  <1>a. \A p \in Payments : Cart[p] \subseteq Products
      BY CheckoutAssumption DEF CheckoutAssumption
  <1>b. /\ payment \in [Payments -> PaymentStatus]
        /\ payment' \in [Payments -> PaymentStatus]
        /\ reservation \in [Payments -> {"none", "released"} \cup Holding]
      BY <1>0 DEF TypeOK
  <1>c. \A p \in Payments :
          /\ Deal[p] = "none" <=> payment[p] \in {"none", "failed", "expired"}
          /\ Deal[p] = "held" <=> reservation[p] = "reserved"
          /\ Deal[p] = "sold" <=> reservation[p] = "committed"
      BY <1>b DEF RowsAgree, Deal, PaymentStatus, Holding, Refundable
  <1>1. ASSUME NEW p \in Payments, Reserve(p) \/ ResumeCheckout(p)
        PROVE  Ledger!Hold(p)
    <2>1. Deal[p] = "none"
        BY <1>1, <1>c DEF Reserve, ResumeCheckout
    <2>2. /\ payment' = [payment EXCEPT ![p] = "pending"]
          /\ reservation' = [reservation EXCEPT ![p] = "reserved"]
        BY <1>1 DEF Reserve, ResumeCheckout
    <2>3. Deal' = [Deal EXCEPT ![p] = "held"]
        BY <1>b, <2>2, DealChange
    <2> QED
        BY <1>1, <2>1, <2>3
        DEF Reserve, ResumeCheckout, InStock, TakeStock, merchantVars,
            Ledger!Hold, Ledger!Take
  <1>2. ASSUME NEW p \in Payments, NEW status \in {"failed", "expired"}, NEW reason,
               payment[p] = "pending",
               payment' = [payment EXCEPT ![p] = status],
               ReleaseReservation(p, reason),
               UNCHANGED supply
        PROVE  Ledger!Release(p)
    <2>1. Deal[p] = "held" /\ reservation[p] = "reserved"
        BY <1>2, <1>c DEF RowsAgree
    <2>2. /\ reservation' = [reservation EXCEPT ![p] = "released"]
          /\ ReturnStock(Cart[p])
        BY <1>2, <2>1 DEF ReleaseReservation, Holding
    <2>3. Deal' = [Deal EXCEPT ![p] = "none"]
      <3>1. status # "refunded"
          BY <1>2
      <3> QED
          BY <1>b, <1>2, <2>2, <3>1 DEF Deal
    <2> QED
        BY <1>2, <2>1, <2>2, <2>3 DEF ReturnStock, Ledger!Release, Ledger!PutBack
  <1>3. ASSUME NEW p \in Payments, FailPendingCheckout(p)
        PROVE  Ledger!Release(p) \/ UNCHANGED Ledger!vars
    <2>1. CASE payment[p] = "pending"
        BY <1>2, <1>3, <2>1 DEF FailPendingCheckout, merchantVars
    <2>2. CASE payment[p] # "pending"
        BY <1>3, <2>2, LedgerStutter DEF FailPendingCheckout, merchantVars
    <2> QED
        BY <2>1, <2>2
  <1>4. ASSUME NEW p \in Payments, FailedWebhook(p)
        PROVE  Ledger!Release(p) \/ UNCHANGED Ledger!vars
    <2>1. CASE payment[p] = "pending"
      <3>1. reservation[p] = "reserved"
          BY <2>1 DEF RowsAgree
      <3> QED
          BY <1>2, <1>4, <2>1, <3>1 DEF FailedWebhook, merchantVars
    <2>2. CASE payment[p] = "failed"
      <3>1. reservation[p] # "reserved"
          BY <2>2 DEF RowsAgree
      <3>2. payment' = payment
          BY <1>4, <1>b, <2>2 DEF FailedWebhook
      <3> QED
          BY <1>4, <3>1, <3>2, LedgerStutter DEF FailedWebhook, merchantVars
    <2> QED
        BY <1>4, <2>1, <2>2, EventApplies DEF FailedWebhook
  <1>5. ASSUME NEW p \in Payments, PaidWebhook(p)
        PROVE  Ledger!Sell(p) \/ UNCHANGED Ledger!vars
    <2>1. /\ payment' = [payment EXCEPT ![p] = "paid"]
          /\ reservation' = [reservation EXCEPT ![p] = "committed"]
          /\ payment[p] \in {"pending", "paid", "failed", "expired"}
        BY <1>5, EventApplies DEF PaidWebhook, CommitInventory
    <2>2. Deal' = [Deal EXCEPT ![p] = "sold"]
        BY <1>b, <2>1, DealChange
    <2>3. CASE payment[p] = "paid"
      <3>1. reservation[p] = "committed"
          BY <2>3 DEF RowsAgree, Refundable
      <3>2. payment' = payment /\ reservation' = reservation
          BY <1>b, <2>1, <2>3, <3>1
      <3> QED
          BY <1>5, <3>1, <3>2, LedgerStutter
          DEF PaidWebhook, CommitInventory, Holding, merchantVars
    <2>4. CASE payment[p] = "pending"
      <3>1. reservation[p] = "reserved" /\ Deal[p] = "held"
          BY <1>c, <2>4 DEF RowsAgree
      <3> QED
          BY <1>5, <2>2, <3>1
          DEF PaidWebhook, CommitInventory, Holding, merchantVars, Ledger!Sell
    <2>5. CASE payment[p] \in {"failed", "expired"}
      <3>1. reservation[p] \notin Holding /\ Deal[p] = "none"
          BY <1>c, <2>5 DEF RowsAgree, Holding, Refundable
      <3> QED
          BY <1>5, <2>2, <3>1
          DEF PaidWebhook, CommitInventory, InStock, TakeStock, merchantVars,
              Ledger!Sell, Ledger!Take
    <2> QED
        BY <2>1, <2>3, <2>4, <2>5
  <1>6. ASSUME NEW p \in Payments, NEW event \in RefundEvents, RefundBooked(p, event)
        PROVE  Ledger!Refund(p) \/ UNCHANGED Ledger!vars
    <2>1. payment[p] \in Refundable /\ reservation[p] = "committed" /\ Deal[p] = "sold"
        BY <1>6, <1>c DEF RefundBooked, RowsAgree
    <2>2. CASE event = "refunded"
      <3>1. /\ payment' = [payment EXCEPT ![p] = "refunded"]
            /\ reservation' = [reservation EXCEPT ![p] = "released"]
            /\ ReturnStock(Cart[p])
          BY <1>6, <2>1, <2>2
          DEF RefundBooked, ReleaseReservation, Holding, Refundable, RefundEvents,
              ResolvePaymentStatus
      <3>2. Deal' = [Deal EXCEPT ![p] = "refunded"]
          BY <1>b, <3>1, DealChange
      <3> QED
          BY <1>6, <2>1, <3>1, <3>2
          DEF RefundBooked, ReturnStock, merchantVars, Ledger!Refund, Ledger!PutBack
    <2>3. CASE event = "partially_refunded"
      <3>1. /\ payment' = [payment EXCEPT ![p] = "partially_refunded"]
            /\ UNCHANGED <<reservation, stock, supply>>
          BY <1>6, <2>1, <2>3
          DEF RefundBooked, Refundable, RefundEvents, ResolvePaymentStatus, merchantVars
      <3>2. Deal' = Deal
          BY <1>b, <2>1, <3>1 DEF Deal
      <3> QED
          BY <3>1, <3>2 DEF Ledger!vars
    <2> QED
        BY <2>2, <2>3 DEF RefundEvents
  <1>7. ASSUME NEW p \in Payments, CleanupRow(p)
        PROVE  Ledger!Release(p) \/ UNCHANGED Ledger!vars
    <2>1. CASE ~StillDue(p) \/ KeptByHold(p)
        BY <1>7, <2>1, LedgerStutter DEF CleanupRow, merchantVars, KeptByHold
    <2>2. CASE StillDue(p) /\ ~KeptByHold(p)
      <3>1. payment[p] = "pending"
          BY <2>2 DEF StillDue, RowsAgree
      <3> QED
          BY <1>2, <1>7, <2>2, <3>1 DEF CleanupRow, merchantVars
    <2> QED
        BY <2>1, <2>2
  <1>8. ASSUME NEW x \in Products, NEW typed \in 0..MaxStock, NEW onSale \in BOOLEAN,
               SaveForm(x, typed, onSale),
               UNCHANGED <<payment, reservation>>
        PROVE  Ledger!Restock(x) \/ UNCHANGED Ledger!vars
    <2>1. Deal' = Deal
        BY <1>8 DEF Deal
    <2>2. CASE UNCHANGED <<stock, supply>>
        BY <2>1, <2>2 DEF Ledger!vars
    <2>3. CASE ~UNCHANGED <<stock, supply>>
      <3>1. /\ stock[x] = baseline[x]
            /\ stock' = [stock EXCEPT ![x] = typed]
            /\ supply' = [supply EXCEPT ![x] = (supply[x] - baseline[x]) + typed]
          BY <1>8, <2>3 DEF SaveForm
      <3>2. /\ stock[x] \in Int /\ supply[x] \in Int /\ typed \in Nat
            /\ stock'[x] = typed
            /\ stock' = [stock EXCEPT ![x] = stock'[x]]
          BY <3>1, CheckoutAssumption DEF TypeOK, CheckoutAssumption
      <3>3. supply[x] + (stock'[x] - stock[x]) = (supply[x] - baseline[x]) + typed
          BY <3>1, <3>2
      <3> QED
          BY <2>1, <3>1, <3>2, <3>3 DEF Ledger!Restock
    <2> QED
        BY <2>2, <2>3
  <1>9. CASE UNCHANGED <<payment, reservation, stock, supply>>
      BY <1>9, LedgerStutter
  <1> QED
      BY <1>1, <1>3, <1>4, <1>5, <1>6, <1>7, <1>8, <1>9, OtherSteps
      DEF RowStep, Ledger!Next

(* Every sale is a deal of the stock ledger: whatever the callbacks, the     *)
(* recovery, the refunds, the expiry job and the merchants do in whatever    *)
(* order, sold units return on nothing but a full refund.                    *)
THEOREM LedgerImplemented == Spec => SalesFollowLedger
  BY TypingInit, TypingStep, RowsAgreeInit, RowsAgreeStep, LedgerInit, LedgerStep, PTL
  DEF Spec, SalesFollowLedger

-----------------------------------------------------------------------------
(* Conservation: counting the holders of a product before and after a step   *)
(* of the ledger.                                                            *)
LEMMA HoldersFinite ==
  ASSUME NEW x
  PROVE  IsFiniteSet(Holders(x)) /\ IsFiniteSet(Holders(x)')
  BY CheckoutAssumption, FS_Subset DEF CheckoutAssumption, Holders

(* The payments that hold units of a product are its open deals.            *)
LEMMA HoldersByDeal ==
  ASSUME TypeOK, RowsAgree, (TypeOK /\ RowsAgree)', NEW x
  PROVE  /\ Holders(x) = {p \in Payments : x \in Cart[p] /\ Deal[p] \in {"held", "sold"}}
         /\ Holders(x)' = {p \in Payments : x \in Cart[p] /\ Deal'[p] \in {"held", "sold"}}
  BY DEF Holders, Deal, RowsAgree, TypeOK, PaymentStatus, Holding, Refundable

(* A deal that takes its units adds one holder to each of its products.     *)
LEMMA DealTaken ==
  ASSUME TypeOK, RowsAgree, (TypeOK /\ RowsAgree)', StockConserved,
         NEW p \in Payments, Deal[p] = "none",
         NEW kind \in {"held", "sold"}, Deal' = [Deal EXCEPT ![p] = kind],
         Ledger!Take(Cart[p]), UNCHANGED supply
  PROVE  StockConserved'
  <1> SUFFICES ASSUME NEW x \in Products
               PROVE  stock'[x] + Cardinality(Holders(x)') = supply'[x]
      BY DEF StockConserved
  <1>1. /\ Holders(x) = {q \in Payments : x \in Cart[q] /\ Deal[q] \in {"held", "sold"}}
        /\ Holders(x)' = {q \in Payments : x \in Cart[q] /\ Deal'[q] \in {"held", "sold"}}
      BY HoldersByDeal
  <1>2. stock[x] \in Nat /\ supply[x] \in Int /\ Cardinality(Holders(x)) \in Nat
      BY HoldersFinite, FS_CardinalityType DEF TypeOK
  <1>3. stock[x] + Cardinality(Holders(x)) = supply[x]
      BY DEF StockConserved
  <1>4. CASE x \in Cart[p]
    <2>1. p \notin Holders(x) /\ Holders(x)' = Holders(x) \cup {p}
        BY <1>1, <1>4 DEF Deal
    <2>2. Cardinality(Holders(x)') = Cardinality(Holders(x)) + 1
        BY <2>1, HoldersFinite, FS_AddElement
    <2>3. stock'[x] = stock[x] - 1
        BY <1>4 DEF Ledger!Take
    <2> QED
        BY <1>2, <1>3, <2>2, <2>3
  <1>5. CASE x \notin Cart[p]
    <2>1. Holders(x)' = Holders(x)
        BY <1>1, <1>5 DEF Deal
    <2>2. stock'[x] = stock[x]
        BY <1>5 DEF Ledger!Take
    <2> QED
        BY <1>3, <2>1, <2>2
  <1> QED
      BY <1>4, <1>5

(* A deal that gives its units back takes one holder away from each.        *)
LEMMA DealGivenBack ==
  ASSUME TypeOK, RowsAgree, (TypeOK /\ RowsAgree)', StockConserved,
         NEW p \in Payments, Deal[p] \in {"held", "sold"},
         NEW kind \in {"none", "refunded"}, Deal' = [Deal EXCEPT ![p] = kind],
         Ledger!PutBack(Cart[p]), UNCHANGED supply
  PROVE  StockConserved'
  <1> SUFFICES ASSUME NEW x \in Products
               PROVE  stock'[x] + Cardinality(Holders(x)') = supply'[x]
      BY DEF StockConserved
  <1>1. /\ Holders(x) = {q \in Payments : x \in Cart[q] /\ Deal[q] \in {"held", "sold"}}
        /\ Holders(x)' = {q \in Payments : x \in Cart[q] /\ Deal'[q] \in {"held", "sold"}}
      BY HoldersByDeal
  <1>2. stock[x] \in Nat /\ supply[x] \in Int /\ Cardinality(Holders(x)) \in Nat
      BY HoldersFinite, FS_CardinalityType DEF TypeOK
  <1>3. stock[x] + Cardinality(Holders(x)) = supply[x]
      BY DEF StockConserved
  <1>4. CASE x \in Cart[p]
    <2>1. p \in Holders(x) /\ Holders(x)' = Holders(x) \ {p}
        BY <1>1, <1>4 DEF Deal
    <2>2. Cardinality(Holders(x)') = Cardinality(Holders(x)) - 1
        BY <2>1, HoldersFinite, FS_RemoveElement
    <2>3. stock'[x] = stock[x] + 1
        BY <1>4 DEF Ledger!PutBack
    <2> QED
        BY <1>2, <1>3, <2>2, <2>3
  <1>5. CASE x \notin Cart[p]
    <2>1. Holders(x)' = Holders(x)
        BY <1>1, <1>5 DEF Deal
    <2>2. stock'[x] = stock[x]
        BY <1>5 DEF Ledger!PutBack
    <2> QED
        BY <1>3, <2>1, <2>2
  <1> QED
      BY <1>4, <1>5

(* Before any checkout all supply is on the shelf.                          *)
LEMMA ConservedInit == Init => StockConserved
  <1> SUFFICES ASSUME Init, NEW x \in Products
               PROVE  stock[x] + Cardinality(Holders(x)) = supply[x]
      BY DEF StockConserved
  <1>1. Holders(x) = {}
      BY DEF Init, Holders, Holding
  <1>2. stock[x] = supply[x] /\ stock[x] \in Nat
      BY CheckoutAssumption DEF CheckoutAssumption, Init
  <1> QED
      BY <1>1, <1>2, FS_EmptySet

(* Every step of the abstract ledger conserves the units.                   *)
LEMMA ConservedStep ==
  TypeOK /\ RowsAgree /\ StockConserved /\ [Next]_vars => StockConserved'
  <1> SUFFICES ASSUME TypeOK, RowsAgree, StockConserved, [Next]_vars PROVE StockConserved'
      OBVIOUS
  <1>0. /\ (TypeOK /\ RowsAgree)'
        /\ [Ledger!Next]_(Ledger!vars)
      BY TypingStep, RowsAgreeStep, LedgerStep
  <1>1. ASSUME NEW p \in Payments, Ledger!Hold(p) PROVE StockConserved'
      BY <1>0, <1>1, DealTaken DEF Ledger!Hold
  <1>2. ASSUME NEW p \in Payments, Ledger!Release(p) PROVE StockConserved'
      BY <1>0, <1>2, DealGivenBack DEF Ledger!Release
  <1>3. ASSUME NEW p \in Payments, Ledger!Refund(p) PROVE StockConserved'
      BY <1>0, <1>3, DealGivenBack DEF Ledger!Refund
  <1>4. ASSUME \A x \in Products :
                 /\ Holders(x)' = Holders(x)
                 /\ stock'[x] - stock[x] = supply'[x] - supply[x]
        PROVE  StockConserved'
    <2> SUFFICES ASSUME NEW x \in Products
                 PROVE  stock'[x] + Cardinality(Holders(x)') = supply'[x]
        BY DEF StockConserved
    <2>1. /\ stock[x] \in Int /\ stock'[x] \in Int
          /\ supply[x] \in Int /\ supply'[x] \in Int
          /\ Cardinality(Holders(x)) \in Int
        BY <1>0, HoldersFinite, FS_CardinalityType DEF TypeOK
    <2> QED
        BY <1>4, <2>1 DEF StockConserved
  <1>5. ASSUME NEW p \in Payments, Ledger!Sell(p) PROVE StockConserved'
    <2>1. CASE Deal[p] = "none"
        BY <1>0, <1>5, <2>1, DealTaken DEF Ledger!Sell
    <2>2. CASE Deal[p] # "none"
      <3>1. Deal[p] = "held" /\ UNCHANGED <<stock, supply>>
          BY <1>5, <2>2 DEF Ledger!Sell
      <3>2. \A x : Holders(x)' = Holders(x)
        <4> TAKE x
        <4>1. /\ Holders(x) = {q \in Payments : x \in Cart[q] /\ Deal[q] \in {"held", "sold"}}
              /\ Holders(x)' = {q \in Payments : x \in Cart[q] /\ Deal'[q] \in {"held", "sold"}}
            BY <1>0, HoldersByDeal
        <4> QED
            BY <1>5, <3>1, <4>1 DEF Ledger!Sell, Deal
      <3> QED
          BY <1>4, <3>1, <3>2 DEF TypeOK
    <2> QED
        BY <2>1, <2>2
  <1>6. ASSUME Deal' = Deal,
               \A x \in Products : stock'[x] - stock[x] = supply'[x] - supply[x]
        PROVE  StockConserved'
    <2>1. \A x : Holders(x)' = Holders(x)
      <3> TAKE x
      <3>1. /\ Holders(x) = {q \in Payments : x \in Cart[q] /\ Deal[q] \in {"held", "sold"}}
            /\ Holders(x)' = {q \in Payments : x \in Cart[q] /\ Deal'[q] \in {"held", "sold"}}
          BY <1>0, HoldersByDeal
      <3> QED
          BY <1>6, <3>1
    <2> QED
        BY <1>4, <1>6, <2>1
  <1>7. ASSUME NEW x \in Products, Ledger!Restock(x) PROVE StockConserved'
    <2>1. Deal' = Deal
        BY <1>7 DEF Ledger!Restock
    <2>2. ASSUME NEW y \in Products
          PROVE  stock'[y] - stock[y] = supply'[y] - supply[y]
        BY <1>0, <1>7 DEF Ledger!Restock, TypeOK
    <2> QED
        BY <1>6, <2>1, <2>2
  <1>8. CASE UNCHANGED Ledger!vars
      BY <1>0, <1>6, <1>8 DEF Ledger!vars, TypeOK
  <1> QED
      BY <1>0, <1>1, <1>2, <1>3, <1>5, <1>7, <1>8 DEF Ledger!Next

(* No unit is sold twice, lost or returned twice, in any interleaving of any *)
(* number of payments over any carts and products.                           *)
THEOREM Conservation == Spec => []StockConserved
  BY TypingInit, TypingStep, RowsAgreeInit, RowsAgreeStep, ConservedInit, ConservedStep, PTL
  DEF Spec

-----------------------------------------------------------------------------
(* What the steps of a row do to the status of a payment that was paid.      *)
LEMMA PaidStep ==
  TypeOK /\ RowsAgree /\ [Next]_vars =>
    \A p \in Payments :
      payment[p] \in PaidStatuses =>
        /\ payment'[p] \in PaidStatuses
        /\ payment[p] = "refunded" => payment'[p] = "refunded"
        /\ payment[p] = "partially_refunded" => payment'[p] # "paid"
        /\ (reservation[p] = "committed" /\ reservation'[p] # "committed") =>
              payment'[p] = "refunded"
  <1> SUFFICES ASSUME TypeOK, RowsAgree, [Next]_vars,
                      NEW p \in Payments, payment[p] \in PaidStatuses
               PROVE  /\ payment'[p] \in PaidStatuses
                      /\ payment[p] = "refunded" => payment'[p] = "refunded"
                      /\ payment[p] = "partially_refunded" => payment'[p] # "paid"
                      /\ (reservation[p] = "committed" /\ reservation'[p] # "committed") =>
                            payment'[p] = "refunded"
      OBVIOUS
  <1> USE DEF PaidStatuses, Refundable, RowsAgree, TypeOK, PaymentStatus, Holding
  <1>1. CASE UNCHANGED <<payment, reservation>>
      BY <1>1
  <1>2. ASSUME NEW q \in Payments, Reserve(q)
        PROVE  payment'[p] = payment[p] /\ reservation'[p] = reservation[p]
      BY <1>2 DEF Reserve
  <1>3. ASSUME NEW q \in Payments, FailPendingCheckout(q)
        PROVE  payment'[p] = payment[p] /\ reservation'[p] = reservation[p]
      BY <1>3 DEF FailPendingCheckout, ReleaseReservation
  <1>4. ASSUME NEW q \in Payments, ResumeCheckout(q)
        PROVE  payment'[p] = payment[p] /\ reservation'[p] = reservation[p]
      BY <1>4 DEF ResumeCheckout
  <1>5. ASSUME NEW q \in Payments, PaidWebhook(q)
        PROVE  payment'[p] = payment[p] /\ reservation'[p] = reservation[p]
      BY <1>5, EventApplies DEF PaidWebhook, CommitInventory
  <1>6. ASSUME NEW q \in Payments, FailedWebhook(q)
        PROVE  payment'[p] = payment[p] /\ reservation'[p] = reservation[p]
      BY <1>6, EventApplies DEF FailedWebhook, ReleaseReservation
  <1>7. ASSUME NEW q \in Payments, NEW event \in RefundEvents, RefundBooked(q, event)
        PROVE  /\ p # q => payment'[p] = payment[p] /\ reservation'[p] = reservation[p]
               /\ p = q =>
                    \/ payment'[p] = "refunded"
                    \/ payment'[p] = "partially_refunded" /\ reservation'[p] = "committed"
    <2>1. payment' = [payment EXCEPT ![q] = event]
        BY <1>7 DEF RefundBooked, ResolvePaymentStatus, RefundEvents
    <2>2. event = "refunded" \/ (event = "partially_refunded" /\ reservation' = reservation)
        BY <1>7 DEF RefundBooked, RefundEvents
    <2>3. p # q => reservation'[p] = reservation[p]
        BY <1>7 DEF RefundBooked, ReleaseReservation
    <2>4. reservation[q] = "committed"
        BY <1>7 DEF RefundBooked
    <2>5. CASE p = q
      <3>1. payment'[p] = event
          BY <2>1, <2>5
      <3>2. event = "refunded" \/ (event = "partially_refunded" /\ reservation'[p] = "committed")
          BY <2>2, <2>4, <2>5
      <3> QED
          BY <2>5, <3>1, <3>2
    <2>6. CASE p # q
        BY <2>1, <2>3, <2>6
    <2> QED
        BY <2>5, <2>6
  <1>8. ASSUME NEW q \in Payments, CleanupRow(q)
        PROVE  payment'[p] = payment[p] /\ reservation'[p] = reservation[p]
      BY <1>8 DEF CleanupRow, StillDue, ReleaseReservation
  <1>9. ASSUME NEW q \in Payments, NEW event \in RefundEvents, RefundBooked(q, event)
        PROVE  payment[q] # "refunded"
      BY <1>9 DEF RefundBooked
  <1> QED
      BY <1>1, <1>2, <1>3, <1>4, <1>5, <1>6, <1>7, <1>8, <1>9, OtherSteps DEF RowStep

(* Booked money is never taken back by a late, repeated or reordered         *)
(* callback, by a recovery, or by expiry.                                    *)
THEOREM NeverDowngraded == Spec => PaidNeverDowngraded
  <1>1. TypeOK /\ RowsAgree /\ [Next]_vars =>
          [\A p \in Payments :
             payment[p] \in PaidStatuses =>
               /\ payment'[p] \in PaidStatuses
               /\ payment[p] = "refunded" => payment'[p] = "refunded"
               /\ payment[p] = "partially_refunded" => payment'[p] # "paid"
               /\ (reservation[p] = "committed" /\ reservation'[p] # "committed") =>
                     payment'[p] = "refunded"]_vars
      BY PaidStep
  <1> QED
      BY <1>1, TypingInit, TypingStep, RowsAgreeInit, RowsAgreeStep, PTL
      DEF Spec, PaidNeverDowngraded

-----------------------------------------------------------------------------
(* A hold is only ever placed on a trade whose session the buyer has, and    *)
(* the checkout request of that trade is over: no late metadata write of it  *)
(* can overwrite the hold.                                                   *)
HoldFollowsCheckout ==
    \A p \in Payments :
        /\ issued[p] => checkout[p] = "done"
        /\ captured[p] => issued[p]
        /\ recorder[p] # "idle" => captured[p]
        /\ held[p] => captured[p]

(* Before any checkout nothing is held.                                     *)
LEMMA HoldInit == Init => HoldFollowsCheckout
  BY DEF Init, HoldFollowsCheckout

(* Only a callback on an issued session holds a payment, and every          *)
(* later writer of the metadata keeps the hold or settles the payment.      *)
LEMMA HoldStep == TypeOK /\ HoldFollowsCheckout /\ [Next]_vars => HoldFollowsCheckout'
  <1> SUFFICES ASSUME TypeOK, HoldFollowsCheckout, [Next]_vars PROVE HoldFollowsCheckout'
      OBVIOUS
  <1> USE DEF HoldFollowsCheckout, TypeOK, rowVars, productVars, recorderVars
  <1>1. CASE UNCHANGED <<issued, checkout, captured, recorder, held>>
      BY <1>1
  <1>2. ASSUME NEW p \in Payments, Reserve(p) \/ CreateSession(p) \/ StoreSession(p)
        PROVE  HoldFollowsCheckout'
      BY <1>2 DEF Reserve, CreateSession, StoreSession
  <1>3. ASSUME NEW p \in Payments, StoreSessionFails(p) \/ CheckoutDies(p)
        PROVE  HoldFollowsCheckout'
      BY <1>3 DEF StoreSessionFails, CheckoutDies
  <1>4. ASSUME NEW p \in Payments, FailPendingCheckout(p) PROVE HoldFollowsCheckout'
      BY <1>4 DEF FailPendingCheckout
  <1>5. ASSUME NEW p \in Payments, ResumeCheckout(p) PROVE HoldFollowsCheckout'
      BY <1>5 DEF ResumeCheckout
  <1>6. ASSUME NEW p \in Payments, Capture(p) \/ PaidWebhook(p) PROVE HoldFollowsCheckout'
      BY <1>6 DEF Capture, PaidWebhook
  <1>7. ASSUME NEW p \in Payments, RecorderReads(p) \/ RecorderCreatesEvent(p)
                                   \/ RecorderHolds(p) \/ RecorderDies(p)
        PROVE  HoldFollowsCheckout'
      BY <1>7 DEF RecorderReads, RecorderCreatesEvent, RecorderHolds, RecorderDies
  <1>8. ASSUME NEW p \in Payments, NEW event \in RefundEvents,
               FailedWebhook(p) \/ RefundBooked(p, event) \/ CleanupRow(p)
        PROVE  UNCHANGED <<issued, checkout, captured, recorder, held>>
      BY <1>8 DEF FailedWebhook, RefundBooked, CleanupRow
  <1>9. ASSUME NEW p \in Payments, FailedWebhook(p) \/ CleanupRow(p)
        PROVE  UNCHANGED <<issued, checkout, captured, recorder, held>>
      BY <1>9 DEF FailedWebhook, CleanupRow
  <1>10. ASSUME StartCleanup \/ CutCleanup \/ Tick \/ (\E x \in Products : OpenForm(x))
         PROVE  UNCHANGED <<issued, checkout, captured, recorder, held>>
      BY <1>10 DEF StartCleanup, CutCleanup, Tick, OpenForm
  <1>11. ASSUME NEW x \in Products, NEW typed \in 0..MaxStock, NEW onSale \in BOOLEAN,
                SaveForm(x, typed, onSale)
         PROVE  UNCHANGED <<issued, checkout, captured, recorder, held>>
      BY <1>11 DEF SaveForm
  <1>12. CASE UNCHANGED vars
      BY <1>12 DEF vars
  <1> QED
      BY <1>1, <1>2, <1>3, <1>4, <1>5, <1>6, <1>7, <1>8, <1>9, <1>10, <1>11, <1>12 DEF Next

(* No single step but a callback of its own touches a held payment.          *)
LEMMA HeldStep ==
  TypeOK /\ RowsAgree /\ HoldFollowsCheckout /\ [Next]_vars =>
    \A p \in Payments :
      (payment[p] = "pending" /\ held[p]) =>
        /\ payment'[p] \in {"pending", "paid", "failed"}
        /\ payment'[p] = "pending" => reservation'[p] = reservation[p] /\ held'[p]
        /\ payment'[p] = "paid" => reservation'[p] = "committed"
  <1> SUFFICES ASSUME TypeOK, RowsAgree, HoldFollowsCheckout, [Next]_vars,
                      NEW p \in Payments, payment[p] = "pending", held[p]
               PROVE  /\ payment'[p] \in {"pending", "paid", "failed"}
                      /\ payment'[p] = "pending" => reservation'[p] = reservation[p] /\ held'[p]
                      /\ payment'[p] = "paid" => reservation'[p] = "committed"
      OBVIOUS
  <1>0. reservation[p] = "reserved" /\ checkout[p] = "done"
      BY DEF RowsAgree, HoldFollowsCheckout
  <1> USE DEF TypeOK, PaymentStatus, rowVars, productVars
  <1>1. CASE UNCHANGED <<payment, held, reservation>>
      BY <1>1
  <1>2. ASSUME NEW q \in Payments, StoreSession(q)
        PROVE  payment'[p] = payment[p] /\ held'[p] = held[p] /\ reservation'[p] = reservation[p]
      BY <1>0, <1>2 DEF StoreSession
  <1>3. ASSUME NEW q \in Payments, RecorderHolds(q)
        PROVE  payment'[p] = payment[p] /\ held'[p] /\ reservation'[p] = reservation[p]
      BY <1>3 DEF RecorderHolds
  <1>4. ASSUME NEW q \in Payments, PaidWebhook(q)
        PROVE  /\ p = q => payment'[p] = "paid" /\ reservation'[p] = "committed"
               /\ p # q => payment'[p] = payment[p] /\ held'[p] = held[p] /\ reservation'[p] = reservation[p]
      BY <1>4 DEF PaidWebhook, CommitInventory
  <1>5. ASSUME NEW q \in Payments,
               Reserve(q) \/ FailPendingCheckout(q) \/ ResumeCheckout(q) \/ FailedWebhook(q)
        PROVE  /\ p = q => payment'[p] = "failed"
               /\ p # q => payment'[p] = payment[p] /\ held'[p] = held[p] /\ reservation'[p] = reservation[p]
    <2>1. CASE Reserve(q)
        BY <2>1 DEF Reserve
    <2>2. CASE FailPendingCheckout(q)
        BY <1>0, <2>2 DEF FailPendingCheckout, ReleaseReservation, UnissuedReasons
    <2>3. CASE ResumeCheckout(q)
        BY <2>3 DEF ResumeCheckout
    <2>4. CASE FailedWebhook(q)
        BY <2>4 DEF FailedWebhook, ReleaseReservation
    <2> QED
        BY <1>5, <2>1, <2>2, <2>3, <2>4
  <1>6. ASSUME NEW q \in Payments, NEW event \in RefundEvents, RefundBooked(q, event)
        PROVE  payment'[p] = payment[p] /\ held'[p] = held[p] /\ reservation'[p] = reservation[p]
      BY <1>6 DEF RefundBooked, Refundable, ReleaseReservation
  <1>7. ASSUME NEW q \in Payments, CleanupRow(q)
        PROVE  payment'[p] = payment[p] /\ held'[p] = held[p] /\ reservation'[p] = reservation[p]
      BY <1>0, <1>7 DEF CleanupRow, KeptByHold, ReleaseReservation
  <1>8. ASSUME NEW q \in Payments,
               CreateSession(q) \/ StoreSessionFails(q) \/ CheckoutDies(q) \/ Capture(q)
               \/ RecorderReads(q) \/ RecorderCreatesEvent(q) \/ RecorderDies(q)
        PROVE  UNCHANGED <<payment, held, reservation>>
      BY <1>8 DEF CreateSession, StoreSessionFails, CheckoutDies, Capture,
                  RecorderReads, RecorderCreatesEvent, RecorderDies
  <1>9. ASSUME StartCleanup \/ CutCleanup \/ Tick \/ (\E x \in Products : OpenForm(x))
        PROVE  UNCHANGED <<payment, held, reservation>>
      BY <1>9 DEF StartCleanup, CutCleanup, Tick, OpenForm
  <1>10. ASSUME NEW x \in Products, NEW typed \in 0..MaxStock, NEW onSale \in BOOLEAN,
                SaveForm(x, typed, onSale)
         PROVE  UNCHANGED <<payment, held, reservation>>
      BY <1>10 DEF SaveForm
  <1>11. CASE UNCHANGED vars
      BY <1>11 DEF vars
  <1> QED
      BY <1>1, <1>2, <1>3, <1>4, <1>5, <1>6, <1>7, <1>8, <1>9, <1>10, <1>11 DEF Next

(* Neither the expiry job nor the checkout request takes the payment, the    *)
(* units or the hold of a collection that waits for finance; only a paid or  *)
(* a failed callback ends the wait.                                          *)
THEOREM HoldKept == Spec => HeldPaymentKept
  <1>1. TypeOK /\ RowsAgree /\ HoldFollowsCheckout /\ [Next]_vars =>
          [\A p \in Payments :
             (payment[p] = "pending" /\ held[p]) =>
               /\ payment'[p] \in {"pending", "paid", "failed"}
               /\ payment'[p] = "pending" => reservation'[p] = reservation[p] /\ held'[p]
               /\ payment'[p] = "paid" => reservation'[p] = "committed"]_vars
      BY HeldStep
  <1> QED
      BY <1>1, TypingInit, TypingStep, RowsAgreeInit, RowsAgreeStep, HoldInit, HoldStep, PTL
      DEF Spec, HeldPaymentKept

-----------------------------------------------------------------------------
(* The merchant's order says what the payment says.  A payment that expired  *)
(* once must not become pending again, or its second expiry would find the   *)
(* event of the first one and leave the order behind: that is why LocalManual*)
(* has to be off.                                                            *)
OrderAgrees ==
    \A p \in Payments :
        /\ expiryRecorded[p] => payment[p] \notin {"none", "pending", "failed"}
        /\ payment[p] = "none" <=> order[p] = "none"
        /\ payment[p] = "pending" <=> order[p] = "pending_payment"
        /\ payment[p] = "paid" <=> order[p] = "paid"
        /\ payment[p] = "failed" <=> order[p] = "payment_failed"
        /\ payment[p] = "expired" <=> order[p] = "expired"
        /\ payment[p] = "partially_refunded" <=> order[p] = "partially_refunded"

(* Before any checkout there is no order.                                   *)
LEMMA OrderInit == Init => OrderAgrees
  BY DEF Init, OrderAgrees

(* Every transaction that moves a payment moves its order with it.          *)
LEMMA OrderStep ==
  ASSUME LocalManual = FALSE
  PROVE  TypeOK /\ RowsAgree /\ OrderAgrees /\ [Next]_vars => OrderAgrees'
  <1> SUFFICES ASSUME TypeOK, RowsAgree, OrderAgrees, [Next]_vars PROVE OrderAgrees'
      OBVIOUS
  <1> USE DEF OrderAgrees, TypeOK, PaymentStatus, OrderStatus
  <1>1. CASE UNCHANGED <<payment, order, expiryRecorded>>
      BY <1>1
  <1>2. ASSUME NEW p \in Payments, Reserve(p) PROVE OrderAgrees'
      BY <1>2 DEF Reserve
  <1>3. ASSUME NEW p \in Payments, FailPendingCheckout(p) PROVE OrderAgrees'
    <2>1. CASE payment[p] = "pending"
        BY <1>3, <2>1 DEF FailPendingCheckout
    <2>2. CASE payment[p] # "pending"
        BY <1>1, <1>3, <2>2 DEF FailPendingCheckout
    <2> QED
        BY <2>1, <2>2
  <1>4. ASSUME NEW p \in Payments, ResumeCheckout(p) PROVE OrderAgrees'
    <2>1. payment[p] = "failed"
        BY <1>4 DEF ResumeCheckout
    <2> QED
        BY <1>4, <2>1 DEF ResumeCheckout
  <1>5. ASSUME NEW p \in Payments, PaidWebhook(p) PROVE OrderAgrees'
      BY <1>5, EventApplies DEF PaidWebhook, OrderPaid
  <1>6. ASSUME NEW p \in Payments, FailedWebhook(p) PROVE OrderAgrees'
      BY <1>6, EventApplies DEF FailedWebhook
  <1>7. ASSUME NEW p \in Payments, NEW event \in RefundEvents, RefundBooked(p, event)
        PROVE  OrderAgrees'
    <2>1. payment' = [payment EXCEPT ![p] = event]
        BY <1>7 DEF RefundBooked, ResolvePaymentStatus, Refundable, RefundEvents
    <2> QED
        BY <1>7, <2>1 DEF RefundBooked, RefundEvents, Refundable
  <1>8. ASSUME NEW p \in Payments, CleanupRow(p) PROVE OrderAgrees'
    <2>1. CASE ~StillDue(p) \/ KeptByHold(p)
        BY <1>1, <1>8, <2>1 DEF CleanupRow, KeptByHold
    <2>2. CASE StillDue(p) /\ ~KeptByHold(p)
      <3>1. payment[p] = "pending"
          BY <2>2 DEF StillDue, RowsAgree
      <3>2. order[p] = "pending_payment" /\ ~expiryRecorded[p]
          BY <3>1
      <3> QED
          BY <1>8, <2>2, <3>1, <3>2 DEF CleanupRow, ExpireOrder
    <2> QED
        BY <2>1, <2>2
  <1> QED
      BY <1>1, <1>2, <1>3, <1>4, <1>5, <1>6, <1>7, <1>8, OtherSteps DEF RowStep

(* The two pairwise agreements give the agreement of all three ledgers.     *)
LEMMA AgreementOfThree == TypeOK /\ RowsAgree /\ OrderAgrees => LedgersAgree
  BY DEF TypeOK, PaymentStatus, OrderStatus, Holding, RowsAgree, OrderAgrees, Refundable,
         LedgersAgree, AgreedStates

(* Payment, order and stock never disagree between two transactions, where   *)
(* no local manual session is reissued.                                      *)
THEOREM Agreement ==
  ASSUME LocalManual = FALSE
  PROVE  Spec => []LedgersAgree
  <1>1. TypeOK /\ RowsAgree /\ OrderAgrees /\ [Next]_vars => OrderAgrees'
      BY OrderStep
  <1> QED
      BY <1>1, TypingInit, TypingStep, RowsAgreeInit, RowsAgreeStep, OrderInit,
         AgreementOfThree, PTL
      DEF Spec
=============================================================================
