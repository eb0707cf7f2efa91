------------------------------ MODULE PayUniRefund ------------------------------
(***************************************************************************)
(* Refunds of one paid PayUni trade.  A finance admin's request reserves    *)
(* the amount, calls the provider outside any transaction and then books    *)
(* the refund; a request whose outcome is unknown leaves its reservation    *)
(* behind, which an operator later reconciles with, or releases on, the     *)
(* provider's cumulative query; and the provider may notify refunds, of     *)
(* this program or of its own dashboard, as webhooks.                       *)
(* What the rows and the total of the trade may do is RefundAccount, which   *)
(* this module implements.                                                  *)
(*                                                                          *)
(* The provider is external: it moves the money or not, answers, shows the  *)
(* refund in its query some time later and sends notices in any order.      *)
(* Time passes in ticks of the interval between two counted confirmations;  *)
(* an HTTP request (30 s) and an operator's action end within their tick.   *)
(***************************************************************************)
EXTENDS Integers, FiniteSets, FiniteSetsExt

CONSTANTS
    Requests,       \* refund requests of finance admins, one RefundRecord each
    Outside,        \* refunds made at the provider, unknown to this program
    Operators,      \* operator actions on the reconciliation page at a time
    Amount,         \* what each refund is worth
    Gross,          \* PaymentTransaction.grossAmountCents
    Notified,       \* refunds the provider sends notices of
    Serialless,     \* requests the provider answers with the trade number only
    Repeated,       \* refunds whose answer the provider may give a second time
    Confirmations,  \* policy: counted confirmations a release needs
    Window,         \* policy: age of a reservation before one counts
    Interval,       \* policy: time between two that count
    MaxLag,         \* the query shows a refund before it is this old
    MaxNow          \* bound on the clock

Refunds == Requests \cup Outside

ASSUME RefundAssumption ==
    /\ IsFiniteSet(Requests) /\ IsFiniteSet(Outside)
    /\ Requests \cap Outside = {}
    /\ Refunds \cap {"none", "trade", "request", "ambiguous", "reconciled"} = {}
    /\ Amount \in [Refunds -> Nat \ {0}]
    /\ Gross \in Nat \ {0}
    /\ Notified \subseteq Refunds
    /\ Repeated \subseteq Refunds \ Serialless
    /\ Serialless \subseteq Refunds
    /\ Confirmations \in Nat \ {0} /\ Window \in Nat /\ Interval \in Nat
    /\ MaxLag \in Nat \ {0} /\ MaxNow \in Nat
    /\ MaxLag <= Window + (Confirmations - 1) * Interval

VARIABLES
    status,         \* PaymentTransaction.status
    refunded,       \* PaymentTransaction.refundedAmountCents
    record,         \* RefundRecord of each request: status and providerEventId
    noticed,        \* refunds with a RefundRecord made by a notice
    reservedAt,     \* RefundRecord.createdAt
    checks,         \* RefundRecord.providerNoRefundCheckCount
    lastCheck,      \* RefundRecord.providerNoRefundLastCheckedAt
    at,             \* where each request stands
    answer,         \* the providerEventId each request was answered with
    desk,           \* what each operator is doing, with which query snapshot
    asked,          \* provider: what became of each request
    movedAt,        \* provider: when the money of a refund moved, NotMoved before
    shown,          \* provider: refunds its cumulative query counts
    closing,        \* provider: refunds that used up the trade
    now

ledger == <<status, refunded, record, noticed>>
hold == <<reservedAt, checks, lastCheck>>
provider == <<asked, movedAt, shown, closing>>
vars == <<ledger, hold, at, answer, desk, provider, now>>

-----------------------------------------------------------------------------
Worth(refunds) == MapThenSumSet(LAMBDA x : Amount[x], refunds)

NotMoved == -1
Moved == {x \in Refunds : movedAt[x] # NotMoved}

(* The answer to a request: CloseNo ?? RefundNo ?? TradeNo.                  *)
Identity(x) == IF x \in Serialless THEN "trade" ELSE x

StatusOf(amount) ==
    CASE amount = 0 -> "paid"
      [] amount >= Gross -> "refunded"
      [] OTHER -> "partially_refunded"

Refundable == status \in {"paid", "partially_refunded"}

With(s) == {r \in Requests : record[r].status = s}
Pending == With("pending")
Reservation == {"request", "ambiguous"}

Processed == Worth(With("processed")) + Worth(noticed)

(* The rows that carry a providerEventId, whatever their status.             *)
Named(id) == {r \in Requests : record[r].status # "none" /\ record[r].event = id}
Taken(id) == Named(id) # {} \/ id \in noticed

NoDesk == [at |-> "idle", snapshot |-> 0, target |-> {}]

Init ==
    /\ status = "paid"
    /\ refunded = 0
    /\ record = [r \in Requests |-> [status |-> "none", event |-> "none"]]
    /\ noticed = {}
    /\ reservedAt = [r \in Requests |-> 0]
    /\ checks = [r \in Requests |-> 0]
    /\ lastCheck = [r \in Requests |-> 0]
    /\ at = [r \in Requests |-> "idle"]
    /\ answer = [r \in Requests |-> "none"]
    /\ desk = [o \in Operators |-> NoDesk]
    /\ asked = [r \in Requests |-> "no"]
    /\ movedAt = [x \in Refunds |-> NotMoved]
    /\ shown = {}
    /\ closing = {}
    /\ now = 0

Go(r, place) == at' = [at EXCEPT ![r] = place]
Record(r, s, event) == record' = [record EXCEPT ![r] = [status |-> s, event |-> event]]

(* payment_transaction and refund_record move together in one transaction.   *)
Book(amount) ==
    /\ refunded' = refunded + amount
    /\ status' = StatusOf(refunded + amount)

-----------------------------------------------------------------------------
(* executePayUniRefund                                                       *)

(* The reservation: nothing else is pending and the amount is still there.   *)
Reserve(r) ==
    /\ at[r] = "idle"
    /\ Refundable
    /\ Pending = {}
    /\ Amount[r] <= Gross - Processed
    /\ Record(r, "pending", "request")
    /\ reservedAt' = [reservedAt EXCEPT ![r] = now]
    /\ Go(r, "reserved")
    /\ UNCHANGED <<status, refunded, noticed, checks, lastCheck, answer, desk, provider, now>>

(* Faulty: the row is not compared.                                          *)
AnyRow(r) == TRUE

(* The row still is this request's reservation.                              *)
Mine(r) == record[r] = [status |-> "pending", event |-> "request"]

(* An unsendable request fails; every other failure to get an answer leaves  *)
(* an ambiguous reservation.                                                 *)
Unsendable(r) ==
    /\ at[r] = "reserved"
    /\ IF Mine(r) THEN Record(r, "failed", "request") ELSE UNCHANGED record
    /\ Go(r, "over")
    /\ UNCHANGED <<status, refunded, noticed, hold, answer, desk, provider, now>>

Send(r) ==
    /\ at[r] = "reserved"
    /\ asked' = [asked EXCEPT ![r] = "sent"]
    /\ Go(r, "calling")
    /\ UNCHANGED <<ledger, hold, answer, desk, movedAt, shown, closing, now>>

NoAnswer(r) ==
    /\ at[r] \in {"reserved", "calling"}
    /\ IF Mine(r) THEN Record(r, "pending", "ambiguous") ELSE UNCHANGED record
    /\ Go(r, "over")
    /\ UNCHANGED <<status, refunded, noticed, hold, answer, desk, provider, now>>

Answered(r) ==
    /\ at[r] = "calling"
    /\ \/ asked[r] = "refunded" /\ answer' = [answer EXCEPT ![r] = Identity(r)]
       \/ asked[r] = "repeated"
          /\ \E x \in (Repeated \cap Moved) \ {r} : answer' = [answer EXCEPT ![r] = Identity(x)]
    /\ Go(r, "answered")
    /\ UNCHANGED <<ledger, hold, desk, provider, now>>

(* The completion: a serial that is already booked stops it, a trade number  *)
(* that is already booked is replaced by the reservation's own identity.     *)
Complete(r) ==
    /\ at[r] = "answered"
    /\ refunded + Amount[r] <= Gross
    /\ Mine(r)
    /\ Taken(answer[r]) => answer[r] = "trade"
    /\ Record(r, "processed", IF Taken(answer[r]) THEN "request" ELSE answer[r])
    /\ Book(Amount[r])
    /\ Go(r, "over")
    /\ UNCHANGED <<noticed, hold, answer, desk, provider, now>>

(* Any refusal or error of the completion leaves the row as it is; so does   *)
(* the end of the process.                                                   *)
Abandon(r) ==
    /\ at[r] \in {"reserved", "calling", "answered"}
    /\ Go(r, "over")
    /\ UNCHANGED <<ledger, hold, answer, desk, provider, now>>

-----------------------------------------------------------------------------
(* The provider, as the code sees it.                                        *)

Room(x) == x \notin Moved /\ Worth(Moved) + Amount[x] <= Gross

MoneyMoves(x) ==
    /\ Room(x)
    /\ movedAt' = [movedAt EXCEPT ![x] = now]
    /\ closing' = IF Worth(Moved) + Amount[x] = Gross THEN closing \cup {x} ELSE closing

ProviderDecides(r) ==
    /\ asked[r] = "sent"
    /\ \/ MoneyMoves(r) /\ asked' = [asked EXCEPT ![r] = "refunded"]
       \/ /\ asked' = [asked EXCEPT ![r] = IF (Repeated \cap Moved) \ {r} = {} THEN "refused" ELSE "repeated"]
          /\ UNCHANGED <<movedAt, closing>>
       \/ asked' = [asked EXCEPT ![r] = "refused"] /\ UNCHANGED <<movedAt, closing>>
    /\ UNCHANGED <<ledger, hold, at, answer, desk, shown, now>>

OutsideRefund(x) ==
    /\ MoneyMoves(x)
    /\ UNCHANGED <<ledger, hold, at, answer, desk, asked, shown, now>>

ProviderShows(x) ==
    /\ x \in Moved \ shown
    /\ shown' = shown \cup {x}
    /\ UNCHANGED <<ledger, hold, at, answer, desk, asked, movedAt, closing, now>>

(* A tick passes when the calls of this one have ended; the query is never   *)
(* more than MaxLag behind.                                                  *)
Tick ==
    /\ now < MaxNow
    /\ \A r \in Requests : at[r] \in {"idle", "over"} /\ asked[r] # "sent"
    /\ \A o \in Operators : desk[o] = NoDesk
    /\ \A x \in Moved \ shown : now + 1 - movedAt[x] < MaxLag
    /\ now' = now + 1
    /\ UNCHANGED <<ledger, hold, at, answer, desk, provider>>

-----------------------------------------------------------------------------
(* The reconciliation page.  desk keeps the snapshot an operator works with,  *)
(* and the reservation the release form was rendered for ({}: any).          *)

Desk(o, place, snapshot, target) ==
    desk' = [desk EXCEPT ![o] = [at |-> place, snapshot |-> snapshot, target |-> target]]
Leave(o) == desk' = [desk EXCEPT ![o] = NoDesk]

(* Both actions of the page query the provider first; the one that           *)
(* reconciles does not when the trade is refunded and nothing is pending.    *)
Query(o) ==
    /\ desk[o] = NoDesk
    /\ \/ /\ Pending # {} \/ status = "paid"
          /\ Desk(o, "reconcile", Worth(shown), {})
       \/ \E r \in Requests : record[r].status # "none" /\ Desk(o, "release", Worth(shown), {r})
    /\ UNCHANGED <<ledger, hold, at, answer, provider, now>>

Agrees(snapshot) == snapshot = refunded /\ StatusOf(snapshot) = status
Balanced == Processed = refunded

(* The provider's total is what the ledger says once the reservation is in it.*)
Covers(snapshot) == Balanced /\ snapshot = refunded + Worth(Pending)

(* reconcilePayUniRefund books the reservation, finds nothing to do, cannot  *)
(* tell (and the page records a check), or finds the amounts contradictory.  *)
Books(snapshot) == Pending # {} /\ Refundable /\ Covers(snapshot)
NothingToDo(snapshot) == Pending = {} /\ status # "paid" /\ Balanced /\ snapshot = refunded
CannotTell(snapshot) ==
    \/ Pending = {} /\ status = "paid"
    \/ Pending # {} /\ (~Refundable \/ (Balanced /\ Agrees(snapshot)))

Reconcile(o) ==
    LET snapshot == desk[o].snapshot IN
    /\ desk[o].at = "reconcile"
    /\ \/ /\ Books(snapshot)
          /\ \E r \in Pending : Record(r, "processed", "reconciled") /\ Book(Amount[r])
          /\ Leave(o)
          /\ UNCHANGED noticed
       \/ NothingToDo(snapshot) /\ Leave(o) /\ UNCHANGED ledger
       \/ CannotTell(snapshot) /\ Desk(o, "check", snapshot, {}) /\ UNCHANGED ledger
       \/ /\ ~(Books(snapshot) \/ NothingToDo(snapshot) \/ CannotTell(snapshot))
          /\ Desk(o, "reset", 0, {})
          /\ UNCHANGED ledger
    /\ UNCHANGED <<hold, at, answer, provider, now>>

(* Faulty: every check counts once the reservation is old enough.            *)
CountsAfterWindow(r) == now >= reservedAt[r] + Window

(* payUniRefundHoldNextCountableAt has come.                                 *)
Countable(r) ==
    /\ now >= reservedAt[r] + Window
    /\ checks[r] > 0 => now >= lastCheck[r] + Interval

(* recordPayUniRefundHoldCheck finds the one reservation it is about.        *)
Held(o) == Refundable /\ Pending # {} /\ (desk[o].target # {} => desk[o].target = Pending)

(* The provider still shows what the ledger says: the check counts when it   *)
(* is due, and the release marks the reservation failed.                     *)
ConfirmNoRefund(o) ==
    /\ desk[o].at \in {"check", "release"}
    /\ Held(o) /\ Balanced /\ Agrees(desk[o].snapshot)
    /\ \E r \in Pending :
          LET count == checks[r] + 1 IN
          IF Countable(r)
          THEN /\ checks' = [checks EXCEPT ![r] = count]
               /\ lastCheck' = [lastCheck EXCEPT ![r] = now]
               /\ IF desk[o].at = "release" /\ count >= Confirmations
                  THEN Record(r, "failed", record[r].event)
                  ELSE UNCHANGED record
          ELSE UNCHANGED <<checks, lastCheck, record>>
    /\ Leave(o)
    /\ UNCHANGED <<status, refunded, noticed, reservedAt, at, answer, provider, now>>

(* The check is refused; a contradiction also breaks the streak.             *)
CheckRefused(o) ==
    /\ desk[o].at \in {"check", "release"}
    /\ \/ ~Held(o) /\ Leave(o)
       \/ Held(o) /\ ~(Balanced /\ Agrees(desk[o].snapshot)) /\ Desk(o, "reset", 0, {})
    /\ UNCHANGED <<ledger, hold, at, answer, provider, now>>

(* resetPayUniRefundHoldChecks, in a statement of its own: it clears whatever*)
(* is pending by then.                                                       *)
ResetChecks(o) ==
    /\ desk[o].at = "reset"
    /\ checks' = [r \in Requests |-> IF r \in Pending THEN 0 ELSE checks[r]]
    /\ lastCheck' = [r \in Requests |-> IF r \in Pending THEN 0 ELSE lastCheck[r]]
    /\ Leave(o)
    /\ UNCHANGED <<ledger, reservedAt, at, answer, provider, now>>

-----------------------------------------------------------------------------
(* A notice of the provider, delivered at any later time and any number of   *)
(* times (processPaymentWebhookOnce for a refund event).  What is refused    *)
(* changes nothing; a booked refund is recognised by its serial.             *)

(* Some refund is known by the trade number only.                            *)
TradeOnly == \E r \in With("processed") : record[r].event = "trade"

(* Faulty: the amount is not compared with what is left.                     *)
KeepsToAny(x) == Refundable

(* The amount fits, and uses the trade up exactly when the notice says so.   *)
KeepsTo(x) ==
    /\ Refundable
    /\ Amount[x] <= Gross - refunded
    /\ x \in closing <=> Amount[x] = Gross - refunded

(* Faulty: a reservation does not keep notices out.                          *)
FitsBesidePending(x) == ~TradeOnly /\ KeepsTo(x)

(* Faulty: a refund booked under the trade number does not keep notices out. *)
FitsBesideTrade(x) == Pending = {} /\ KeepsTo(x)

NoticeFits(x) == Pending = {} /\ ~TradeOnly /\ KeepsTo(x)

NoticeBooks(x) ==
    /\ x \in Notified \cap Moved
    /\ NoticeFits(x) /\ ~Taken(x)
    /\ noticed' = noticed \cup {x}
    /\ Book(Amount[x])
    /\ UNCHANGED <<record, hold, at, answer, desk, provider, now>>

-----------------------------------------------------------------------------
Next ==
    \/ \E r \in Requests :
          \/ Reserve(r) \/ Unsendable(r) \/ Send(r) \/ NoAnswer(r)
          \/ Answered(r) \/ Complete(r) \/ Abandon(r) \/ ProviderDecides(r)
    \/ \E o \in Operators :
          Query(o) \/ Reconcile(o) \/ ConfirmNoRefund(o) \/ CheckRefused(o) \/ ResetChecks(o)
    \/ \E x \in Refunds : ProviderShows(x) \/ NoticeBooks(x)
    \/ \E x \in Outside : OutsideRefund(x)
    \/ Tick

Spec == Init /\ [][Next]_vars

-----------------------------------------------------------------------------
(* Every variable has its type.                                              *)
Events == Reservation \cup {"none", "trade", "reconciled"} \cup Refunds

TypeOK ==
    /\ status \in {"paid", "partially_refunded", "refunded"}
    /\ refunded \in 0..Gross
    /\ record \in [Requests -> [status : {"none", "pending", "processed", "failed"}, event : Events]]
    /\ noticed \subseteq Refunds
    /\ reservedAt \in [Requests -> Nat]
    /\ checks \in [Requests -> Nat]
    /\ lastCheck \in [Requests -> Nat]
    /\ at \in [Requests -> {"idle", "reserved", "calling", "answered", "over"}]
    /\ answer \in [Requests -> {"none", "trade"} \cup Refunds]
    /\ desk \in [Operators -> [at : {"idle", "reconcile", "check", "release", "reset"},
                               snapshot : Nat, target : SUBSET Requests]]
    /\ asked \in [Requests -> {"no", "sent", "refunded", "refused", "repeated"}]
    /\ movedAt \in [Refunds -> Nat \cup {NotMoved}]
    /\ shown \subseteq Refunds
    /\ closing \subseteq Refunds
    /\ now \in Nat

(* The trade's total and status are what its refund rows add up to, although *)
(* a late answer, a reconciliation and notices book them in any order.       *)
TotalExplained == refunded = Processed /\ status = StatusOf(refunded)

(* A reservation keeps everything else out: there is one at most, and what   *)
(* is reserved and what is booked never exceed the trade together.           *)
ReservationExclusive ==
    /\ Cardinality(Pending) <= 1
    /\ Processed + Worth(Pending) <= Gross

(* A reservation is released, or a request written off, only when its money  *)
(* has not moved (payuni-refund-hold-release.ts:11-40).                      *)
ReleasedHoldNeverMoved == \A r \in With("failed") : r \notin Moved

(* The ledger never books more than the provider has refunded.               *)
BookedWithinProvider == refunded <= Worth(Moved)

(* A notice of a refund that was booked under its own name, or under the     *)
(* trade number, is not booked a second time                                 *)
(* (payment-webhook-invariants.ts:22-35).                                    *)
NamedRefundBookedOnce ==
    \A r \in noticed \cap With("processed") : record[r].event = "reconciled"

(* Whoever settles a reservation, the request that waited or an operator,     *)
(* and whatever notices come in between, the trade's amounts move as          *)
(* RefundAccount promises.                                                    *)
Account == INSTANCE RefundAccount WITH
    row <- [r \in Requests |-> record[r].status], booked <- refunded

AccountSpec == Account!Spec
=============================================================================
