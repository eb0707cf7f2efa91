--------------------------- MODULE PayUniRefundProofs ---------------------------
(***************************************************************************)
(* Proofs about PayUniRefund, for any requests, refunds made elsewhere,      *)
(* amounts, notices, answers and release policy.                            *)
(***************************************************************************)
EXTENDS PayUniRefund, FiniteSums, TLAPS

RowStatus == {"none", "pending", "processed", "failed"}

(* The columns the proofs speak of have their types.                         *)
RowsTyped ==
    /\ record \in [Requests -> [status : RowStatus, event : Events]]
    /\ noticed \subseteq Refunds
    /\ at \in [Requests -> {"idle", "reserved", "calling", "answered", "over"}]
    /\ answer \in [Requests -> {"none", "trade"} \cup Refunds]
    /\ asked \in [Requests -> {"no", "sent", "refunded", "refused", "repeated"}]
    /\ movedAt \in [Refunds -> Nat \cup {NotMoved}]
    /\ now \in Nat

(* Where a request stands, what its row says and what the provider did with  *)
(* it go together: a row begins with its request, only a request that was    *)
(* granted has moved money, and only one that was heard has an answer.       *)
RequestStands ==
    \A r \in Requests :
        /\ at[r] = "idle" <=> record[r].status = "none"
        /\ at[r] \in {"idle", "reserved"} => asked[r] = "no"
        /\ r \in Moved => asked[r] = "refunded"
        /\ at[r] = "answered" =>
              /\ asked[r] \in {"refunded", "repeated"}
              /\ answer[r] \in {"trade"} \cup Refunds
              /\ asked[r] = "refunded" => answer[r] = Identity(r)

(* What a row is called.  A reservation and what became of it carry a name   *)
(* of this program's own; a booked request carries its answer, or its        *)
(* reservation's name when the trade number was taken by another booked row. *)
NamesKept ==
    \A r \in Requests :
        /\ record[r].status \in {"pending", "failed"} => record[r].event \in Reservation
        /\ record[r].status = "processed" =>
              \/ record[r].event = "reconciled"
              \/ /\ asked[r] \in {"refunded", "repeated"}
                 /\ asked[r] = "refunded" => record[r].event \in {Identity(r), "request"}
        /\ record[r].status = "processed" /\ record[r].event = "request" => TradeOnly

(* A notice of a request is booked only after the request was settled.       *)
NoticedSettled ==
    \A r \in noticed \cap Requests : record[r].status \in {"processed", "failed"}

NameInv ==
    RowsTyped /\ RequestStands /\ NamesKept /\ NoticedSettled /\ NamedRefundBookedOnce

bookVars == <<record, noticed, at, answer, asked, movedAt>>

(* The invariant holds before the first request.                             *)
LEMMA NameInit == Init => NameInv
  BY DEF Init, NameInv, RowsTyped, RequestStands, NamesKept, NoticedSettled,
         NamedRefundBookedOnce, RowStatus, Events, Reservation, Moved, NotMoved

(* A step that leaves the rows, the requests and the provider alone keeps    *)
(* the invariant, whatever it does to the amounts, the desk and the checks.  *)
LEMMA NothingBooked ==
  ASSUME NameInv, UNCHANGED bookVars, now' \in Nat
  PROVE  NameInv'
  BY DEF NameInv, RowsTyped, RequestStands, NamesKept, NoticedSettled,
         NamedRefundBookedOnce, TradeOnly, With, Moved, bookVars

(* Writing a row that is not settled, under a name its new status may have,  *)
(* keeps the invariant.                                                      *)
LEMMA RowWritten ==
  ASSUME NameInv,
         NEW r \in Requests, record[r].status \notin {"processed", "failed"},
         NEW s \in {"pending", "processed", "failed"}, NEW e \in Events, Record(r, s, e),
         s \in {"pending", "failed"} => e \in Reservation,
         s = "processed" =>
            \/ e = "reconciled"
            \/ /\ asked[r] \in {"refunded", "repeated"}
               /\ asked[r] = "refunded" => e \in {Identity(r), "request"},
         s = "processed" /\ e = "request" => TradeOnly,
         NEW place \in {"reserved", "calling", "answered", "over"},
         at' = [at EXCEPT ![r] = place],
         place = at[r] \/ place = "over" \/ (place = "reserved" /\ at[r] = "idle"),
         r \notin noticed,
         UNCHANGED <<noticed, answer, asked, movedAt, now>>
  PROVE  NameInv'
  <1>1. RowsTyped'
      BY DEF NameInv, RowsTyped, Record, RowStatus
  <1>2. RequestStands'
      BY DEF NameInv, RowsTyped, RequestStands, Record, Moved
  <1>3. TradeOnly => TradeOnly'
      BY DEF NameInv, RowsTyped, TradeOnly, With, Record
  <1>4. NamesKept'
      BY <1>3 DEF NameInv, RowsTyped, NamesKept, Record, Identity
  <1>5. NoticedSettled' /\ NamedRefundBookedOnce'
      BY DEF NameInv, RowsTyped, NoticedSettled, NamedRefundBookedOnce, With, Record
  <1> QED
      BY <1>1, <1>2, <1>4, <1>5 DEF NameInv

(* A request that moves on without writing its row keeps the invariant.      *)
LEMMA RequestGoesOn ==
  ASSUME NameInv, NEW r \in Requests, at[r] # "idle",
         NEW place \in {"calling", "answered", "over"}, Go(r, place),
         UNCHANGED <<record, noticed, movedAt, now>>,
         asked' \in [Requests -> {"no", "sent", "refunded", "refused", "repeated"}],
         answer' \in [Requests -> {"none", "trade"} \cup Refunds],
         asked' = asked \/ (asked[r] = "no" /\ asked' = [asked EXCEPT ![r] = "sent"]),
         \A q \in Requests \ {r} : answer'[q] = answer[q],
         place = "answered" =>
            /\ asked' = asked /\ asked[r] \in {"refunded", "repeated"}
            /\ answer'[r] \in {"trade"} \cup Refunds
            /\ asked[r] = "refunded" => answer'[r] = Identity(r)
  PROVE  NameInv'
  <1>1. RowsTyped'
      BY DEF NameInv, RowsTyped, Go
  <1>2. RequestStands'
    <2> SUFFICES ASSUME NEW q \in Requests PROVE RequestStands!(q)'
        BY DEF RequestStands
    <2>1. CASE q # r
        BY <2>1 DEF NameInv, RowsTyped, RequestStands, Moved, Go
    <2>2. CASE q = r
        BY <2>2 DEF NameInv, RowsTyped, RequestStands, Moved, Go
    <2> QED
        BY <2>1, <2>2
  <1>3. TradeOnly' <=> TradeOnly
      BY DEF TradeOnly, With
  <1>4. NamesKept'
      BY <1>3 DEF NameInv, RowsTyped, NamesKept, Identity
  <1>5. NoticedSettled' /\ NamedRefundBookedOnce'
      BY DEF NameInv, NoticedSettled, NamedRefundBookedOnce, With
  <1> QED
      BY <1>1, <1>2, <1>4, <1>5 DEF NameInv

(* An answer that names no booked refund gives the row its name; the trade   *)
(* number, when another booked row has it, leaves the reservation's.         *)
LEMMA CompletionNames ==
  ASSUME NameInv, NEW r \in Requests, Complete(r)
  PROVE  NameInv'
  <1> USE DEF Complete
  <1>1. record[r].status = "pending" /\ record[r].event = "request" /\ r \notin noticed
      BY DEF NameInv, NoticedSettled, Mine
  <1>2. /\ answer[r] \in {"trade"} \cup Refunds /\ asked[r] \in {"refunded", "repeated"}
        /\ asked[r] = "refunded" => answer[r] = Identity(r)
      BY DEF NameInv, RequestStands
  <1>3. CASE Taken(answer[r])
    <2>1. answer[r] = "trade"
        BY <1>3
    <2>2. PICK q \in Requests : record[q].status # "none" /\ record[q].event = "trade"
        BY <1>3, <2>1, RefundAssumption
        DEF Taken, Named, NameInv, RowsTyped, RefundAssumption
    <2>3. record[q].status = "processed"
        BY <2>2 DEF NameInv, RowsTyped, RowStatus, NamesKept, Reservation
    <2>4. TradeOnly
        BY <2>2, <2>3 DEF TradeOnly, With
    <2>5. Record(r, "processed", "request") /\ "request" \in Events
        BY <1>3 DEF Events, Reservation
    <2> QED
        BY <1>1, <1>2, <2>4, <2>5, RowWritten DEF Go, provider
  <1>4. CASE ~Taken(answer[r])
    <2>1. Record(r, "processed", answer[r]) /\ answer[r] \in Events /\ answer[r] # "request"
        BY <1>2, <1>4, RefundAssumption DEF Events, RefundAssumption
    <2> QED
        BY <1>1, <1>2, <2>1, RowWritten DEF Go, provider
  <1> QED
      BY <1>3, <1>4

(* A notice of a request's refund that is booked beside its own settled row  *)
(* finds that row reconciled: any other name of it would have been seen.     *)
LEMMA NoticeNames ==
  ASSUME NameInv, NEW x \in Refunds, NoticeBooks(x)
  PROVE  NameInv'
  <1> USE DEF NoticeBooks, provider
  <1>1. RowsTyped'
      BY DEF NameInv, RowsTyped
  <1>2. RequestStands' /\ NamesKept'
      BY DEF NameInv, RequestStands, NamesKept, Moved, TradeOnly, With, Identity
  <1>3. x \in Requests => record[x].status \in {"processed", "failed"}
      BY DEF NameInv, RowsTyped, RowStatus, RequestStands, NoticeFits, Pending, With
  <1>4. x \in Requests /\ record[x].status = "processed" => record[x].event = "reconciled"
    <2> SUFFICES ASSUME x \in Requests, record[x].status = "processed",
                        record[x].event # "reconciled"
                 PROVE  FALSE
        OBVIOUS
    <2>1. record[x].event \in {Identity(x), "request"}
        BY DEF NameInv, RequestStands, NamesKept
    <2>2. record[x].event # x
        BY DEF Taken, Named
    <2>3. record[x].event # "trade"
        BY DEF NoticeFits, TradeOnly, With
    <2>4. record[x].event # "request"
        BY DEF NoticeFits, NameInv, NamesKept
    <2> QED
        BY <2>1, <2>2, <2>3, <2>4 DEF Identity
  <1>5. NoticedSettled' /\ NamedRefundBookedOnce'
      BY <1>3, <1>4 DEF NameInv, NoticedSettled, NamedRefundBookedOnce, With
  <1> QED
      BY <1>1, <1>2, <1>5 DEF NameInv

(* Money that moves is of a request that was sent, or of nobody's.           *)
LEMMA MoneyMoved ==
  ASSUME NameInv, NEW x \in Refunds, MoneyMoves(x),
         UNCHANGED <<record, noticed, at, answer, now>>,
         \/ x \in Outside /\ asked' = asked
         \/ x \in Requests /\ asked[x] = "sent" /\ asked' = [asked EXCEPT ![x] = "refunded"]
  PROVE  NameInv'
  <1>1. RowsTyped'
      BY DEF NameInv, RowsTyped, MoneyMoves
  <1>2. Moved' \subseteq Moved \cup {x}
      BY DEF NameInv, RowsTyped, Moved, MoneyMoves
  <1>3. RequestStands'
      BY <1>2, RefundAssumption DEF NameInv, RowsTyped, RequestStands, RefundAssumption
  <1>4. TradeOnly' <=> TradeOnly
      BY DEF TradeOnly, With
  <1>5. NamesKept'
      BY <1>4 DEF NameInv, RowsTyped, NamesKept, Identity
  <1>6. NoticedSettled' /\ NamedRefundBookedOnce'
      BY DEF NameInv, NoticedSettled, NamedRefundBookedOnce, With
  <1> QED
      BY <1>1, <1>3, <1>5, <1>6 DEF NameInv

(* A request the provider turns down, or mistakes for an earlier one, keeps  *)
(* the invariant.                                                            *)
LEMMA TurnedDown ==
  ASSUME NameInv, NEW r \in Requests, asked[r] = "sent",
         NEW s \in {"refused", "repeated"}, asked' = [asked EXCEPT ![r] = s],
         UNCHANGED <<record, noticed, at, answer, movedAt, now>>
  PROVE  NameInv'
  <1>1. RowsTyped'
      BY DEF NameInv, RowsTyped
  <1>2. RequestStands'
      BY DEF NameInv, RowsTyped, RequestStands, Moved
  <1>3. TradeOnly' <=> TradeOnly
      BY DEF TradeOnly, With
  <1>4. NamesKept'
      BY <1>3 DEF NameInv, RowsTyped, NamesKept, Identity
  <1>5. NoticedSettled' /\ NamedRefundBookedOnce'
      BY DEF NameInv, NoticedSettled, NamedRefundBookedOnce, With
  <1> QED
      BY <1>1, <1>2, <1>4, <1>5 DEF NameInv

(* Every action of a request keeps the invariant.                            *)
LEMMA RequestSteps ==
  ASSUME NameInv, NEW r \in Requests,
         \/ Reserve(r) \/ Unsendable(r) \/ Send(r) \/ NoAnswer(r)
         \/ Answered(r) \/ Complete(r) \/ Abandon(r) \/ ProviderDecides(r)
  PROVE  NameInv'
  <1> USE DEF provider, Go
  <1>1. asked' = asked /\ answer' = answer
        => /\ asked' \in [Requests -> {"no", "sent", "refunded", "refused", "repeated"}]
           /\ answer' \in [Requests -> {"none", "trade"} \cup Refunds]
      BY DEF NameInv, RowsTyped
  <1>2. Mine(r) => record[r].status = "pending" /\ r \notin noticed
      BY DEF Mine, NameInv, NoticedSettled
  <1>3. "request" \in Events /\ "ambiguous" \in Events /\ {"request", "ambiguous"} = Reservation
      BY DEF Events, Reservation
  <1>4. CASE Reserve(r)
    <2>1. record[r].status = "none" /\ r \notin noticed
        BY <1>4 DEF Reserve, NameInv, RequestStands, NoticedSettled
    <2> QED
        BY <1>3, <1>4, <2>1, RowWritten DEF Reserve
  <1>5. CASE Unsendable(r)
    <2>1. CASE Mine(r)
        BY <1>2, <1>3, <1>5, <2>1, RowWritten DEF Unsendable
    <2>2. CASE ~Mine(r)
        BY <1>1, <1>5, <2>2, RequestGoesOn DEF Unsendable
    <2> QED
        BY <2>1, <2>2
  <1>6. CASE Send(r)
    <2>1. asked[r] = "no" /\ answer' = answer
        BY <1>6 DEF Send, NameInv, RequestStands
    <2>2. asked' \in [Requests -> {"no", "sent", "refunded", "refused", "repeated"}]
        BY <1>6 DEF Send, NameInv, RowsTyped
    <2> QED
        BY <1>6, <2>1, <2>2, RequestGoesOn DEF Send, ledger, NameInv, RowsTyped
  <1>7. CASE NoAnswer(r)
    <2>1. CASE Mine(r)
        BY <1>2, <1>3, <1>7, <2>1, RowWritten DEF NoAnswer
    <2>2. CASE ~Mine(r)
        BY <1>1, <1>7, <2>2, RequestGoesOn DEF NoAnswer
    <2> QED
        BY <2>1, <2>2
  <1>8. CASE Answered(r)
    <2>1. /\ asked[r] \in {"refunded", "repeated"}
          /\ answer'[r] \in {"trade"} \cup Refunds
          /\ asked[r] = "refunded" => answer'[r] = Identity(r)
        BY <1>8 DEF Answered, Identity, Moved, Refunds, NameInv, RowsTyped
    <2>2. /\ answer' \in [Requests -> {"none", "trade"} \cup Refunds]
          /\ \A q \in Requests \ {r} : answer'[q] = answer[q]
        BY <1>8, <2>1 DEF Answered, NameInv, RowsTyped
    <2> QED
        BY <1>8, <2>1, <2>2, RequestGoesOn DEF Answered, ledger, NameInv, RowsTyped
  <1>9. CASE Complete(r)
      BY <1>9, CompletionNames
  <1>10. CASE Abandon(r)
      BY <1>1, <1>10, RequestGoesOn DEF Abandon, ledger
  <1>11. CASE ProviderDecides(r)
    <2>1. CASE MoneyMoves(r) /\ asked' = [asked EXCEPT ![r] = "refunded"]
        BY <1>11, <2>1, MoneyMoved DEF ProviderDecides, ledger, Refunds
    <2>2. CASE /\ movedAt' = movedAt
               /\ \E s \in {"refused", "repeated"} : asked' = [asked EXCEPT ![r] = s]
        BY <1>11, <2>2, TurnedDown DEF ProviderDecides, ledger
    <2> QED
        BY <1>11, <2>1, <2>2 DEF ProviderDecides
  <1> QED
      BY <1>4, <1>5, <1>6, <1>7, <1>8, <1>9, <1>10, <1>11

(* Every action of an operator keeps the invariant.                          *)
LEMMA OperatorSteps ==
  ASSUME NameInv, NEW o \in Operators,
         Query(o) \/ Reconcile(o) \/ ConfirmNoRefund(o) \/ CheckRefused(o) \/ ResetChecks(o)
  PROVE  NameInv'
  <1>1. now' = now /\ UNCHANGED <<noticed, at, answer, asked, movedAt>>
      BY DEF Query, Reconcile, ConfirmNoRefund, CheckRefused, ResetChecks, ledger, provider
  <1>2. CASE record' = record
      BY <1>1, <1>2, NothingBooked DEF bookVars, NameInv, RowsTyped
  <1>3. CASE \E r \in Pending :
                Record(r, "processed", "reconciled") \/ Record(r, "failed", record[r].event)
    <2>1. PICK r \in Pending :
             Record(r, "processed", "reconciled") \/ Record(r, "failed", record[r].event)
        BY <1>3
    <2>2. /\ r \in Requests /\ record[r].status = "pending" /\ r \notin noticed
          /\ record[r].event \in Events /\ record[r].event \in Reservation
          /\ "reconciled" \in Events
        BY DEF Pending, With, NameInv, RowsTyped, NoticedSettled, NamesKept, Events
    <2>3. at[r] \in {"reserved", "calling", "answered", "over"} /\ at' = [at EXCEPT ![r] = at[r]]
        BY <1>1, <2>2 DEF NameInv, RowsTyped, RequestStands
    <2> QED
        BY <1>1, <2>1, <2>2, <2>3, RowWritten
  <1> QED
      BY <1>2, <1>3
      DEF Query, Reconcile, ConfirmNoRefund, CheckRefused, ResetChecks, ledger

(* Every step keeps the invariant.                                           *)
LEMMA NameStep == NameInv /\ [Next]_vars => NameInv'
  <1> SUFFICES ASSUME NameInv, [Next]_vars PROVE NameInv'
      OBVIOUS
  <1>1. ASSUME NEW x \in Refunds, ProviderShows(x) PROVE NameInv'
      BY <1>1, NothingBooked DEF ProviderShows, ledger, bookVars, NameInv, RowsTyped
  <1>2. ASSUME NEW x \in Outside, OutsideRefund(x) PROVE NameInv'
      BY <1>2, MoneyMoved DEF OutsideRefund, ledger, Refunds
  <1>3. CASE Tick
      BY <1>3, NothingBooked DEF Tick, ledger, provider, bookVars, NameInv, RowsTyped
  <1>4. CASE UNCHANGED vars
      BY <1>4, NothingBooked DEF vars, ledger, provider, bookVars, NameInv, RowsTyped
  <1> QED
      BY <1>1, <1>2, <1>3, <1>4, RequestSteps, OperatorSteps, NoticeNames DEF Next

(* The invariant holds of every reachable state.                             *)
THEOREM NameInvariant == Spec => []NameInv
  BY NameInit, NameStep, PTL DEF Spec

(* A refund booked under its own name, or under the trade number, is not     *)
(* booked a second time by a notice, in whatever order answers, operators    *)
(* and notices come.                                                         *)
THEOREM NoticedOnce == Spec => []NamedRefundBookedOnce
  <1>1. NameInv => NamedRefundBookedOnce
      BY DEF NameInv
  <1> QED
      BY <1>1, NameInvariant, PTL

(* A refund that is settled is not touched again by the request that began   *)
(* it, whenever its answer or its timeout comes.                             *)
SettledRowKept ==
    [][\A r \in Requests :
          record[r].status \in {"processed", "failed"} => record'[r] = record[r]]_vars

(* A settled refund row is never written again: every write is of a row that *)
(* does not exist yet, or that still is a reservation.                       *)
THEOREM SettledKept == Spec => SettledRowKept
  <1>1. NameInv /\ [Next]_vars
        => [\A r \in Requests :
              record[r].status \in {"processed", "failed"} => record'[r] = record[r]]_vars
    <2> SUFFICES ASSUME NameInv, [Next]_vars, NEW q \in Requests,
                        record[q].status \in {"processed", "failed"}
                 PROVE  record'[q] = record[q]
        OBVIOUS
    <2>1. ASSUME NEW r \in Requests, r # q, NEW s, NEW e, Record(r, s, e)
          PROVE  record'[q] = record[q]
        BY <2>1 DEF Record, NameInv, RowsTyped
    <2>2. q \notin Pending /\ ~Mine(q) /\ at[q] # "idle"
        BY DEF Pending, With, Mine, NameInv, RequestStands
    <2>3. ASSUME NEW r \in Requests,
                 \/ Reserve(r) \/ Unsendable(r) \/ Send(r) \/ NoAnswer(r)
                 \/ Answered(r) \/ Complete(r) \/ Abandon(r) \/ ProviderDecides(r)
          PROVE  record'[q] = record[q]
      <3>1. record' = record \/ (r # q /\ \E s, e : Record(r, s, e))
          BY <2>2, <2>3
          DEF Reserve, Unsendable, Send, NoAnswer, Answered, Complete, Abandon,
              ProviderDecides, ledger
      <3> QED
          BY <2>1, <3>1
    <2>4. ASSUME NEW o \in Operators,
                 \/ Query(o) \/ Reconcile(o) \/ ConfirmNoRefund(o)
                 \/ CheckRefused(o) \/ ResetChecks(o)
          PROVE  record'[q] = record[q]
      <3>1. record' = record \/ \E r \in Pending : \E s, e : Record(r, s, e)
          BY <2>4
          DEF Query, Reconcile, ConfirmNoRefund, CheckRefused, ResetChecks, ledger
      <3>2. \A r \in Pending : r \in Requests /\ r # q
          BY <2>2 DEF Pending, With
      <3> QED
          BY <2>1, <3>1, <3>2
    <2>5. CASE \/ \E x \in Refunds : ProviderShows(x) \/ NoticeBooks(x)
               \/ \E x \in Outside : OutsideRefund(x)
               \/ Tick \/ UNCHANGED vars
        BY <2>5 DEF ProviderShows, NoticeBooks, OutsideRefund, Tick, ledger, vars
    <2> QED
        BY <2>3, <2>4, <2>5 DEF Next
  <1> QED
      BY <1>1, NameInvariant, PTL DEF Spec, SettledRowKept

-----------------------------------------------------------------------------
(* What refunds are worth is a natural number, more refunds are worth no     *)
(* less, and one more or less changes it by that one's amount.               *)

LEMMA WorthTotal == \A S : Worth(S) = Total(Amount, S)
  BY DEF Worth, Total, MapThenSumSet, MapThenFoldSet

LEMMA RefundsFinite == IsFiniteSet(Refunds) /\ \A S \in SUBSET Refunds : IsFiniteSet(S)
  <1>1. IsFiniteSet(Refunds)
      BY RefundAssumption, FS_Union DEF RefundAssumption, Refunds
  <1> QED
      BY <1>1, FS_Subset

LEMMA AmountsNat == Amount \in [Refunds -> Nat] /\ \A x \in Refunds : Amount[x] > 0
  BY RefundAssumption DEF RefundAssumption

LEMMA WorthEmpty == Worth({}) = 0
  BY WorthTotal, TotalEmpty

LEMMA WorthNat == ASSUME NEW S \in SUBSET Refunds PROVE Worth(S) \in Nat
  BY WorthTotal, TotalNat, RefundsFinite, AmountsNat

LEMMA WorthAdd ==
  ASSUME NEW S \in SUBSET Refunds, NEW x \in Refunds \ S
  PROVE  Worth(S \cup {x}) = Worth(S) + Amount[x]
  BY WorthTotal, TotalAdd, RefundsFinite, AmountsNat

LEMMA WorthRemove ==
  ASSUME NEW S \in SUBSET Refunds, NEW x \in S
  PROVE  Worth(S) = Amount[x] + Worth(S \ {x})
  BY WorthTotal, TotalRemove, RefundsFinite, AmountsNat

LEMMA WorthMonotone ==
  ASSUME NEW S \in SUBSET Refunds, NEW T \in SUBSET S
  PROVE  Worth(T) <= Worth(S)
  BY WorthTotal, TotalMonotone, RefundsFinite, AmountsNat

-----------------------------------------------------------------------------
(* The amounts of the trade.  One reservation at most is pending; the total  *)
(* and the status are what the booked rows and notices add up to, and leave  *)
(* room for what is reserved.                                                *)
OneReserved == \A p, q \in Pending : p = q

Accounts ==
    /\ status \in {"paid", "partially_refunded", "refunded"}
    /\ refunded \in 0..Gross
    /\ TotalExplained
    /\ OneReserved
    /\ Processed + Worth(Pending) <= Gross

(* The columns the accounts do not speak of have their types.                *)
DeskTyped ==
    /\ reservedAt \in [Requests -> Nat]
    /\ checks \in [Requests -> Nat]
    /\ lastCheck \in [Requests -> Nat]
    /\ desk \in [Operators -> [at : {"idle", "reconcile", "check", "release", "reset"},
                               snapshot : Nat, target : SUBSET Requests]]
    /\ shown \subseteq Refunds
    /\ closing \subseteq Refunds

LedgerInv == NameInv /\ Accounts /\ DeskTyped

(* The parts of the ledger are sets of refunds, which can be summed.         *)
LEMMA PartsOfLedger ==
  ASSUME RowsTyped
  PROVE  /\ \A s : With(s) \in SUBSET Refunds
         /\ Pending \in SUBSET Refunds /\ noticed \in SUBSET Refunds /\ Moved \in SUBSET Refunds
         /\ Worth(With("processed")) \in Nat /\ Worth(noticed) \in Nat /\ Worth(Pending) \in Nat
         /\ Processed \in Nat
  <1>1. /\ \A s : With(s) \in SUBSET Refunds
        /\ Pending \in SUBSET Refunds /\ noticed \in SUBSET Refunds /\ Moved \in SUBSET Refunds
      BY DEF With, Pending, Moved, RowsTyped, Refunds
  <1>2. Worth(With("processed")) \in Nat /\ Worth(noticed) \in Nat /\ Worth(Pending) \in Nat
      BY <1>1, WorthNat
  <1> QED
      BY <1>1, <1>2 DEF Processed

(* A written row is in the part its status says and in no other.             *)
LEMMA RowMoves ==
  ASSUME RowsTyped, NEW r \in Requests, NEW s, NEW e, Record(r, s, e)
  PROVE  \A t : With(t)' = IF t = s THEN With(t) \cup {r} ELSE With(t) \ {r}
  BY DEF With, Record, RowsTyped

(* Being the only one is what the code's count of pending rows says.         *)
LEMMA OneCounted ==
  ASSUME RowsTyped PROVE OneReserved <=> Cardinality(Pending) <= 1
  <1>1. IsFiniteSet(Pending)
      BY PartsOfLedger, RefundsFinite
  <1>2. CASE Pending = {}
      BY <1>2, FS_EmptySet DEF OneReserved
  <1>3. CASE Pending # {}
    <2>1. PICK p \in Pending : TRUE
        BY <1>3
    <2>2. /\ Cardinality(Pending \ {p}) = Cardinality(Pending) - 1
          /\ Cardinality(Pending) \in Nat /\ IsFiniteSet(Pending \ {p})
        BY <1>1, <2>1, FS_RemoveElement, FS_CardinalityType
    <2>3. Cardinality(Pending \ {p}) = 0 <=> Pending \ {p} = {}
        BY <2>2, FS_EmptySet
    <2>4. Cardinality(Pending \ {p}) \in Nat
        BY <2>2, FS_CardinalityType
    <2>5. OneReserved <=> Pending \ {p} = {}
        BY <2>1 DEF OneReserved
    <2> QED
        BY <2>2, <2>3, <2>4, <2>5
  <1> QED
      BY <1>2, <1>3

LEMMA StatusTyped == \A amount : StatusOf(amount) \in {"paid", "partially_refunded", "refunded"}
  BY DEF StatusOf

(* The accounts hold before the first request.                               *)
LEMMA AccountsInit == Init => Accounts /\ DeskTyped
  <1> SUFFICES ASSUME Init PROVE Accounts /\ DeskTyped
      OBVIOUS
  <1>1. Gross \in Nat \ {0}
      BY RefundAssumption DEF RefundAssumption
  <1>2. With("processed") = {} /\ Pending = {} /\ noticed = {}
      BY DEF Init, With, Pending
  <1>3. Processed = 0 /\ Worth(Pending) = 0
      BY <1>2, WorthEmpty DEF Processed
  <1>4. StatusOf(0) = "paid"
      BY <1>1 DEF StatusOf
  <1>5. Accounts
      BY <1>1, <1>2, <1>3, <1>4 DEF Init, Accounts, TotalExplained, OneReserved
  <1>6. DeskTyped
      BY DEF Init, DeskTyped, NoDesk
  <1> QED
      BY <1>5, <1>6

(* A step that books nothing and reserves nothing keeps the accounts.        *)
LEMMA NoneBooked ==
  ASSUME NameInv, Accounts,
         With("processed")' = With("processed"), Pending' \subseteq Pending,
         UNCHANGED <<status, refunded, noticed>>
  PROVE  Accounts'
  <1>1. RowsTyped /\ Gross \in Nat
      BY RefundAssumption DEF NameInv, RefundAssumption
  <1>2. Processed' = Processed
      BY DEF Processed
  <1>3. Worth(Pending') <= Worth(Pending) /\ Worth(Pending') \in Nat
      BY <1>1, PartsOfLedger, WorthMonotone, WorthNat
  <1>4. (Worth(Pending))' = Worth(Pending')
      OBVIOUS
  <1>5. TotalExplained'
      BY <1>2 DEF Accounts, TotalExplained, StatusOf
  <1>6. OneReserved'
      BY DEF Accounts, OneReserved
  <1> QED
      BY <1>1, <1>2, <1>3, <1>4, <1>5, <1>6, PartsOfLedger DEF Accounts

(* A reservation is made when nothing is pending, for an amount that is left. *)
LEMMA ReservationFits ==
  ASSUME NameInv, Accounts, NEW r \in Requests, Reserve(r)
  PROVE  Accounts'
  <1>1. RowsTyped /\ Gross \in Nat
      BY RefundAssumption DEF NameInv, RefundAssumption
  <1>2. record[r].status = "none"
      BY DEF Reserve, NameInv, RequestStands
  <1>3. With("processed")' = With("processed") /\ Pending' = {r}
    <2>1. \A t : With(t)' = IF t = "pending" THEN With(t) \cup {r} ELSE With(t) \ {r}
        BY <1>1, RowMoves DEF Reserve
    <2> QED
        BY <1>2, <2>1 DEF Reserve, Pending, With
  <1>4. Processed' = Processed
      BY <1>3 DEF Reserve, Processed
  <1>5. (Worth(Pending))' = Worth({r})
      BY <1>3
  <1>6. Worth({r}) = Amount[r]
    <2>1. {} \in SUBSET Refunds /\ r \in Refunds \ {} /\ {} \cup {r} = {r}
        BY DEF Refunds
    <2> QED
        BY <2>1, WorthAdd, WorthEmpty, AmountsNat
  <1>7. TotalExplained'
      BY <1>4 DEF Reserve, Accounts, TotalExplained, StatusOf
  <1>8. OneReserved'
      BY <1>3 DEF OneReserved
  <1>9. Processed \in Nat /\ Amount[r] \in Nat
      BY <1>1, PartsOfLedger, AmountsNat DEF Refunds
  <1> QED
      BY <1>1, <1>4, <1>5, <1>6, <1>7, <1>8, <1>9 DEF Accounts, Reserve

(* Booking the reservation moves its amount from what is reserved to what is *)
(* booked.                                                                   *)
LEMMA ReservationBooked ==
  ASSUME NameInv, Accounts, NEW r \in Pending, NEW e, Record(r, "processed", e),
         Book(Amount[r]), noticed' = noticed
  PROVE  Accounts'
  <1>1. RowsTyped /\ Gross \in Nat
      BY RefundAssumption DEF NameInv, RefundAssumption
  <1>2. r \in Requests /\ r \in Refunds /\ Amount[r] \in Nat /\ r \notin With("processed")
      BY AmountsNat DEF Pending, With, Refunds
  <1>3. With("processed")' = With("processed") \cup {r} /\ Pending' = Pending \ {r}
      BY <1>1, <1>2, RowMoves DEF Pending
  <1>4. (Worth(With("processed")))' = Worth(With("processed")) + Amount[r]
    <2>1. (Worth(With("processed")))' = Worth(With("processed") \cup {r})
        BY <1>3
    <2> QED
        BY <1>1, <1>2, <2>1, PartsOfLedger, WorthAdd
  <1>5. Worth(Pending) = Amount[r] + (Worth(Pending))' /\ (Worth(Pending))' \in Nat
    <2>1. (Worth(Pending))' = Worth(Pending \ {r})
        BY <1>3
    <2>2. Pending \in SUBSET Refunds /\ Pending \ {r} \in SUBSET Refunds
        BY <1>1, PartsOfLedger
    <2> QED
        BY <2>1, <2>2, WorthRemove, WorthNat
  <1>6. /\ Worth(With("processed")) \in Nat /\ Worth(noticed) \in Nat
        /\ (Worth(noticed))' = Worth(noticed)
      BY <1>1, PartsOfLedger
  <1>7. Processed' = Processed + Amount[r] /\ Processed \in Nat
      BY <1>2, <1>4, <1>6 DEF Processed
  <1>8. Processed' + (Worth(Pending))' = Processed + Worth(Pending)
      BY <1>2, <1>5, <1>7
  <1>9. TotalExplained' /\ refunded' \in 0..Gross
      BY <1>1, <1>2, <1>5, <1>7 DEF Accounts, TotalExplained, Book, StatusOf
  <1>10. OneReserved'
      BY <1>3 DEF Accounts, OneReserved
  <1> QED
      BY <1>8, <1>9, <1>10, StatusTyped DEF Accounts, Book

(* A notice is booked beside no reservation, within what is left.            *)
LEMMA NoticeBooked ==
  ASSUME NameInv, Accounts, NEW x \in Refunds, NoticeBooks(x)
  PROVE  Accounts'
  <1>1. RowsTyped /\ Gross \in Nat
      BY RefundAssumption DEF NameInv, RefundAssumption
  <1>2. With("processed")' = With("processed") /\ Pending' = Pending /\ Pending = {}
      BY DEF NoticeBooks, NoticeFits, With, Pending
  <1>3. x \notin noticed /\ Amount[x] \in Nat /\ Amount[x] <= Gross - refunded
      BY AmountsNat DEF NoticeBooks, NoticeFits, KeepsTo, Taken
  <1>4. (Worth(noticed))' = Worth(noticed) + Amount[x]
    <2>1. (Worth(noticed))' = Worth(noticed \cup {x})
        BY DEF NoticeBooks
    <2> QED
        BY <1>1, <1>3, <2>1, PartsOfLedger, WorthAdd
  <1>5. (Worth(With("processed")))' = Worth(With("processed")) /\ (Worth(Pending))' = 0
      BY <1>2, WorthEmpty
  <1>6. Processed' = Processed + Amount[x] /\ Processed \in Nat
      BY <1>1, <1>3, <1>4, <1>5, PartsOfLedger DEF Processed
  <1>7. TotalExplained' /\ refunded' \in 0..Gross
      BY <1>1, <1>3, <1>6 DEF Accounts, TotalExplained, NoticeBooks, Book, StatusOf
  <1>8. Processed' + (Worth(Pending))' <= Gross
      BY <1>1, <1>3, <1>5, <1>6 DEF Accounts, TotalExplained
  <1> QED
      BY <1>2, <1>7, <1>8, StatusTyped DEF Accounts, NoticeBooks, Book, OneReserved

(* Every step of a request keeps the accounts.                               *)
LEMMA RequestAccounts ==
  ASSUME NameInv, Accounts, NEW r \in Requests,
         \/ Reserve(r) \/ Unsendable(r) \/ Send(r) \/ NoAnswer(r)
         \/ Answered(r) \/ Complete(r) \/ Abandon(r) \/ ProviderDecides(r)
  PROVE  Accounts'
  <1>1. RowsTyped
      BY DEF NameInv
  <1>2. CASE UNCHANGED ledger
    <2>1. With("processed")' = With("processed") /\ Pending' \subseteq Pending
        BY <1>2 DEF ledger, With, Pending
    <2> QED
        BY <1>2, <2>1, NoneBooked DEF ledger
  <1>3. CASE /\ Mine(r) /\ UNCHANGED <<status, refunded, noticed>>
             /\ \E s \in {"pending", "failed"} : \E e : Record(r, s, e)
    <2>1. PICK s \in {"pending", "failed"} : \E e : Record(r, s, e)
        BY <1>3
    <2>2. \A t : With(t)' = IF t = s THEN With(t) \cup {r} ELSE With(t) \ {r}
        BY <1>1, <2>1, RowMoves
    <2>3. r \in Pending /\ r \notin With("processed")
        BY <1>3 DEF Mine, Pending, With
    <2>4. With("processed")' = With("processed") /\ Pending' \subseteq Pending
        BY <2>1, <2>2, <2>3 DEF Pending
    <2> QED
        BY <1>3, <2>4, NoneBooked
  <1>4. CASE Reserve(r)
      BY <1>4, ReservationFits
  <1>5. CASE Complete(r)
      BY <1>5, ReservationBooked DEF Complete, Mine, Pending, With
  <1> QED
      BY <1>2, <1>3, <1>4, <1>5
      DEF Unsendable, Send, NoAnswer, Answered, Abandon, ProviderDecides, ledger

(* Every step of an operator keeps the accounts.                             *)
LEMMA OperatorAccounts ==
  ASSUME NameInv, Accounts, NEW o \in Operators,
         Query(o) \/ Reconcile(o) \/ ConfirmNoRefund(o) \/ CheckRefused(o) \/ ResetChecks(o)
  PROVE  Accounts'
  <1>1. RowsTyped
      BY DEF NameInv
  <1>2. CASE UNCHANGED ledger
    <2>1. With("processed")' = With("processed") /\ Pending' \subseteq Pending
        BY <1>2 DEF ledger, With, Pending
    <2> QED
        BY <1>2, <2>1, NoneBooked DEF ledger
  <1>3. CASE /\ UNCHANGED <<status, refunded, noticed>>
             /\ \E r \in Pending : Record(r, "failed", record[r].event)
    <2>1. PICK r \in Pending : Record(r, "failed", record[r].event)
        BY <1>3
    <2>2. r \in Requests /\ r \notin With("processed")
        BY DEF Pending, With
    <2>3. \A t : With(t)' = IF t = "failed" THEN With(t) \cup {r} ELSE With(t) \ {r}
        BY <1>1, <2>1, <2>2, RowMoves
    <2>4. With("processed")' = With("processed") /\ Pending' \subseteq Pending
        BY <2>2, <2>3 DEF Pending
    <2> QED
        BY <1>3, <2>4, NoneBooked
  <1>4. CASE /\ noticed' = noticed
             /\ \E r \in Pending : Record(r, "processed", "reconciled") /\ Book(Amount[r])
      BY <1>4, ReservationBooked
  <1> QED
      BY <1>2, <1>3, <1>4
      DEF Query, Reconcile, ConfirmNoRefund, CheckRefused, ResetChecks, ledger

(* Every step keeps the accounts.                                            *)
LEMMA AccountsStep == NameInv /\ Accounts /\ [Next]_vars => Accounts'
  <1> SUFFICES ASSUME NameInv, Accounts, [Next]_vars PROVE Accounts'
      OBVIOUS
  <1>1. CASE UNCHANGED ledger
    <2>1. With("processed")' = With("processed") /\ Pending' \subseteq Pending
        BY <1>1 DEF ledger, With, Pending
    <2> QED
        BY <1>1, <2>1, NoneBooked DEF ledger
  <1>2. ASSUME NEW x \in Refunds, ProviderShows(x) PROVE Accounts'
      BY <1>1, <1>2 DEF ProviderShows
  <1>3. ASSUME NEW x \in Outside, OutsideRefund(x) PROVE Accounts'
      BY <1>1, <1>3 DEF OutsideRefund
  <1>4. CASE Tick
      BY <1>1, <1>4 DEF Tick
  <1>5. CASE UNCHANGED vars
      BY <1>1, <1>5 DEF vars
  <1> QED
      BY <1>2, <1>3, <1>4, <1>5, RequestAccounts, OperatorAccounts, NoticeBooked DEF Next

(* What an operator works with is a sum of refunds, and what the code keeps  *)
(* of a reservation's age and checks are times and counts.                   *)
LEMMA DeskTypedStep == NameInv /\ DeskTyped /\ [Next]_vars => DeskTyped'
  <1> SUFFICES ASSUME NameInv, DeskTyped, [Next]_vars PROVE DeskTyped'
      OBVIOUS
  <1>1. now \in Nat
      BY DEF NameInv, RowsTyped
  <1>2. CASE UNCHANGED <<hold, desk, shown, closing>>
      BY <1>2 DEF DeskTyped, hold
  <1>3. ASSUME NEW r \in Requests,
               \/ Reserve(r) \/ Unsendable(r) \/ Send(r) \/ NoAnswer(r)
               \/ Answered(r) \/ Complete(r) \/ Abandon(r) \/ ProviderDecides(r)
        PROVE  DeskTyped'
    <2>1. CASE Reserve(r)
        BY <1>1, <2>1 DEF Reserve, DeskTyped, provider
    <2>2. CASE ProviderDecides(r)
        BY <2>2 DEF ProviderDecides, MoneyMoves, DeskTyped, hold, Refunds
    <2> QED
        BY <1>2, <1>3, <2>1, <2>2
        DEF Unsendable, Send, NoAnswer, Answered, Complete, Abandon, provider
  <1>4. ASSUME NEW o \in Operators,
               Query(o) \/ Reconcile(o) \/ ConfirmNoRefund(o) \/ CheckRefused(o) \/ ResetChecks(o)
        PROVE  DeskTyped'
    <2>1. UNCHANGED <<shown, closing, reservedAt>>
        BY <1>4
        DEF Query, Reconcile, ConfirmNoRefund, CheckRefused, ResetChecks, provider, hold
    <2>2. checks' \in [Requests -> Nat] /\ lastCheck' \in [Requests -> Nat]
      <3>1. CASE ConfirmNoRefund(o)
          BY <1>1, <3>1 DEF ConfirmNoRefund, DeskTyped, Pending, With
      <3>2. CASE ResetChecks(o)
          BY <3>2 DEF ResetChecks, DeskTyped
      <3> QED
          BY <1>4, <3>1, <3>2 DEF Query, Reconcile, CheckRefused, DeskTyped, hold
    <2>3. Worth(shown) \in Nat /\ desk[o].snapshot \in Nat
        BY WorthNat DEF DeskTyped
    <2>4. \/ Leave(o)
          \/ \E place \in {"reconcile", "check", "release", "reset"}, snapshot \in Nat,
                target \in SUBSET Requests : Desk(o, place, snapshot, target)
        BY <1>4, <2>3
        DEF Query, Reconcile, ConfirmNoRefund, CheckRefused, ResetChecks
    <2>5. desk' \in [Operators -> [at : {"idle", "reconcile", "check", "release", "reset"},
                                   snapshot : Nat, target : SUBSET Requests]]
        BY <2>4 DEF Leave, Desk, NoDesk, DeskTyped
    <2> QED
        BY <2>1, <2>2, <2>5 DEF DeskTyped
  <1>5. ASSUME NEW x \in Refunds, ProviderShows(x) \/ NoticeBooks(x) PROVE DeskTyped'
      BY <1>2, <1>5 DEF ProviderShows, NoticeBooks, Moved, DeskTyped, hold, provider
  <1>6. ASSUME NEW x \in Outside, OutsideRefund(x) PROVE DeskTyped'
      BY <1>6 DEF OutsideRefund, MoneyMoves, DeskTyped, hold, Refunds
  <1>7. CASE Tick
      BY <1>2, <1>7 DEF Tick, provider
  <1>8. CASE UNCHANGED vars
      BY <1>2, <1>8 DEF vars, provider
  <1> QED
      BY <1>3, <1>4, <1>5, <1>6, <1>7, <1>8 DEF Next

(* The invariant of the ledger holds of every reachable state.               *)
THEOREM LedgerInvariant == Spec => []LedgerInv
  <1>1. Init => LedgerInv
      BY NameInit, AccountsInit DEF LedgerInv
  <1>2. LedgerInv /\ [Next]_vars => LedgerInv'
      BY NameStep, AccountsStep, DeskTypedStep DEF LedgerInv
  <1> QED
      BY <1>1, <1>2, PTL DEF Spec

(* Every variable keeps its type.                                            *)
THEOREM Typed == Spec => []TypeOK
  <1>1. LedgerInv => TypeOK
      BY DEF LedgerInv, NameInv, RowsTyped, RowStatus, Accounts, DeskTyped, TypeOK
  <1> QED
      BY <1>1, LedgerInvariant, PTL

(* The trade's total and status are what its refund rows and booked notices  *)
(* add up to, whoever books them and in whatever order.                      *)
THEOREM Explained == Spec => []TotalExplained
  <1>1. LedgerInv => TotalExplained
      BY DEF LedgerInv, Accounts
  <1> QED
      BY <1>1, LedgerInvariant, PTL

(* One reservation at most is pending, and what is reserved and booked never *)
(* exceeds the trade.                                                        *)
THEOREM ReservedOnce == Spec => []ReservationExclusive
  <1>1. LedgerInv => ReservationExclusive
      BY OneCounted DEF LedgerInv, NameInv, Accounts, ReservationExclusive
  <1> QED
      BY <1>1, LedgerInvariant, PTL

-----------------------------------------------------------------------------
(* Why a release is safe.  The call of a request is over in the tick of its  *)
(* reservation; the checks of a reservation take at least the time by which  *)
(* the provider's query shows what that call did; and what an operator works *)
(* with counts everything that is old enough to be shown.                    *)

CallsInTime ==
    \A r \in Requests :
        /\ at[r] \in {"reserved", "calling", "answered"} \/ asked[r] = "sent"
              => reservedAt[r] = now
        /\ asked[r] = "sent" => at[r] \in {"calling", "over"}
        /\ asked[r] = "refunded" => r \in Moved
        /\ r \in Moved => movedAt[r] = reservedAt[r]

ShownInTime ==
    /\ shown \subseteq Moved
    /\ \A x \in Moved : movedAt[x] <= now
    /\ \A x \in Moved \ shown : now - movedAt[x] < MaxLag

StreakTakesTime ==
    \A r \in Requests :
        /\ at[r] = "idle" => checks[r] = 0
        /\ checks[r] > 0
              => lastCheck[r] >= reservedAt[r] + Window + (checks[r] - 1) * Interval

Old == {x \in Moved : now - movedAt[x] >= MaxLag}

SnapshotsFresh ==
    \A o \in Operators :
        desk[o].at \in {"reconcile", "check", "release"}
        => \E S \in SUBSET shown : Old \subseteq S /\ desk[o].snapshot = Worth(S)

TimeInv == CallsInTime /\ ShownInTime /\ StreakTakesTime /\ SnapshotsFresh

(* So long as no notice was booked and no request was given the answer of    *)
(* another one, the ledger is covered by refunds that are not reserved: by   *)
(* those of the time before the reservation, when there is one.  A release   *)
(* that sees the ledger's amount therefore does not see the reserved refund. *)
OwnAnswers == noticed = {} /\ \A r \in Requests : asked[r] # "repeated"

MovedBefore(r) == {x \in Moved \ {r} : movedAt[x] <= reservedAt[r]}

BookedHasMoved ==
    /\ refunded <= Worth(Moved \ Pending)
    /\ \A r \in Pending : refunded <= Worth(MovedBefore(r))

FailedNeverSent ==
    \A r \in With("failed") : at[r] = "over" /\ asked[r] # "sent" /\ r \notin Moved

MoneyInv == OwnAnswers => BookedHasMoved /\ FailedNeverSent

HoldInv == LedgerInv /\ TimeInv /\ MoneyInv

(* The invariant holds before the first request.                             *)
LEMMA HoldInit == Init => TimeInv /\ MoneyInv
  <1> SUFFICES ASSUME Init PROVE TimeInv /\ MoneyInv
      OBVIOUS
  <1>1. Moved = {} /\ Pending = {} /\ With("failed") = {}
      BY DEF Init, Moved, Pending, With
  <1>2. TimeInv
      BY <1>1 DEF Init, TimeInv, CallsInTime, ShownInTime, StreakTakesTime, SnapshotsFresh, NoDesk
  <1>3. refunded <= Worth(Moved \ Pending)
      BY <1>1, WorthEmpty DEF Init
  <1>4. MoneyInv
      BY <1>1, <1>3 DEF MoneyInv, BookedHasMoved, FailedNeverSent
  <1> QED
      BY <1>2, <1>4

(* Money that moves, moves now, and once.                                    *)
LEMMA MovesNow ==
  ASSUME RowsTyped, NEW x \in Refunds, MoneyMoves(x)
  PROVE  /\ x \notin Moved /\ Moved' = Moved \cup {x}
         /\ movedAt'[x] = now
         /\ \A y \in Moved : movedAt'[y] = movedAt[y]
  BY DEF MoneyMoves, Room, Moved, RowsTyped, NotMoved

(* What an operator, a notice or the query's delay does leaves the calls     *)
(* alone.                                                                    *)
LEMMA CallsStep ==
  ASSUME LedgerInv, TimeInv, [Next]_vars PROVE CallsInTime'
  <1>1. RowsTyped /\ RequestStands /\ DeskTyped /\ CallsInTime
      BY DEF LedgerInv, NameInv, TimeInv
  <1>2. CASE UNCHANGED <<reservedAt, at, asked, movedAt, now>>
      BY <1>1, <1>2 DEF CallsInTime, Moved
  <1>3. ASSUME NEW r \in Requests,
               \/ Reserve(r) \/ Unsendable(r) \/ Send(r) \/ NoAnswer(r)
               \/ Answered(r) \/ Complete(r) \/ Abandon(r) \/ ProviderDecides(r)
        PROVE  CallsInTime'
    <2> SUFFICES ASSUME NEW q \in Requests PROVE CallsInTime!(q)'
        BY DEF CallsInTime
    <2>1. CASE Reserve(r)
        BY <1>1, <2>1 DEF Reserve, Go, provider, CallsInTime, Moved, DeskTyped, RowsTyped, RequestStands
    <2>2. CASE Send(r)
        BY <1>1, <2>2 DEF Send, Go, hold, CallsInTime, Moved, RowsTyped, RequestStands
    <2>3. CASE Unsendable(r) \/ NoAnswer(r) \/ Answered(r) \/ Complete(r) \/ Abandon(r)
      <3>1. UNCHANGED <<reservedAt, asked, movedAt, now>>
          BY <2>3 DEF Unsendable, NoAnswer, Answered, Complete, Abandon, hold, provider
      <3>2. /\ at[r] \in {"reserved", "calling", "answered"}
            /\ \/ Go(r, "over")
               \/ Go(r, "answered") /\ at[r] = "calling" /\ asked[r] \in {"refunded", "repeated"}
          BY <2>3 DEF Unsendable, NoAnswer, Answered, Complete, Abandon
      <3> QED
          BY <1>1, <3>1, <3>2 DEF Go, CallsInTime, Moved, RowsTyped, RequestStands
    <2>4. CASE ProviderDecides(r)
      <3>1. asked[r] = "sent" /\ UNCHANGED <<reservedAt, at, now>>
          BY <2>4 DEF ProviderDecides, hold
      <3>2. CASE MoneyMoves(r) /\ asked' = [asked EXCEPT ![r] = "refunded"]
        <4>1. r \in Refunds
            BY DEF Refunds
        <4>2. /\ Moved' = Moved \cup {r} /\ movedAt'[r] = now
              /\ \A y \in Moved : movedAt'[y] = movedAt[y]
            BY <1>1, <3>2, <4>1, MovesNow
        <4> QED
            BY <1>1, <3>1, <3>2, <4>2 DEF CallsInTime, RowsTyped
      <3>3. CASE /\ movedAt' = movedAt
                 /\ \E s \in {"refused", "repeated"} : asked' = [asked EXCEPT ![r] = s]
          BY <1>1, <3>1, <3>3 DEF CallsInTime, RowsTyped, Moved
      <3> QED
          BY <2>4, <3>2, <3>3 DEF ProviderDecides
    <2> QED
        BY <1>3, <2>1, <2>2, <2>3, <2>4
  <1>4. ASSUME NEW o \in Operators,
               Query(o) \/ Reconcile(o) \/ ConfirmNoRefund(o) \/ CheckRefused(o) \/ ResetChecks(o)
        PROVE  CallsInTime'
      BY <1>2, <1>4
      DEF Query, Reconcile, ConfirmNoRefund, CheckRefused, ResetChecks, provider, hold
  <1>5. ASSUME NEW x \in Refunds, ProviderShows(x) \/ NoticeBooks(x) PROVE CallsInTime'
      BY <1>2, <1>5 DEF ProviderShows, NoticeBooks, hold, provider
  <1>6. ASSUME NEW x \in Outside, OutsideRefund(x) PROVE CallsInTime'
    <2>1. x \in Refunds /\ x \notin Requests
        BY RefundAssumption DEF RefundAssumption, Refunds
    <2>2. Moved' = Moved \cup {x} /\ \A y \in Moved : movedAt'[y] = movedAt[y]
        BY <1>1, <1>6, <2>1, MovesNow DEF OutsideRefund
    <2> QED
        BY <1>1, <1>6, <2>1, <2>2 DEF OutsideRefund, CallsInTime, hold
  <1>7. CASE Tick
      BY <1>1, <1>7 DEF Tick, CallsInTime, hold, provider, Moved, RowsTyped, RequestStands
  <1>8. CASE UNCHANGED vars
      BY <1>2, <1>8 DEF vars, hold, provider
  <1> QED
      BY <1>3, <1>4, <1>5, <1>6, <1>7, <1>8 DEF Next

(* The query is never further behind than its delay: time waits for it.      *)
LEMMA ShownStep ==
  ASSUME LedgerInv, TimeInv, [Next]_vars PROVE ShownInTime'
  <1>1. RowsTyped /\ ShownInTime /\ MaxLag \in Nat \ {0} /\ now \in Nat
      BY RefundAssumption DEF LedgerInv, NameInv, RowsTyped, TimeInv, RefundAssumption
  <1>2. CASE UNCHANGED <<movedAt, shown, now>>
      BY <1>1, <1>2 DEF ShownInTime, Moved
  <1>3. ASSUME NEW x \in Refunds, MoneyMoves(x), UNCHANGED <<shown, now>> PROVE ShownInTime'
    <2>1. /\ Moved' = Moved \cup {x} /\ movedAt'[x] = now
          /\ \A y \in Moved : movedAt'[y] = movedAt[y]
        BY <1>1, <1>3, MovesNow
    <2> QED
        BY <1>1, <1>3, <2>1 DEF ShownInTime
  <1>4. ASSUME NEW r \in Requests,
               \/ Reserve(r) \/ Unsendable(r) \/ Send(r) \/ NoAnswer(r)
               \/ Answered(r) \/ Complete(r) \/ Abandon(r) \/ ProviderDecides(r)
        PROVE  ShownInTime'
      BY <1>2, <1>3, <1>4
      DEF Reserve, Unsendable, Send, NoAnswer, Answered, Complete, Abandon,
          ProviderDecides, provider, Refunds
  <1>5. ASSUME NEW o \in Operators,
               Query(o) \/ Reconcile(o) \/ ConfirmNoRefund(o) \/ CheckRefused(o) \/ ResetChecks(o)
        PROVE  ShownInTime'
      BY <1>2, <1>5
      DEF Query, Reconcile, ConfirmNoRefund, CheckRefused, ResetChecks, provider
  <1>6. ASSUME NEW x \in Refunds, ProviderShows(x) PROVE ShownInTime'
      BY <1>1, <1>6 DEF ProviderShows, ShownInTime, Moved
  <1>7. ASSUME NEW x \in Refunds, NoticeBooks(x) PROVE ShownInTime'
      BY <1>2, <1>7 DEF NoticeBooks, provider
  <1>8. ASSUME NEW x \in Outside, OutsideRefund(x) PROVE ShownInTime'
      BY <1>3, <1>8 DEF OutsideRefund, Refunds
  <1>9. CASE Tick
    <2>1. Moved' = Moved /\ \A x \in Moved : movedAt[x] \in Nat
        BY <1>1, <1>9 DEF Tick, provider, Moved, RowsTyped
    <2> QED
        BY <1>1, <1>9, <2>1 DEF Tick, provider, ShownInTime
  <1>10. CASE UNCHANGED vars
      BY <1>2, <1>10 DEF vars, provider
  <1> QED
      BY <1>4, <1>5, <1>6, <1>7, <1>8, <1>9, <1>10 DEF Next

(* A check that counts comes an interval after the one before it.            *)
LEMMA StreakStep ==
  ASSUME LedgerInv, TimeInv, [Next]_vars PROVE StreakTakesTime'
  <1>1. RowsTyped /\ RequestStands /\ DeskTyped /\ StreakTakesTime
      BY DEF LedgerInv, NameInv, TimeInv
  <1>2. Window \in Nat /\ Interval \in Nat /\ now \in Nat
      BY <1>1, RefundAssumption DEF RefundAssumption, RowsTyped
  <1>3. ASSUME UNCHANGED hold, \A r \in Requests : at'[r] = "idle" => at[r] = "idle"
        PROVE  StreakTakesTime'
      BY <1>1, <1>3 DEF StreakTakesTime, hold
  <1>4. ASSUME NEW r \in Requests,
               \/ Reserve(r) \/ Unsendable(r) \/ Send(r) \/ NoAnswer(r)
               \/ Answered(r) \/ Complete(r) \/ Abandon(r) \/ ProviderDecides(r)
        PROVE  StreakTakesTime'
    <2>1. CASE Reserve(r)
        BY <1>1, <2>1 DEF Reserve, Go, StreakTakesTime, DeskTyped, RowsTyped
    <2>2. CASE \E place \in {"calling", "answered", "over"} : Go(r, place)
        BY <1>1, <1>3, <1>4, <2>1, <2>2
        DEF Go, Unsendable, Send, NoAnswer, Answered, Complete, Abandon,
            ProviderDecides, RowsTyped
    <2>3. CASE at' = at
        BY <1>3, <1>4, <2>1, <2>3
        DEF Unsendable, Send, NoAnswer, Answered, Complete, Abandon, ProviderDecides
    <2> QED
        BY <1>4, <2>1, <2>2, <2>3
        DEF Unsendable, Send, NoAnswer, Answered, Complete, Abandon, ProviderDecides
  <1>5. ASSUME NEW o \in Operators,
               Query(o) \/ Reconcile(o) \/ ConfirmNoRefund(o) \/ CheckRefused(o) \/ ResetChecks(o)
        PROVE  StreakTakesTime'
    <2>1. CASE UNCHANGED <<checks, lastCheck>>
        BY <1>3, <1>5, <2>1
        DEF Query, Reconcile, ConfirmNoRefund, CheckRefused, ResetChecks, hold
    <2>2. ASSUME NEW r \in Pending, Countable(r), UNCHANGED <<reservedAt, at>>,
                 checks' = [checks EXCEPT ![r] = checks[r] + 1],
                 lastCheck' = [lastCheck EXCEPT ![r] = now]
          PROVE  StreakTakesTime'
      <3>1. r \in Requests /\ at[r] # "idle"
          BY <1>1 DEF Pending, With, RequestStands
      <3>2. lastCheck'[r] = now /\ checks'[r] = checks[r] + 1 /\ checks[r] \in Nat
          BY <1>1, <2>2, <3>1 DEF DeskTyped
      <3>3. now >= reservedAt[r] + Window + checks[r] * Interval
        <4>1. CASE checks[r] = 0
          <5>1. checks[r] * Interval = 0
              BY <1>2, <4>1
          <5> QED
              BY <1>1, <1>2, <2>2, <3>1, <5>1 DEF Countable, DeskTyped
        <4>2. CASE checks[r] > 0
          <5>1. checks[r] * Interval = (checks[r] - 1) * Interval + Interval
              BY <1>2, <3>2
          <5>2. (checks[r] - 1) * Interval \in Int /\ checks[r] * Interval \in Int
              BY <1>2, <3>2
          <5>3. /\ now >= lastCheck[r] + Interval
                /\ lastCheck[r] >= reservedAt[r] + Window + (checks[r] - 1) * Interval
              BY <1>1, <2>2, <3>1, <4>2 DEF Countable, StreakTakesTime
          <5>4. lastCheck[r] \in Nat /\ reservedAt[r] \in Nat
              BY <1>1, <3>1 DEF DeskTyped
          <5> QED
              BY <1>2, <5>1, <5>2, <5>3, <5>4
        <4> QED
            BY <3>2, <4>1, <4>2
      <3>4. StreakTakesTime!(r)'
          BY <2>2, <3>1, <3>2, <3>3
      <3>5. \A q \in Requests \ {r} : StreakTakesTime!(q)'
          BY <1>1, <2>2 DEF StreakTakesTime, DeskTyped
      <3> QED
          BY <3>4, <3>5 DEF StreakTakesTime
    <2>3. CASE ResetChecks(o)
        BY <1>1, <2>3 DEF ResetChecks, StreakTakesTime
    <2> QED
        BY <1>5, <2>1, <2>2, <2>3
        DEF Query, Reconcile, ConfirmNoRefund, CheckRefused, hold
  <1>6. CASE \/ \E x \in Refunds : ProviderShows(x) \/ NoticeBooks(x)
             \/ \E x \in Outside : OutsideRefund(x)
             \/ Tick \/ UNCHANGED vars
      BY <1>3, <1>6 DEF ProviderShows, NoticeBooks, OutsideRefund, Tick, vars
  <1> QED
      BY <1>4, <1>5, <1>6 DEF Next

(* A snapshot stays fresh until it is used: no tick passes meanwhile, and    *)
(* what moves meanwhile is not old.                                          *)
LEMMA SnapshotStep ==
  ASSUME LedgerInv, TimeInv, [Next]_vars PROVE SnapshotsFresh'
  <1>1. RowsTyped /\ DeskTyped /\ ShownInTime /\ SnapshotsFresh
      BY DEF LedgerInv, NameInv, TimeInv
  <1>2. MaxLag \in Nat \ {0} /\ now \in Nat
      BY <1>1, RefundAssumption DEF RefundAssumption, RowsTyped
  <1>3. ASSUME desk' = desk, shown \subseteq shown', Old' \subseteq Old PROVE SnapshotsFresh'
    <2> SUFFICES ASSUME NEW o \in Operators, desk[o].at \in {"reconcile", "check", "release"}
                 PROVE  \E S \in SUBSET shown' : Old' \subseteq S /\ desk[o].snapshot = Worth(S)
        BY <1>3 DEF SnapshotsFresh
    <2> QED
        BY <1>1, <1>3 DEF SnapshotsFresh
  <1>4. ASSUME UNCHANGED <<desk, shown, movedAt, now>> PROVE SnapshotsFresh'
      BY <1>3, <1>4 DEF Old, Moved
  <1>5. ASSUME NEW x \in Refunds, MoneyMoves(x), UNCHANGED <<desk, shown, now>>
        PROVE  SnapshotsFresh'
    <2>1. /\ Moved' = Moved \cup {x} /\ movedAt'[x] = now
          /\ \A y \in Moved : movedAt'[y] = movedAt[y]
        BY <1>1, <1>5, MovesNow
    <2>2. Old' \subseteq Old
        BY <1>2, <1>5, <2>1 DEF Old
    <2> QED
        BY <1>3, <1>5, <2>2
  <1>6. ASSUME NEW r \in Requests,
               \/ Reserve(r) \/ Unsendable(r) \/ Send(r) \/ NoAnswer(r)
               \/ Answered(r) \/ Complete(r) \/ Abandon(r) \/ ProviderDecides(r)
        PROVE  SnapshotsFresh'
      BY <1>4, <1>5, <1>6
      DEF Reserve, Unsendable, Send, NoAnswer, Answered, Complete, Abandon,
          ProviderDecides, provider, Refunds
  <1>7. ASSUME NEW o \in Operators,
               Query(o) \/ Reconcile(o) \/ ConfirmNoRefund(o) \/ CheckRefused(o) \/ ResetChecks(o)
        PROVE  SnapshotsFresh'
    <2>1. UNCHANGED <<shown, movedAt, now>>
        BY <1>7
        DEF Query, Reconcile, ConfirmNoRefund, CheckRefused, ResetChecks, provider
    <2>2. Old' = Old
        BY <2>1 DEF Old, Moved
    <2>3. Old \subseteq shown
        BY <1>1, <1>2 DEF Old, ShownInTime, Moved, RowsTyped
    <2>4. \A p \in Operators \ {o} : desk'[p] = desk[p]
        BY <1>1, <1>7
        DEF Query, Reconcile, ConfirmNoRefund, CheckRefused, ResetChecks, Leave, Desk, DeskTyped
    <2>5. \/ desk'[o].at \in {"idle", "reset"}
          \/ desk'[o].snapshot = Worth(shown)
          \/ desk[o].at = "reconcile" /\ desk'[o].snapshot = desk[o].snapshot
        BY <1>1, <1>7
        DEF Query, Reconcile, ConfirmNoRefund, CheckRefused, ResetChecks, Leave, Desk,
            NoDesk, DeskTyped
    <2> SUFFICES ASSUME NEW p \in Operators, desk'[p].at \in {"reconcile", "check", "release"}
                 PROVE  \E S \in SUBSET shown : Old \subseteq S /\ desk'[p].snapshot = Worth(S)
        BY <2>1, <2>2 DEF SnapshotsFresh
    <2>6. CASE p # o
        BY <1>1, <2>4, <2>6 DEF SnapshotsFresh
    <2>7. CASE p = o
        BY <1>1, <2>3, <2>5, <2>7 DEF SnapshotsFresh
    <2> QED
        BY <2>6, <2>7
  <1>8. ASSUME NEW x \in Refunds, ProviderShows(x) PROVE SnapshotsFresh'
      BY <1>3, <1>8 DEF ProviderShows, Old, Moved
  <1>9. ASSUME NEW x \in Refunds, NoticeBooks(x) PROVE SnapshotsFresh'
      BY <1>4, <1>9 DEF NoticeBooks, provider
  <1>10. ASSUME NEW x \in Outside, OutsideRefund(x) PROVE SnapshotsFresh'
      BY <1>5, <1>10 DEF OutsideRefund, Refunds
  <1>11. CASE Tick
      BY <1>11 DEF Tick, SnapshotsFresh, NoDesk
  <1>12. CASE UNCHANGED vars
      BY <1>4, <1>12 DEF vars, provider
  <1> QED
      BY <1>6, <1>7, <1>8, <1>9, <1>10, <1>11, <1>12 DEF Next

LEMMA TimeStep == LedgerInv /\ TimeInv /\ [Next]_vars => TimeInv'
  BY CallsStep, ShownStep, StreakStep, SnapshotStep DEF TimeInv

(* That no notice was booked and no answer given twice stays so only if it   *)
(* was so.                                                                   *)
LEMMA OwnAnswersBefore ==
  ASSUME NameInv, [Next]_vars, OwnAnswers' PROVE OwnAnswers
  <1>1. RowsTyped /\ RequestStands
      BY DEF NameInv
  <1>2. noticed \subseteq noticed'
    <2>1. CASE noticed' = noticed
        BY <2>1
    <2>2. CASE \E x \in Refunds : NoticeBooks(x)
        BY <2>2 DEF NoticeBooks
    <2> QED
        BY <2>1, <2>2
        DEF Next, Reserve, Unsendable, Send, NoAnswer, Answered, Complete, Abandon,
            ProviderDecides, Query, Reconcile, ConfirmNoRefund, CheckRefused, ResetChecks,
            ProviderShows, OutsideRefund, Tick, vars, ledger
  <1>3. ASSUME NEW q \in Requests, asked[q] = "repeated" PROVE asked'[q] = "repeated"
    <2>1. CASE asked' = asked
        BY <1>3, <2>1
    <2>2. CASE \E r \in Requests : Send(r) \/ ProviderDecides(r)
        BY <1>1, <1>3, <2>2 DEF Send, ProviderDecides, RowsTyped, RequestStands
    <2> QED
        BY <2>1, <2>2
        DEF Next, Reserve, Unsendable, NoAnswer, Answered, Complete, Abandon, Query,
            Reconcile, ConfirmNoRefund, CheckRefused, ResetChecks, ProviderShows,
            NoticeBooks, OutsideRefund, Tick, vars, provider
  <1> QED
      BY <1>2, <1>3 DEF OwnAnswers

(* Money that moves, and a reservation that is given up, leave what covers   *)
(* the ledger where it is.                                                   *)
LEMMA StillCovered ==
  ASSUME RowsTyped, RowsTyped', BookedHasMoved, refunded' = refunded, refunded \in Nat,
         Pending' \subseteq Pending, UNCHANGED reservedAt,
         Moved \subseteq Moved', \A x \in Moved : movedAt'[x] = movedAt[x]
  PROVE  BookedHasMoved'
  <1>1. /\ Moved' \in SUBSET Refunds /\ Pending \subseteq Requests
        /\ Moved' \ Pending' \in SUBSET Refunds /\ Moved \ Pending \in SUBSET (Moved' \ Pending')
      BY DEF RowsTyped, Moved, Pending, With
  <1>2. Worth(Moved \ Pending) <= Worth(Moved' \ Pending')
      BY <1>1, WorthMonotone
  <1>3. Worth(Moved \ Pending) \in Nat /\ Worth(Moved' \ Pending') \in Nat
      BY <1>1, WorthNat
  <1>4. refunded' <= (Worth(Moved \ Pending))'
      BY <1>2, <1>3 DEF BookedHasMoved
  <1>5. ASSUME NEW r \in Pending' PROVE refunded' <= (Worth(MovedBefore(r)))'
    <2>1. r \in Pending
        OBVIOUS
    <2>2. MovedBefore(r) \in SUBSET (MovedBefore(r)') /\ MovedBefore(r)' \in SUBSET Refunds
        BY <1>1 DEF MovedBefore
    <2>3. MovedBefore(r) \in SUBSET Refunds
        BY <2>2
    <2>4. Worth(MovedBefore(r)) <= Worth(MovedBefore(r)')
        BY <2>2, WorthMonotone
    <2>5. Worth(MovedBefore(r)) \in Nat /\ Worth(MovedBefore(r)') \in Nat
        BY <2>2, <2>3, WorthNat
    <2> QED
        BY <2>1, <2>4, <2>5 DEF BookedHasMoved
  <1> QED
      BY <1>4, <1>5 DEF BookedHasMoved

(* A new reservation comes after everything that has moved.                  *)
LEMMA ReservedAfterMoved ==
  ASSUME LedgerInv, TimeInv, BookedHasMoved, NEW r \in Requests, Reserve(r)
  PROVE  BookedHasMoved'
  <1>1. RowsTyped /\ RequestStands /\ DeskTyped /\ ShownInTime
      BY DEF LedgerInv, NameInv, TimeInv
  <1>2. Pending = {} /\ Pending' = {r} /\ r \notin Moved
    <2>1. \A t : With(t)' = IF t = "pending" THEN With(t) \cup {r} ELSE With(t) \ {r}
        BY <1>1, RowMoves DEF Reserve
    <2> QED
        BY <1>1, <2>1 DEF Reserve, Pending, RequestStands
  <1>3. Moved' = Moved /\ refunded' = refunded
      BY DEF Reserve, provider, Moved
  <1>4. Moved \ Pending = Moved /\ (Moved \ Pending)' = Moved
      BY <1>2, <1>3
  <1>5. MovedBefore(r)' = Moved
    <2>1. reservedAt'[r] = now /\ UNCHANGED movedAt
        BY <1>1 DEF Reserve, DeskTyped, provider
    <2> QED
        BY <1>1, <1>2, <1>3, <2>1 DEF MovedBefore, ShownInTime
  <1> QED
      BY <1>2, <1>3, <1>4, <1>5 DEF BookedHasMoved

(* A booking that empties the reservations is covered when the money of what *)
(* it books is.                                                              *)
LEMMA BookedIsCovered ==
  ASSUME LedgerInv, NEW r \in Pending, NEW e, Record(r, "processed", e), Book(Amount[r]),
         UNCHANGED movedAt, refunded + Amount[r] <= Worth(Moved)
  PROVE  BookedHasMoved'
  <1>1. Pending' = {}
    <2>1. RowsTyped /\ r \in Requests /\ \A q \in Pending : q = r
        BY DEF LedgerInv, NameInv, Accounts, OneReserved, Pending, With
    <2>2. Pending' = Pending \ {r}
        BY <2>1, RowMoves DEF Pending
    <2> QED
        BY <2>1, <2>2
  <1>2. (Moved \ Pending)' = Moved
      BY <1>1 DEF Moved
  <1> QED
      BY <1>1, <1>2 DEF BookedHasMoved, Book

(* A request that was granted completes a reservation of its own time.       *)
LEMMA CompletionCovered ==
  ASSUME LedgerInv, TimeInv, OwnAnswers, BookedHasMoved, NEW r \in Requests, Complete(r)
  PROVE  BookedHasMoved'
  <1>1. RowsTyped /\ RequestStands /\ CallsInTime /\ refunded \in Nat
      BY RefundAssumption DEF LedgerInv, NameInv, TimeInv, Accounts, RefundAssumption
  <1>2. r \in Pending /\ r \in Refunds /\ Amount[r] \in Nat
      BY AmountsNat DEF Complete, Mine, Pending, With, Refunds
  <1>3. asked[r] = "refunded" /\ r \in Moved
      BY <1>1 DEF Complete, RequestStands, OwnAnswers, CallsInTime
  <1>4. refunded + Amount[r] <= Worth(Moved)
    <2>1. /\ Moved \in SUBSET Refunds /\ Moved \ {r} \in SUBSET Refunds
          /\ MovedBefore(r) \in SUBSET (Moved \ {r}) /\ MovedBefore(r) \in SUBSET Refunds
        BY DEF Moved, MovedBefore
    <2>2. Worth(Moved) = Amount[r] + Worth(Moved \ {r})
        BY <1>3, <2>1, WorthRemove
    <2>3. Worth(MovedBefore(r)) <= Worth(Moved \ {r})
        BY <2>1, WorthMonotone
    <2>4. Worth(MovedBefore(r)) \in Nat /\ Worth(Moved \ {r}) \in Nat
        BY <2>1, WorthNat
    <2>5. refunded <= Worth(MovedBefore(r))
        BY <1>2 DEF BookedHasMoved
    <2> QED
        BY <1>1, <1>2, <2>2, <2>3, <2>4, <2>5
  <1> QED
      BY <1>2, <1>4, BookedIsCovered DEF Complete, provider

(* A reconciliation books what the provider's query already counts.          *)
LEMMA ReconciliationCovered ==
  ASSUME LedgerInv, TimeInv, NEW o \in Operators, Reconcile(o),
         Books(desk[o].snapshot), NEW r \in Pending,
         Record(r, "processed", "reconciled"), Book(Amount[r])
  PROVE  BookedHasMoved'
  <1>1. SnapshotsFresh /\ ShownInTime /\ RowsTyped /\ \A q \in Pending : q = r
      BY DEF LedgerInv, NameInv, TimeInv, Accounts, OneReserved
  <1>2. Pending = {r} /\ r \in Refunds /\ Amount[r] \in Nat
      BY <1>1, AmountsNat DEF Pending, With, Refunds
  <1>3. Worth(Pending) = Amount[r]
    <2>1. {} \in SUBSET Refunds /\ r \in Refunds \ {} /\ {} \cup {r} = {r}
        BY <1>2
    <2> QED
        BY <1>2, <2>1, WorthAdd, WorthEmpty
  <1>4. PICK S \in SUBSET shown : desk[o].snapshot = Worth(S)
      BY <1>1 DEF SnapshotsFresh, Reconcile
  <1>5. S \in SUBSET Moved /\ Moved \in SUBSET Refunds
      BY <1>1 DEF ShownInTime, Moved
  <1>6. Worth(S) <= Worth(Moved)
      BY <1>5, WorthMonotone
  <1>7. refunded + Amount[r] <= Worth(Moved)
      BY <1>3, <1>4, <1>6 DEF Books, Covers
  <1> QED
      BY <1>7, BookedIsCovered DEF Reconcile, provider

(* A streak of counted checks is at least as old as the policy asks.         *)
LEMMA StreakLength ==
  ASSUME NEW c \in Nat, NEW t \in Nat, NEW s \in Nat, c >= Confirmations,
         t >= s + Window + (c - 1) * Interval
  PROVE  t - s >= MaxLag
  <1>1. /\ Confirmations \in Nat \ {0} /\ Window \in Nat /\ Interval \in Nat /\ MaxLag \in Nat
        /\ MaxLag <= Window + (Confirmations - 1) * Interval
      BY RefundAssumption DEF RefundAssumption
  <1>2. PICK d \in Nat : c = Confirmations + d
    <2>1. c - Confirmations \in Nat /\ c = Confirmations + (c - Confirmations)
        BY <1>1
    <2> QED
        BY <2>1
  <1>3. (c - 1) * Interval = (Confirmations - 1) * Interval + d * Interval
      BY <1>1, <1>2
  <1>4. d * Interval \in Nat /\ (Confirmations - 1) * Interval \in Nat /\ (c - 1) * Interval \in Int
      BY <1>1, <1>2
  <1> QED
      BY <1>1, <1>3, <1>4

(* A reservation is released only when nothing of it can move any more, and  *)
(* nothing of it has: the operator's snapshot counts everything that moved   *)
(* up to the reservation's own time, which covers the ledger already, so     *)
(* that it would exceed the ledger if it counted the reserved refund too.    *)
LEMMA ReleaseSafe ==
  ASSUME LedgerInv, TimeInv, TimeInv', BookedHasMoved, NEW o \in Operators, NEW r \in Pending,
         desk[o].at = "release", Agrees(desk[o].snapshot), UNCHANGED <<now, reservedAt>>,
         checks' = [checks EXCEPT ![r] = checks[r] + 1], checks[r] + 1 >= Confirmations,
         lastCheck' = [lastCheck EXCEPT ![r] = now]
  PROVE  at[r] = "over" /\ asked[r] # "sent" /\ r \notin Moved
  <1>1. /\ RowsTyped /\ RequestStands /\ DeskTyped /\ CallsInTime /\ ShownInTime /\ SnapshotsFresh
        /\ refunded \in Nat
      BY RefundAssumption DEF LedgerInv, NameInv, TimeInv, Accounts, RefundAssumption
  <1>2. /\ r \in Requests /\ r \in Refunds /\ at[r] # "idle"
        /\ Amount[r] \in Nat /\ Amount[r] > 0
      BY <1>1, AmountsNat DEF Pending, With, Refunds, RequestStands
  <1>3. now \in Nat /\ reservedAt[r] \in Nat /\ checks[r] \in Nat /\ MaxLag \in Nat \ {0}
      BY <1>1, <1>2, RefundAssumption DEF RowsTyped, DeskTyped, RefundAssumption
  <1>4. now - reservedAt[r] >= MaxLag
    <2>1. PICK c \in Nat : c = checks[r] + 1
        BY <1>3
    <2>2. checks'[r] = c /\ lastCheck'[r] = now /\ c > 0 /\ c >= Confirmations
        BY <1>1, <1>2, <1>3, <2>1 DEF DeskTyped
    <2>3. now >= reservedAt[r] + Window + (c - 1) * Interval
        BY <1>2, <2>2 DEF TimeInv, StreakTakesTime
    <2> QED
        BY <1>3, <2>2, <2>3, StreakLength
  <1>5. at[r] = "over" /\ asked[r] # "sent"
    <2>1. reservedAt[r] # now
        BY <1>3, <1>4
    <2> QED
        BY <1>1, <1>2, <2>1 DEF CallsInTime, RowsTyped
  <1>6. ASSUME r \in Moved PROVE FALSE
    <2>1. PICK S \in SUBSET shown : Old \subseteq S /\ desk[o].snapshot = Worth(S)
        BY <1>1 DEF SnapshotsFresh
    <2>2. S \in SUBSET Refunds /\ S \ {r} \in SUBSET Refunds
        BY <1>1, <2>1 DEF DeskTyped
    <2>3. r \in S
        BY <1>1, <1>2, <1>4, <1>6, <2>1 DEF Old, CallsInTime
    <2>4. \A x \in MovedBefore(r) : x \in Old
      <3> SUFFICES ASSUME NEW x \in MovedBefore(r) PROVE now - movedAt[x] >= MaxLag
          BY DEF MovedBefore, Old
      <3>1. movedAt[x] \in Nat /\ movedAt[x] <= reservedAt[r]
          BY <1>1 DEF MovedBefore, Moved, RowsTyped
      <3> QED
          BY <1>3, <1>4, <3>1
    <2>5. MovedBefore(r) \in SUBSET (S \ {r})
        BY <2>1, <2>4 DEF MovedBefore
    <2>6. Worth(MovedBefore(r)) <= Worth(S \ {r})
        BY <2>2, <2>5, WorthMonotone
    <2>7. Worth(S) = Amount[r] + Worth(S \ {r})
        BY <2>2, <2>3, WorthRemove
    <2>8. Worth(S \ {r}) \in Nat /\ Worth(MovedBefore(r)) \in Nat
        BY <2>2, <2>5, WorthNat
    <2>9. Worth(S) = refunded /\ refunded <= Worth(MovedBefore(r))
        BY <2>1 DEF Agrees, BookedHasMoved
    <2> QED
        BY <1>1, <1>2, <2>6, <2>7, <2>8, <2>9
  <1> QED
      BY <1>5, <1>6

(* A request that is written off stays as it was: no step of its own is left, *)
(* and the provider has nothing to decide.                                   *)
LEMMA OverStaysOver ==
  ASSUME LedgerInv, TimeInv, [Next]_vars, NEW q \in Requests,
         at[q] = "over", asked[q] # "sent", q \notin Moved
  PROVE  at'[q] = "over" /\ asked'[q] # "sent" /\ q \notin Moved'
  <1>1. RowsTyped
      BY DEF LedgerInv, NameInv
  <1>2. CASE UNCHANGED <<at, asked, movedAt>>
      BY <1>2 DEF Moved
  <1>3. ASSUME NEW r \in Requests,
               \/ Reserve(r) \/ Unsendable(r) \/ Send(r) \/ NoAnswer(r)
               \/ Answered(r) \/ Complete(r) \/ Abandon(r) \/ ProviderDecides(r)
        PROVE  at'[q] = "over" /\ asked'[q] # "sent" /\ q \notin Moved'
    <2>1. CASE ProviderDecides(r)
      <3>1. r # q /\ UNCHANGED at /\ r \in Refunds
          BY <2>1 DEF ProviderDecides, Refunds
      <3>2. asked'[q] = asked[q]
          BY <1>1, <2>1, <3>1 DEF ProviderDecides, RowsTyped
      <3>3. movedAt' = movedAt \/ Moved' = Moved \cup {r}
          BY <1>1, <2>1, <3>1, MovesNow DEF ProviderDecides
      <3> QED
          BY <3>1, <3>2, <3>3 DEF Moved
    <2>2. CASE ~ProviderDecides(r)
      <3>1. movedAt' = movedAt /\ at[r] # "over" /\ r # q
          BY <1>3, <2>2
          DEF Reserve, Unsendable, Send, NoAnswer, Answered, Complete, Abandon, provider
      <3>2. at'[q] = at[q] /\ asked'[q] = asked[q]
          BY <1>1, <1>3, <2>2, <3>1
          DEF Reserve, Unsendable, Send, NoAnswer, Answered, Complete, Abandon, provider,
              Go, RowsTyped
      <3> QED
          BY <3>1, <3>2 DEF Moved
    <2> QED
        BY <2>1, <2>2
  <1>4. ASSUME NEW o \in Operators,
               Query(o) \/ Reconcile(o) \/ ConfirmNoRefund(o) \/ CheckRefused(o) \/ ResetChecks(o)
        PROVE  UNCHANGED <<at, asked, movedAt>>
      BY <1>4
      DEF Query, Reconcile, ConfirmNoRefund, CheckRefused, ResetChecks, provider
  <1>5. ASSUME NEW x \in Outside, OutsideRefund(x)
        PROVE  at' = at /\ asked' = asked /\ q \notin Moved'
    <2>1. x \in Refunds /\ x # q
        BY RefundAssumption DEF RefundAssumption, Refunds
    <2> QED
        BY <1>1, <1>5, <2>1, MovesNow DEF OutsideRefund
  <1>6. CASE \/ \E x \in Refunds : ProviderShows(x) \/ NoticeBooks(x)
             \/ Tick \/ UNCHANGED vars
      BY <1>2, <1>6 DEF ProviderShows, NoticeBooks, Tick, vars, provider
  <1> QED
      BY <1>2, <1>3, <1>4, <1>5, <1>6 DEF Next

(* Every step writes off only what was never sent, or what the provider is   *)
(* known not to have granted.                                                *)
LEMMA FailedStep ==
  ASSUME LedgerInv, TimeInv, TimeInv', [Next]_vars, BookedHasMoved, FailedNeverSent
  PROVE  FailedNeverSent'
  <1> SUFFICES ASSUME NEW q \in Requests, record'[q].status = "failed"
               PROVE  at'[q] = "over" /\ asked'[q] # "sent" /\ q \notin Moved'
      BY DEF FailedNeverSent, With
  <1>1. RowsTyped /\ RequestStands
      BY DEF LedgerInv, NameInv
  <1>2. CASE record[q].status = "failed"
      BY <1>2, OverStaysOver DEF FailedNeverSent, With
  <1>3. ASSUME Unsendable(q) PROVE at'[q] = "over" /\ asked'[q] # "sent" /\ q \notin Moved'
      BY <1>1, <1>3 DEF Unsendable, Go, RowsTyped, RequestStands, provider, Moved
  <1>4. ASSUME NEW o \in Operators, ConfirmNoRefund(o), record[q].status # "failed"
        PROVE  at'[q] = "over" /\ asked'[q] # "sent" /\ q \notin Moved'
    <2>1. PICK r \in Pending :
             /\ desk[o].at = "release" /\ checks[r] + 1 >= Confirmations
             /\ checks' = [checks EXCEPT ![r] = checks[r] + 1]
             /\ lastCheck' = [lastCheck EXCEPT ![r] = now]
             /\ Record(r, "failed", record[r].event)
        BY <1>4 DEF ConfirmNoRefund
    <2>2. r = q
        BY <1>1, <1>4, <2>1 DEF Record, RowsTyped
    <2>3. Agrees(desk[o].snapshot) /\ UNCHANGED <<now, reservedAt, at, asked, movedAt>>
        BY <1>4 DEF ConfirmNoRefund, provider
    <2>4. at[q] = "over" /\ asked[q] # "sent" /\ q \notin Moved
        BY <2>1, <2>2, <2>3, ReleaseSafe
    <2> QED
        BY <2>3, <2>4 DEF Moved
  <1>5. CASE record[q].status # "failed"
    <2>1. ASSUME NEW r \in Requests, NEW s, NEW e, Record(r, s, e), s # "failed" PROVE FALSE
        BY <1>1, <1>5, <2>1 DEF Record, RowsTyped
    <2>2. record' # record
        BY <1>5
    <2>3. ASSUME NEW r \in Requests,
                 \/ Reserve(r) \/ Unsendable(r) \/ Send(r) \/ NoAnswer(r)
                 \/ Answered(r) \/ Complete(r) \/ Abandon(r) \/ ProviderDecides(r)
          PROVE  Unsendable(q)
      <3>1. Unsendable(r)
          BY <2>1, <2>2, <2>3
          DEF Reserve, Send, NoAnswer, Answered, Complete, Abandon, ProviderDecides, ledger
      <3>2. r = q
          BY <1>1, <1>5, <3>1 DEF Unsendable, Record, RowsTyped
      <3> QED
          BY <3>1, <3>2
    <2>4. ASSUME NEW o \in Operators,
                 \/ Query(o) \/ Reconcile(o) \/ ConfirmNoRefund(o)
                 \/ CheckRefused(o) \/ ResetChecks(o)
          PROVE  ConfirmNoRefund(o)
      <3>1. \A r \in Pending : r \in Requests
          BY DEF Pending, With
      <3> QED
          BY <2>1, <2>2, <2>4, <3>1 DEF Query, Reconcile, CheckRefused, ResetChecks, ledger
    <2>5. ~(\/ \E x \in Refunds : ProviderShows(x) \/ NoticeBooks(x)
            \/ \E x \in Outside : OutsideRefund(x)
            \/ Tick \/ UNCHANGED vars)
        BY <2>2 DEF ProviderShows, NoticeBooks, OutsideRefund, Tick, ledger, vars
    <2> QED
        BY <1>3, <1>4, <1>5, <2>3, <2>4, <2>5 DEF Next
  <1> QED
      BY <1>2, <1>5

(* So long as nobody else's answer is booked, every step leaves the ledger   *)
(* covered by money that has moved.                                          *)
LEMMA CoveredStep ==
  ASSUME LedgerInv, LedgerInv', TimeInv, [Next]_vars, OwnAnswers, OwnAnswers', BookedHasMoved
  PROVE  BookedHasMoved'
  <1>1. RowsTyped /\ RowsTyped' /\ refunded \in Nat
      BY RefundAssumption DEF LedgerInv, NameInv, Accounts, RefundAssumption
  <1>2. ASSUME UNCHANGED <<refunded, reservedAt, movedAt>>, Pending' \subseteq Pending
        PROVE  BookedHasMoved'
    <2>1. Moved \subseteq Moved'
        BY <1>2 DEF Moved
    <2> QED
        BY <1>1, <1>2, <2>1, StillCovered
  <1>3. ASSUME NEW x \in Refunds, MoneyMoves(x), UNCHANGED <<ledger, hold>>
        PROVE  BookedHasMoved'
    <2>1. Moved \subseteq Moved' /\ \A y \in Moved : movedAt'[y] = movedAt[y]
        BY <1>1, <1>3, MovesNow
    <2>2. Pending' \subseteq Pending
        BY <1>3 DEF Pending, With, ledger
    <2> QED
        BY <1>1, <1>3, <2>1, <2>2, StillCovered DEF ledger, hold
  <1>4. UNCHANGED record => Pending' \subseteq Pending
      BY DEF Pending, With
  <1>5. ASSUME NEW r \in Requests,
               \/ Reserve(r) \/ Unsendable(r) \/ Send(r) \/ NoAnswer(r)
               \/ Answered(r) \/ Complete(r) \/ Abandon(r) \/ ProviderDecides(r)
        PROVE  BookedHasMoved'
    <2>1. CASE Reserve(r)
        BY <2>1, ReservedAfterMoved
    <2>2. CASE Complete(r)
        BY <2>2, CompletionCovered
    <2>3. CASE Unsendable(r) \/ NoAnswer(r)
      <3>1. CASE record' = record
          BY <1>2, <1>4, <2>3, <3>1 DEF Unsendable, NoAnswer, hold, provider
      <3>2. CASE Mine(r) /\ \E s, e : Record(r, s, e)
        <4>1. r \in Pending
            BY <3>2 DEF Mine, Pending, With
        <4>2. Pending' \subseteq Pending
            BY <1>1, <3>2, <4>1, RowMoves DEF Pending
        <4> QED
            BY <1>2, <2>3, <4>2 DEF Unsendable, NoAnswer, hold, provider
      <3> QED
          BY <2>3, <3>1, <3>2 DEF Unsendable, NoAnswer
    <2>4. CASE ProviderDecides(r)
        BY <1>2, <1>3, <1>4, <2>4 DEF ProviderDecides, ledger, hold, Refunds
    <2> QED
        BY <1>2, <1>4, <1>5, <2>1, <2>2, <2>3, <2>4
        DEF Send, Answered, Abandon, ledger, hold, provider
  <1>6. ASSUME NEW o \in Operators,
               Query(o) \/ Reconcile(o) \/ ConfirmNoRefund(o) \/ CheckRefused(o) \/ ResetChecks(o)
        PROVE  BookedHasMoved'
    <2>1. UNCHANGED <<reservedAt, movedAt>>
        BY <1>6
        DEF Query, Reconcile, ConfirmNoRefund, CheckRefused, ResetChecks, provider, hold
    <2>2. CASE UNCHANGED ledger
        BY <1>2, <1>4, <2>1, <2>2 DEF ledger
    <2>3. CASE /\ refunded' = refunded
               /\ \E r \in Pending : Record(r, "failed", record[r].event)
      <3>1. PICK r \in Pending : Record(r, "failed", record[r].event)
          BY <2>3
      <3>2. Pending' \subseteq Pending
          BY <1>1, <3>1, RowMoves DEF Pending, With
      <3> QED
          BY <1>2, <2>1, <2>3, <3>2
    <2>4. CASE /\ Reconcile(o) /\ Books(desk[o].snapshot)
               /\ \E r \in Pending : Record(r, "processed", "reconciled") /\ Book(Amount[r])
        BY <2>4, ReconciliationCovered
    <2> QED
        BY <1>6, <2>2, <2>3, <2>4
        DEF Query, Reconcile, ConfirmNoRefund, CheckRefused, ResetChecks, ledger
  <1>7. ASSUME NEW x \in Refunds, NoticeBooks(x) PROVE FALSE
      BY <1>7 DEF NoticeBooks, OwnAnswers
  <1>8. ASSUME NEW x \in Outside, OutsideRefund(x) PROVE BookedHasMoved'
      BY <1>3, <1>8 DEF OutsideRefund, Refunds
  <1>9. CASE (\E x \in Refunds : ProviderShows(x)) \/ Tick \/ UNCHANGED vars
      BY <1>2, <1>4, <1>9 DEF ProviderShows, Tick, vars, ledger, hold, provider
  <1> QED
      BY <1>5, <1>6, <1>7, <1>8, <1>9 DEF Next

(* The invariant of the releases holds of every reachable state.             *)
THEOREM HoldInvariant == Spec => []HoldInv
  <1>1. Init => HoldInv
      BY NameInit, AccountsInit, HoldInit DEF HoldInv, LedgerInv
  <1>2. HoldInv /\ [Next]_vars => HoldInv'
    <2> SUFFICES ASSUME HoldInv, [Next]_vars PROVE HoldInv'
        OBVIOUS
    <2>1. LedgerInv /\ LedgerInv' /\ NameInv
        BY NameStep, AccountsStep, DeskTypedStep DEF HoldInv, LedgerInv
    <2>2. TimeInv /\ TimeInv'
        BY <2>1, TimeStep DEF HoldInv
    <2>3. ASSUME OwnAnswers' PROVE (BookedHasMoved /\ FailedNeverSent)'
      <3>1. OwnAnswers
          BY <2>1, <2>3, OwnAnswersBefore
      <3>2. BookedHasMoved /\ FailedNeverSent
          BY <3>1 DEF HoldInv, MoneyInv
      <3> QED
          BY <2>1, <2>2, <2>3, <3>1, <3>2, CoveredStep, FailedStep
    <2> QED
        BY <2>1, <2>2, <2>3 DEF HoldInv, MoneyInv
  <1> QED
      BY <1>1, <1>2, PTL DEF Spec

LEMMA BookedCovered == HoldInv /\ OwnAnswers => BookedWithinProvider
  <1> SUFFICES ASSUME HoldInv, OwnAnswers PROVE BookedWithinProvider
      OBVIOUS
  <1>1. refunded <= Worth(Moved \ Pending) /\ refunded \in Nat
      BY RefundAssumption
      DEF HoldInv, MoneyInv, BookedHasMoved, LedgerInv, Accounts, RefundAssumption
  <1>2. Moved \in SUBSET Refunds /\ Moved \ Pending \in SUBSET Moved
      BY DEF Moved
  <1>3. /\ Worth(Moved \ Pending) <= Worth(Moved)
        /\ Worth(Moved \ Pending) \in Nat /\ Worth(Moved) \in Nat
      BY <1>2, WorthMonotone, WorthNat
  <1> QED
      BY <1>1, <1>3 DEF BookedWithinProvider

LEMMA FailedUnmoved == HoldInv /\ OwnAnswers => ReleasedHoldNeverMoved
  BY DEF HoldInv, MoneyInv, FailedNeverSent, ReleasedHoldNeverMoved

(* Until a notice is booked or a request is given another one's answer, the  *)
(* ledger books no more than the provider has refunded, and a reservation    *)
(* that was released or written off has not moved money: whatever the       *)
(* policy, the delay of the query and the refunds made elsewhere.            *)
THEOREM SafeUntilForeignAnswer ==
  Spec => [](OwnAnswers => BookedWithinProvider /\ ReleasedHoldNeverMoved)
  <1>1. HoldInv => (OwnAnswers => BookedWithinProvider /\ ReleasedHoldNeverMoved)
      BY BookedCovered, FailedUnmoved
  <1> QED
      BY <1>1, HoldInvariant, PTL

(* A provider that sends no notices and repeats no answer gives none.        *)
LEMMA OwnAnswersAlways ==
  ASSUME Notified = {}, Repeated = {} PROVE Spec => []OwnAnswers
  <1>1. Init => OwnAnswers
      BY DEF Init, OwnAnswers
  <1>2. NameInv /\ OwnAnswers /\ [Next]_vars => OwnAnswers'
    <2> SUFFICES ASSUME NameInv, OwnAnswers, [Next]_vars PROVE OwnAnswers'
        OBVIOUS
    <2>1. noticed' = noticed
        BY DEF Next, Reserve, Unsendable, Send, NoAnswer, Answered, Complete, Abandon,
               ProviderDecides, Query, Reconcile, ConfirmNoRefund, CheckRefused, ResetChecks,
               ProviderShows, NoticeBooks, OutsideRefund, Tick, vars, ledger
    <2>2. \/ asked' = asked
          \/ \E r \in Requests, s \in {"sent", "refunded", "refused"} :
                asked' = [asked EXCEPT ![r] = s]
        BY DEF Next, Reserve, Unsendable, Send, NoAnswer, Answered, Complete, Abandon,
               ProviderDecides, Query, Reconcile, ConfirmNoRefund, CheckRefused, ResetChecks,
               ProviderShows, NoticeBooks, OutsideRefund, Tick, vars, provider
    <2> QED
        BY <2>1, <2>2 DEF OwnAnswers, NameInv, RowsTyped
  <1> QED
      BY <1>1, <1>2, NameInvariant, PTL DEF Spec

(* The ledger never books more than the provider has refunded, when the      *)
(* provider sends no notices and repeats no answer.                          *)
THEOREM BookedMoved ==
  ASSUME Notified = {}, Repeated = {} PROVE Spec => []BookedWithinProvider
  BY BookedCovered, HoldInvariant, OwnAnswersAlways, PTL

(* A reservation is released, or a request written off, only when its money  *)
(* has not moved, when the provider sends no notices and repeats no answer.  *)
THEOREM ReleasedUnmoved ==
  ASSUME Notified = {}, Repeated = {} PROVE Spec => []ReleasedHoldNeverMoved
  BY FailedUnmoved, HoldInvariant, OwnAnswersAlways, PTL

-----------------------------------------------------------------------------
(* The trade's amounts move as RefundAccount promises.                       *)

rows == [r \in Requests |-> record[r].status]

(* Writing a row writes its status, and nobody else's.                       *)
LEMMA RowStatusWritten ==
  ASSUME RowsTyped, NEW r \in Requests, NEW s, NEW e, Record(r, s, e)
  PROVE  rows' = [rows EXCEPT ![r] = s]
  BY DEF rows, Record, RowsTyped

(* What is left of the trade is what the code computes it to be.             *)
LEMMA AccountOfLedger ==
  ASSUME LedgerInv
  PROVE  /\ RowsTyped /\ Processed = refunded /\ refunded \in Nat /\ Gross \in Nat
         /\ \A x \in Refunds : Amount[x] \in Nat
         /\ Account!NothingReserved <=> Pending = {}
         /\ \A r \in Requests : rows[r] = record[r].status
  BY AmountsNat, RefundAssumption
  DEF LedgerInv, NameInv, Accounts, TotalExplained, RefundAssumption,
      Account!NothingReserved, Pending, With, rows

(* Every step of a request is one of the account, or none.                   *)
LEMMA RequestAccount ==
  ASSUME LedgerInv, NEW r \in Requests,
         \/ Reserve(r) \/ Unsendable(r) \/ Send(r) \/ NoAnswer(r)
         \/ Answered(r) \/ Complete(r) \/ Abandon(r) \/ ProviderDecides(r)
  PROVE  Account!Next \/ UNCHANGED <<rows, noticed, refunded>>
  <1>1. RowsTyped /\ r \in Refunds /\ rows[r] = record[r].status
      BY AccountOfLedger DEF Refunds
  <1>2. Mine(r) => rows[r] = "pending"
      BY <1>1 DEF Mine
  <1>3. CASE UNCHANGED ledger
      BY <1>3 DEF ledger, rows
  <1>4. CASE Reserve(r)
    <2>1. rows' = [rows EXCEPT ![r] = "pending"] /\ UNCHANGED <<noticed, refunded>>
        BY <1>1, <1>4, RowStatusWritten DEF Reserve
    <2>2. rows[r] = "none"
        BY <1>1, <1>4 DEF Reserve, LedgerInv, NameInv, RequestStands
    <2>3. Account!NothingReserved /\ Account!Fits(r)
        BY <1>1, <1>4, AccountOfLedger DEF Reserve, Account!Fits
    <2> QED
        BY <2>1, <2>2, <2>3 DEF Account!Next, Account!Reserve, rows
  <1>5. CASE Mine(r) /\ Unsendable(r)
    <2>1. rows' = [rows EXCEPT ![r] = "failed"] /\ UNCHANGED <<noticed, refunded>>
        BY <1>1, <1>5, RowStatusWritten DEF Unsendable
    <2> QED
        BY <1>5, <1>2, <2>1 DEF Account!Next, Account!GiveUp, rows
  <1>6. CASE Mine(r) /\ NoAnswer(r)
    <2>1. rows' = [rows EXCEPT ![r] = "pending"] /\ UNCHANGED <<noticed, refunded>>
        BY <1>1, <1>6, RowStatusWritten DEF NoAnswer
    <2>2. rows' = rows
        BY <1>6, <1>2, <2>1 DEF rows
    <2> QED
        BY <2>1, <2>2
  <1>7. CASE Complete(r)
    <2>1. /\ rows' = [rows EXCEPT ![r] = "processed"] /\ noticed' = noticed
          /\ refunded' = refunded + Amount[r]
        BY <1>1, <1>7, RowStatusWritten DEF Complete, Book
    <2> QED
        BY <1>7, <1>2, <2>1 DEF Complete, Account!Next, Account!Settle, rows
  <1> QED
      BY <1>3, <1>4, <1>5, <1>6, <1>7
      DEF Unsendable, Send, NoAnswer, Answered, Abandon, ProviderDecides, ledger

(* Every step of an operator is one of the account, or none.                 *)
LEMMA OperatorAccount ==
  ASSUME LedgerInv, NEW o \in Operators,
         Query(o) \/ Reconcile(o) \/ ConfirmNoRefund(o) \/ CheckRefused(o) \/ ResetChecks(o)
  PROVE  Account!Next \/ UNCHANGED <<rows, noticed, refunded>>
  <1>1. \A r \in Pending : r \in Requests /\ RowsTyped /\ rows[r] = "pending"
      BY AccountOfLedger DEF Pending, With
  <1>2. CASE UNCHANGED ledger
      BY <1>2 DEF ledger, rows
  <1>3. ASSUME NEW r \in Pending, UNCHANGED <<noticed, refunded>>,
               Record(r, "failed", record[r].event)
        PROVE  Account!Next
    <2>1. rows' = [rows EXCEPT ![r] = "failed"]
        BY <1>1, <1>3, RowStatusWritten
    <2> QED
        BY <1>1, <1>3, <2>1 DEF Account!Next, Account!GiveUp, rows
  <1>4. ASSUME NEW r \in Pending, noticed' = noticed,
               Record(r, "processed", "reconciled"), Book(Amount[r])
        PROVE  Account!Next
    <2>1. rows' = [rows EXCEPT ![r] = "processed"] /\ refunded' = refunded + Amount[r]
        BY <1>1, <1>4, RowStatusWritten DEF Book
    <2> QED
        BY <1>1, <1>4, <2>1 DEF Account!Next, Account!Settle, rows
  <1> QED
      BY <1>2, <1>3, <1>4
      DEF Query, Reconcile, ConfirmNoRefund, CheckRefused, ResetChecks, ledger

(* Every step of the refunds is one of the account, or none.                 *)
LEMMA AccountStep ==
  ASSUME LedgerInv, [Next]_vars
  PROVE  Account!Next \/ UNCHANGED <<rows, noticed, refunded>>
  <1>1. CASE UNCHANGED ledger
      BY <1>1 DEF ledger, rows
  <1>2. ASSUME NEW x \in Refunds, NoticeBooks(x) PROVE Account!Next
    <2>1. /\ x \notin noticed /\ noticed' = noticed \cup {x}
          /\ refunded' = refunded + Amount[x] /\ rows' = rows
        BY <1>2 DEF NoticeBooks, Book, Taken, rows
    <2>2. Account!NothingReserved /\ Account!Fits(x)
        BY <1>2, AccountOfLedger DEF NoticeBooks, NoticeFits, KeepsTo, Account!Fits
    <2> QED
        BY <2>1, <2>2 DEF Account!Next, Account!Notice, rows
  <1>3. CASE \/ \E x \in Refunds : ProviderShows(x)
             \/ \E x \in Outside : OutsideRefund(x)
             \/ Tick \/ UNCHANGED vars
      BY <1>1, <1>3 DEF ProviderShows, OutsideRefund, Tick, vars
  <1> QED
      BY <1>2, <1>3, RequestAccount, OperatorAccount DEF Next

(* Requests, late answers, reconciliations, releases and notices implement   *)
(* the account: one reservation at a time, booked once and whole or given    *)
(* up, within what is left of the trade.                                     *)
THEOREM AccountImplemented == Spec => AccountSpec
  <1>1. Init => Account!Init
      BY DEF Init, Account!Init
  <1>2. LedgerInv /\ [Next]_vars => [Account!Next]_(Account!vars)
      BY AccountStep DEF Account!vars, rows
  <1> QED
      BY <1>1, <1>2, LedgerInvariant, PTL DEF Spec, AccountSpec, Account!Spec
=============================================================================
