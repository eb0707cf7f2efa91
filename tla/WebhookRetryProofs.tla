--------------------------- MODULE WebhookRetryProofs ---------------------------
(***************************************************************************)
(* Proofs about WebhookRetry, for any number of callbacks and job runs, any  *)
(* retry limit and any number of deliveries.                                *)
(***************************************************************************)
EXTENDS WebhookRetry, TLAPS

(* A worker whose attempt has begun.                                         *)
Active == Running \cup {"committed"}

(* What the count of a first attempt rests on: an event that nobody claimed  *)
(* yet has used up nothing, and a callback holds either a retry or count 0.  *)
FirstAttempt ==
    /\ status \in {"none", "received"} => retryCount = 0 /\ claims = 0
    /\ \A w \in Workers : seen[w].status = "received" => seen[w].count = 0
    /\ \A w \in Callbacks :
          at[w] \in Active => seen[w].status = "failed" \/ claimed[w] = 0

(* Why a claim is a token: the count only grows, and a new claim is above    *)
(* every count an attempt still running was given.                           *)
CountGrows ==
    /\ status \in {"none", "received"} => \A w \in Workers : at[w] \notin Active
    /\ \A w \in Workers : at[w] \in Active => claimed[w] <= retryCount
    /\ \A v, w \in Workers :
          (at[v] \in Active /\ at[w] \in Active /\ claimed[v] = retryCount
              /\ claimed[w] = retryCount /\ status = "retrying") => v = w

ClaimsCounted == claims <= retryCount + 1

RetryInv == TypeOK /\ FirstAttempt /\ CountGrows /\ ClaimsCounted /\ AppliedOnce

(* TypeOK in two halves: the flags, and everything else.                     *)
FlagsOK == leaseOver \in BOOLEAN /\ due \in BOOLEAN /\ unprovable \in BOOLEAN

ColumnsOK ==
    /\ status \in Statuses /\ retryCount \in 0..MaxRetries /\ version \in Nat
    /\ at \in [Workers -> Places] /\ seen \in [Workers -> Rows]
    /\ claimed \in [Workers -> 0..MaxRetries]
    /\ deliveries \in Nat /\ claims \in Nat /\ effects \in Nat

(* The two halves are TypeOK.                                                *)
LEMMA TypeHalves == TypeOK <=> FlagsOK /\ ColumnsOK
  BY DEF TypeOK, FlagsOK, ColumnsOK

(* The invariant holds before the first delivery.                            *)
LEMMA RetryInit == Init => RetryInv
  <1> SUFFICES ASSUME Init PROVE RetryInv
      OBVIOUS
  <1> USE RetryAssumption DEF Init, RetryAssumption
  <1>1. Snapshot \in Rows
      BY DEF Snapshot, Rows, Statuses
  <1>2. TypeOK
    <2>1. FlagsOK
        BY DEF FlagsOK
    <2>2. ColumnsOK
        BY <1>1 DEF ColumnsOK, Statuses, Places
    <2> QED
        BY <2>1, <2>2, TypeHalves
  <1>3. FirstAttempt /\ CountGrows
      BY DEF FirstAttempt, CountGrows, Snapshot, Active, Running, Workers
  <1> QED
      BY <1>2, <1>3 DEF RetryInv, ClaimsCounted, AppliedOnce

(* What a worker reads of the row is a row.                                  *)
LEMMA SnapshotType == TypeOK => Snapshot \in Rows
  BY DEF TypeOK, Snapshot, Rows

(* A delivery creates the row or only reads it; the callback that arrives    *)
(* has not begun an attempt.                                                 *)
LEMMA ArrivalKeeps ==
  ASSUME RetryInv, NEW w \in Callbacks, CallbackArrives(w)
  PROVE  RetryInv'
  <1> USE RetryAssumption
      DEF RetryAssumption, RetryInv, CallbackArrives, Go, Write, row, Workers
  <1>1. TypeOK'
    <2>1. Snapshot' \in Rows
        BY DEF TypeOK, Snapshot, Rows, Statuses
    <2>2. FlagsOK'
        BY TypeHalves DEF FlagsOK
    <2>3. ColumnsOK'
        BY <2>1, TypeHalves DEF ColumnsOK, Statuses, Places
    <2> QED
        BY <2>2, <2>3 DEF TypeOK, FlagsOK, ColumnsOK
  <1>2. FirstAttempt'
      BY DEF TypeOK, FirstAttempt, Snapshot, Active, Running
  <1>3. CountGrows'
      BY DEF TypeOK, CountGrows, FirstAttempt, Active, Running
  <1>4. ClaimsCounted' /\ AppliedOnce'
      BY DEF ClaimsCounted, AppliedOnce, FirstAttempt, TypeOK
  <1> QED
      BY <1>1, <1>2, <1>3, <1>4

(* A step that writes neither the row nor a count, and that begins no        *)
(* attempt, keeps the invariant.                                             *)
LEMMA RowKept ==
  ASSUME RetryInv, NEW w \in Workers, NEW place \in Places,
         Go(w, place),
         place \in Active => at[w] \in Active,
         seen' = seen \/ (place \notin Active /\ seen' = [seen EXCEPT ![w] = Snapshot]),
         UNCHANGED <<row, claimed, deliveries, claims, effects>>
  PROVE  RetryInv'
  <1> USE DEF RetryInv, Go, row
  <1>1. TypeOK'
      BY SnapshotType DEF TypeOK
  <1>2. FirstAttempt'
      BY RetryAssumption DEF TypeOK, FirstAttempt, Snapshot, RetryAssumption, Workers
  <1>3. CountGrows'
      BY DEF TypeOK, CountGrows
  <1>4. ClaimsCounted' /\ AppliedOnce'
      BY DEF ClaimsCounted, AppliedOnce
  <1> QED
      BY <1>1, <1>2, <1>3, <1>4

(* A claim moves an unclaimed event to a count no running attempt has, or a  *)
(* first attempt to count 0 when nothing runs.                               *)
LEMMA ClaimKeeps ==
  ASSUME RetryInv, NEW w \in Workers, NEW count \in 0..MaxRetries,
         \/ status = "received" /\ count = retryCount
         \/ status = "failed" /\ count = retryCount + 1,
         w \in Callbacks => seen[w].status = "failed" \/ count = 0,
         Write("retrying", count, FALSE),
         claimed' = [claimed EXCEPT ![w] = count],
         claims' = claims + 1,
         Go(w, "working"),
         UNCHANGED <<seen, deliveries, effects>>
  PROVE  RetryInv'
  <1> USE DEF RetryInv, Go, Write
  <1>1. TypeOK'
    <2>1. FlagsOK'
        BY TypeHalves DEF FlagsOK
    <2>2. ColumnsOK'
        BY TypeHalves DEF ColumnsOK, Statuses, Places
    <2> QED
        BY <2>1, <2>2 DEF TypeOK, FlagsOK, ColumnsOK
  <1>2. FirstAttempt'
      BY DEF TypeOK, FirstAttempt, Workers
  <1>3. \A v \in Workers : at[v] \in Active => claimed[v] < count
    <2>1. CASE status = "received"
        BY <2>1 DEF CountGrows
    <2>2. CASE status = "failed" /\ count = retryCount + 1
        BY <2>2, RetryAssumption DEF CountGrows, TypeOK, RetryAssumption
    <2> QED
        BY <2>1, <2>2
  <1>4. CountGrows'
      BY <1>3, RetryAssumption DEF CountGrows, TypeOK, RetryAssumption, Active, Running
  <1>5. ClaimsCounted' /\ AppliedOnce'
      BY RetryAssumption
      DEF ClaimsCounted, AppliedOnce, FirstAttempt, TypeOK, RetryAssumption
  <1> QED
      BY <1>1, <1>2, <1>4, <1>5

(* Claims stay counted while the count does not fall.                        *)
LEMMA CountedStill ==
  ASSUME TypeOK, ClaimsCounted, claims' = claims,
         retryCount' \in 0..MaxRetries, retryCount <= retryCount'
  PROVE  ClaimsCounted'
  <1> DEFINE count == retryCount'
  <1>1. count \in Nat /\ retryCount <= count
      BY RetryAssumption DEF RetryAssumption
  <1> HIDE DEF count
  <1>2. claims <= count + 1
      BY <1>1, RetryAssumption DEF TypeOK, ClaimsCounted, RetryAssumption
  <1> QED
      BY <1>2 DEF count, ClaimsCounted

(* A write that ends an attempt, or sets an event aside, leaves "retrying"   *)
(* or stays out of it, never lowers the count, and keeps what was applied.   *)
LEMMA EndKeeps ==
  ASSUME RetryInv, NEW w \in Workers, NEW place \in Places,
         Go(w, place),
         place \in Active => at[w] \in Active,
         status \notin {"none", "received"},
         status' \in {"failed"} \cup Final,
         retryCount' \in 0..MaxRetries,
         retryCount <= retryCount',
         version' = version + 1,
         leaseOver' = FALSE, UNCHANGED unprovable,
         due' \in BOOLEAN,
         effects' = IF status' = "processed" THEN 1 ELSE 0,
         UNCHANGED <<seen, claimed, deliveries, claims>>
  PROVE  RetryInv'
  <1> USE DEF RetryInv, Go, Final
  <1>1. TypeOK'
    <2>1. status' \in Statuses /\ effects' \in Nat
        BY DEF Statuses
    <2>2. FlagsOK'
        BY TypeHalves DEF FlagsOK
    <2>3. ColumnsOK'
        BY <2>1, TypeHalves DEF ColumnsOK
    <2> QED
        BY <2>2, <2>3 DEF TypeOK, FlagsOK, ColumnsOK
  <1>2. FirstAttempt'
      BY RetryAssumption DEF TypeOK, FirstAttempt, Workers, RetryAssumption
  <1>3. CountGrows'
      BY RetryAssumption DEF TypeOK, CountGrows, RetryAssumption
  <1>4. ClaimsCounted'
      BY CountedStill
  <1>5. AppliedOnce'
      BY DEF AppliedOnce
  <1> QED
      BY <1>1, <1>2, <1>3, <1>4, <1>5

(* What the writes that end an attempt need to know of the row.              *)
LEMMA RowKnown ==
  ASSUME RetryInv
  PROVE  /\ retryCount \in 0..MaxRetries /\ retryCount <= retryCount
         /\ effects = IF status = "processed" THEN 1 ELSE 0
  BY RetryAssumption DEF RetryInv, TypeOK, AppliedOnce, RetryAssumption

(* Every action keeps the invariant.                                         *)
LEMMA RetryStep == RetryInv /\ [Next]_vars => RetryInv'
  <1> SUFFICES ASSUME RetryInv, [Next]_vars PROVE RetryInv'
      OBVIOUS
  <1> USE RetryAssumption DEF RetryAssumption
  <1>1. ASSUME NEW w \in Callbacks, CallbackArrives(w) PROVE RetryInv'
      BY <1>1, ArrivalKeeps
  <1>2. ASSUME NEW w \in Callbacks, CallbackClaims(w) PROVE RetryInv'
    <2>1. w \in Workers /\ "idle" \in Places /\ "idle" \notin Active
        BY DEF Workers, Places, Active, Running
    <2>2. CASE UNCHANGED <<row, claimed, claims>> /\ Go(w, "idle")
        BY <1>2, <2>1, <2>2, RowKept DEF CallbackClaims
    <2>3. CASE seen[w].status = "received" /\ status = "received"
               /\ retryCount = seen[w].count /\ Write("retrying", seen[w].count, FALSE)
               /\ claimed' = [claimed EXCEPT ![w] = seen[w].count]
               /\ claims' = claims + 1 /\ Go(w, "working")
      <3>1. seen[w].count \in 0..MaxRetries /\ seen[w].count = 0
          BY <2>1, <2>3 DEF RetryInv, TypeOK, Rows, FirstAttempt
      <3> QED
          BY <1>2, <2>1, <2>3, <3>1, ClaimKeeps DEF CallbackClaims
    <2>4. CASE seen[w].status = "failed" /\ status = "failed" /\ ~Spent(seen[w].count)
               /\ retryCount = seen[w].count /\ Write("retrying", seen[w].count + 1, FALSE)
               /\ claimed' = [claimed EXCEPT ![w] = seen[w].count + 1]
               /\ claims' = claims + 1 /\ Go(w, "working")
      <3>1. seen[w].count + 1 \in 0..MaxRetries
          BY <2>4 DEF RetryInv, TypeOK, Spent
      <3> QED
          BY <1>2, <2>1, <2>4, <3>1, ClaimKeeps DEF CallbackClaims
    <2> QED
        BY <1>2, <2>2, <2>3, <2>4 DEF CallbackClaims, ClaimCount
  <1>3. ASSUME NEW w \in Jobs, JobScans(w) PROVE RetryInv'
      BY <1>3, RowKept DEF JobScans, Workers, Places, Active, Running
  <1>4. ASSUME NEW w \in Jobs, JobRecovers(w) PROVE RetryInv'
    <2>1. /\ w \in Workers /\ "idle" \in Places /\ "reread" \in Places
          /\ "idle" \notin Active /\ "reread" \notin Active /\ at[w] \notin Active
        BY <1>4 DEF JobRecovers, Workers, Places, Active, Running
    <2>2. UNCHANGED <<seen, claimed, deliveries, claims, effects>>
        BY <1>4 DEF JobRecovers
    <2>3. CASE UNCHANGED row /\ Go(w, "idle")
        BY <1>4, <2>1, <2>3, RowKept DEF JobRecovers
    <2>4. CASE status = "retrying" /\ Write("exhausted", retryCount, FALSE) /\ Go(w, "idle")
        BY <2>1, <2>2, <2>4, RowKnown, EndKeeps DEF Write, Final
    <2>5. CASE status = "retrying" /\ Write("failed", retryCount, TRUE) /\ Go(w, "reread")
        BY <2>1, <2>2, <2>5, RowKnown, EndKeeps DEF Write
    <2> QED
        BY <1>4, <2>3, <2>4, <2>5 DEF JobRecovers, Unchanged
  <1>5. ASSUME NEW w \in Jobs, JobReads(w) PROVE RetryInv'
      BY <1>5, RowKept DEF JobReads, Workers, Places, Active, Running
  <1>6. ASSUME NEW w \in Jobs, JobRetries(w) PROVE RetryInv'
    <2>1. w \in Workers /\ "idle" \in Places /\ "idle" \notin Active
        BY DEF Workers, Places, Active, Running
    <2>2. CASE UNCHANGED <<row, claimed, claims>> /\ Go(w, "idle")
        BY <1>6, <2>1, <2>2, RowKept DEF JobRetries
    <2>3. CASE status = "failed" /\ Go(w, "idle") /\ UNCHANGED <<claimed, claims>>
               /\ \/ Write("needs_manual_reconciliation", retryCount, FALSE)
                  \/ Write("exhausted", retryCount, FALSE)
        BY <1>6, <2>1, <2>3, RowKnown, EndKeeps DEF Write, JobRetries, Final
    <2>4. CASE status = "failed" /\ retryCount = seen[w].count /\ ~Spent(seen[w].count)
               /\ Write("retrying", retryCount + 1, FALSE)
               /\ claimed' = [claimed EXCEPT ![w] = retryCount + 1]
               /\ claims' = claims + 1 /\ Go(w, "working")
      <3>1. retryCount + 1 \in 0..MaxRetries /\ w \notin Callbacks
          BY <2>4 DEF RetryInv, TypeOK, Spent
      <3> QED
          BY <1>6, <2>1, <2>4, <3>1, ClaimKeeps DEF JobRetries
    <2> QED
        BY <1>6, <2>2, <2>3, <2>4 DEF JobRetries, Unchanged, ClaimCount
  <1>7. ASSUME NEW w \in Workers, Commits(w) PROVE RetryInv'
    <2>1. "committed" \in Places /\ at[w] \in Active /\ status = "retrying"
        BY <1>7 DEF Commits, Owns, Places, Active, Running
    <2>2. effects' = 1
        BY <1>7, <2>1, RowKnown DEF Commits
    <2> QED
        BY <1>7, <2>1, <2>2, RowKnown, EndKeeps DEF Write, Commits, Final
  <1>8. ASSUME NEW w \in Workers, AttemptThrows(w) PROVE RetryInv'
      BY <1>8, RowKept DEF AttemptThrows, Places, Active, Running
  <1>9. ASSUME NEW w \in Workers, AttemptReturns(w) PROVE RetryInv'
    <2>1. "idle" \in Places /\ "idle" \notin Active
        BY DEF Places, Active, Running
    <2>2. CASE UNCHANGED row
        BY <1>9, <2>1, <2>2, RowKept DEF AttemptReturns
    <2>3. CASE status = "processed" /\ Write("processed", retryCount, FALSE)
        BY <1>9, <2>1, <2>3, RowKnown, EndKeeps DEF Write, AttemptReturns, Final
    <2> QED
        BY <1>9, <2>2, <2>3 DEF AttemptReturns
  <1>10. ASSUME NEW w \in Workers, RecordsFailure(w) PROVE RetryInv'
    <2>1. "idle" \in Places /\ "idle" \notin Active /\ "failing" \in Active
        BY DEF Places, Active, Running
    <2>2. CASE UNCHANGED row
        BY <1>10, <2>1, <2>2, RowKept DEF RecordsFailure
    <2>3. CASE status = "retrying" /\ \E s \in {"failed", "exhausted"} : Write(s, retryCount, FALSE)
        BY <1>10, <2>1, <2>3, RowKnown, EndKeeps DEF Write, RecordsFailure, Final
    <2>4. CASE Owns(w) /\ w \in Callbacks /\ seen[w].status # "failed"
               /\ Write("failed", retryCount + 1, FALSE)
      <3>1. retryCount + 1 \in 0..MaxRetries /\ retryCount <= retryCount + 1
          BY <1>10, <2>1, <2>4 DEF RecordsFailure, Owns, RetryInv, FirstAttempt, TypeOK
      <3> QED
          BY <1>10, <2>1, <2>4, <3>1, RowKnown, EndKeeps
          DEF Write, RecordsFailure, Owns
    <2> QED
        BY <1>10, <2>2, <2>3, <2>4 DEF RecordsFailure, Owns
  <1>11. ASSUME NEW w \in Workers, Dies(w) PROVE RetryInv'
      BY <1>11, RowKept DEF Dies, Places, Active, Running
  <1>12. CASE LeaseEnds \/ RetryFallsDue \/ UNCHANGED vars
      BY <1>12
      DEF LeaseEnds, RetryFallsDue, vars, row, RetryInv, TypeOK, FirstAttempt, CountGrows,
          ClaimsCounted, AppliedOnce
  <1> QED
      BY <1>1, <1>2, <1>3, <1>4, <1>5, <1>6, <1>7, <1>8, <1>9, <1>10, <1>11, <1>12 DEF Next

(* The invariant holds of every reachable state.                             *)
THEOREM RetryInvariant == Spec => []RetryInv
  BY RetryInit, RetryStep, PTL DEF Spec

(* Every column has its type; no path counts past the retry limit.           *)
THEOREM RetryTyping == Spec => []TypeOK
  <1>1. RetryInv => TypeOK
      BY DEF RetryInv
  <1> QED
      BY <1>1, RetryInvariant, PTL

(* The payment effects are committed at most once, whatever workers, failures*)
(* and expired leases there are.                                             *)
THEOREM EffectsOnce == Spec => []AppliedOnce
  <1>1. RetryInv => AppliedOnce
      BY DEF RetryInv
  <1> QED
      BY <1>1, RetryInvariant, PTL

(* Two running attempts never both own the event.                            *)
THEOREM ClaimIsToken == Spec => []OneOwner
  <1>1. RetryInv => OneOwner
      BY DEF RetryInv, CountGrows, OneOwner, Owns, Active
  <1> QED
      BY <1>1, RetryInvariant, PTL

(* An event is attempted at most once more than its retry limit.             *)
THEOREM BoundedAttempts == Spec => []AttemptsBounded
  <1>1. RetryInv => AttemptsBounded
      BY RetryAssumption
      DEF RetryInv, ClaimsCounted, AttemptsBounded, TypeOK, RetryAssumption
  <1> QED
      BY <1>1, RetryInvariant, PTL

(* A settled event is never reopened and its count never moves.              *)
THEOREM SettledEventKept == Spec => FinalKept
  <1>1. RetryInv /\ [Next]_vars
        => [(status \in Final) => (status' = status /\ retryCount' = retryCount)]_vars
    <2> SUFFICES ASSUME [Next]_vars, status \in Final
                 PROVE  status' = status /\ retryCount' = retryCount
        OBVIOUS
    <2> USE DEF Final, Write, row
    <2>1. ASSUME NEW w \in Callbacks, CallbackArrives(w) \/ CallbackClaims(w)
          PROVE  status' = status /\ retryCount' = retryCount
        BY <2>1 DEF CallbackArrives, CallbackClaims
    <2>2. ASSUME NEW w \in Jobs, JobScans(w) \/ JobRecovers(w) \/ JobReads(w) \/ JobRetries(w)
          PROVE  status' = status /\ retryCount' = retryCount
        BY <2>2 DEF JobScans, JobRecovers, JobReads, JobRetries, Unchanged
    <2>3. ASSUME NEW w \in Workers,
                 \/ Commits(w) \/ AttemptThrows(w) \/ AttemptReturns(w)
                 \/ RecordsFailure(w) \/ Dies(w)
          PROVE  status' = status /\ retryCount' = retryCount
        BY <2>3 DEF Commits, AttemptThrows, AttemptReturns, RecordsFailure, Dies, Owns
    <2>4. CASE LeaseEnds \/ RetryFallsDue \/ UNCHANGED vars
        BY <2>4 DEF LeaseEnds, RetryFallsDue, vars
    <2> QED
        BY <2>1, <2>2, <2>3, <2>4 DEF Next
  <1> QED
      BY <1>1, RetryInvariant, PTL DEF Spec, FinalKept
=============================================================================
