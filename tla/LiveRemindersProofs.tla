--------------------------- MODULE LiveRemindersProofs ---------------------------
(***************************************************************************)
(* Proofs about LiveReminders, for any registrations, configurations, runs,  *)
(* batch size, attempts and edits.  What a job did not skip and an old job   *)
(* did not create they show of the behaviours in which no two runs have the  *)
(* same job at a time: of the others TLC refutes NobodySkipped.              *)
(***************************************************************************)
EXTENDS LiveReminders, FiniteSetTheorems, TLAPS

(* No two runs have the same job.                                            *)
Apart ==
    \A p, q \in Planners :
        p # q /\ planner[p].at # "idle" /\ planner[q].at # "idle"
            => planner[p].config # planner[q].config

(* A run that goes on has a job.                                             *)
HaveJobs == \A p \in Planners : planner[p].at # "idle" => planner[p].config \in Configs

TypingInv == TypeOK /\ HaveJobs

(* What was verified when a job was queued still is.                         *)
ScopesVerified == \A c \in Configs : job[c].scope \subseteq verified

(* The batch misses nobody behind the cursor of the job but registrations    *)
(* behind the whole batch, and those only if it is full.                     *)
Covers(p) ==
    \A r \in job[planner[p].config].scope :
        \/ r <= job[planner[p].config].cursor
        \/ r \in planner[p].batch
        \/ /\ ~planner[p].short
           /\ planner[p].batch # {}
           /\ \A b \in planner[p].batch : b < r

(* What a run knows of the job that it still has.                            *)
RunKnows(p) ==
    LET c == planner[p].config IN
    planner[p].at # "idle" =>
        /\ c \in Configs
        /\ job[c].at = "processing" =>
              /\ planner[p].at \in {"claimed", "batched"} => planner[p].cursor = job[c].cursor
              /\ planner[p].at \in {"batched", "planning"} => Covers(p)
              /\ planner[p].at = "planning" =>
                    /\ c = config
                    /\ \A r \in job[c].scope :
                          r <= planner[p].cursor => status[<<r, c>>] # "none"

RunsKnow == \A p \in Planners : RunKnows(p)

Inv == TypeOK /\ ScopesVerified /\ RunsKnow /\ NobodySkipped

-----------------------------------------------------------------------------
(* Every set of numbers that is not empty has a least one.                   *)
LEMMA LeastOne ==
  ASSUME NEW S \in SUBSET Nat, S # {}
  PROVE  Min(S) \in S /\ \A y \in S : Min(S) <= y
  <1>1. \E x \in S : \A y \in S : ~(<<y, x>> \in OpToRel(<, Nat))
      BY WFMin, NatLessThanWellFounded
  <1>2. \A x, y \in Nat : x < y => <<x, y>> \in OpToRel(<, Nat)
      BY Zenon DEF OpToRel
  <1>3. PICK x \in S : \A y \in S : ~(<<y, x>> \in OpToRel(<, Nat))
      BY <1>1
  <1>4. ASSUME NEW y \in S PROVE x <= y
    <2>1. ~(y < x)
        BY <1>2, <1>3, Zenon
    <2> QED
        BY <2>1
  <1> QED
      BY <1>4 DEF Min

(* The first n of a set of numbers: one that is not among them is behind all *)
(* of them, and they are n.                                                  *)
LEMMA FirstFew ==
  ASSUME NEW S \in SUBSET Nat, IsFiniteSet(S), NEW n \in Nat \ {0}, NEW r \in S,
         Cardinality({x \in S : x <= r}) > n
  PROVE  LET B == {y \in S : Cardinality({x \in S : x <= y}) <= n} IN
         /\ Cardinality(B) >= n
         /\ B # {}
         /\ \A b \in B : b < r
  <1> DEFINE upTo(y) == {x \in S : x <= y}
             B == {y \in S : Cardinality(upTo(y)) <= n}
  <1>1. \A y : IsFiniteSet(upTo(y)) /\ Cardinality(upTo(y)) \in Nat
      BY FS_Subset, FS_CardinalityType
  <1>2. B \subseteq S /\ IsFiniteSet(B) /\ Cardinality(B) \in Nat
    <2>1. B \in SUBSET S
        OBVIOUS
    <2> QED
        BY <2>1, FS_Subset, FS_CardinalityType
  <1>3. ASSUME NEW y \in S \ B, NEW b \in B PROVE b < y
    <2> SUFFICES ASSUME ~(b < y) PROVE FALSE
        OBVIOUS
    <2>1. b \in Nat /\ y \in Nat /\ y <= b
        BY <1>2
    <2>2. upTo(y) \subseteq upTo(b)
      <3> SUFFICES ASSUME NEW x \in S, x <= y PROVE x <= b
          OBVIOUS
      <3>1. x \in Nat
          OBVIOUS
      <3> QED
          BY <2>1, <3>1
    <2> DEFINE j == Cardinality(upTo(y))
               k == Cardinality(upTo(b))
    <2>3. j <= k
        BY <1>1, <2>2, FS_Subset
    <2>4. k <= n /\ ~(j <= n)
        OBVIOUS
    <2>5. j \in Nat /\ k \in Nat
        BY <1>1
    <2> QED
        BY <2>3, <2>4, <2>5
  <1>4. r \in S \ B
      BY <1>1
  <1>5. Cardinality(B) >= n
    <2> DEFINE s == Min(S \ B)
    <2>1. s \in S \ B /\ \A y \in S \ B : s <= y
        BY <1>4, LeastOne
    <2> HIDE DEF s
    <2>2. \A b \in B : b < s
        BY <1>3, <2>1
    <2>3. upTo(s) = B \cup {s}
      <3>1. ASSUME NEW x \in upTo(s) PROVE x \in B \cup {s}
          BY <2>1, <3>1
      <3>2. ASSUME NEW x \in B \cup {s} PROVE x \in upTo(s)
        <4>1. x \in S /\ (x < s \/ x = s)
            BY <1>2, <2>1, <2>2
        <4>2. x \in Nat /\ s \in Nat
            BY <2>1, <4>1
        <4> QED
            BY <4>1, <4>2
      <3> QED
          BY <3>1, <3>2
    <2>4. Cardinality(upTo(s)) = Cardinality(B) + 1
      <3> HIDE DEF B, upTo
      <3>1. s \notin B /\ IsFiniteSet(B)
          BY <1>2, <2>1
      <3>2. Cardinality(B \cup {s}) = Cardinality(B) + 1
          BY <3>1, FS_AddElement
      <3> QED
          BY <2>3, <3>2
    <2>5. ~(Cardinality(upTo(s)) <= n)
        BY <2>1
    <2> QED
        BY <1>2, <2>4, <2>5
  <1>6. B # {}
    <2> HIDE DEF B
    <2> QED
        BY <1>2, <1>5, FS_EmptySet
  <1> QED
      BY <1>3, <1>4, <1>5, <1>6

(* The first registrations behind the cursor, as many as fit.                *)
LEMMA BatchTakes ==
  ASSUME TypeOK, NEW p \in Planners, NEW r \in verified, r > planner[p].cursor
  PROVE  \/ r \in Batch(p)
         \/ /\ Cardinality(Batch(p)) >= BatchSize
            /\ Batch(p) # {}
            /\ \A b \in Batch(p) : b < r
  <1> DEFINE behind == {x \in verified : x > planner[p].cursor}
  <1>1. behind \in SUBSET Nat /\ IsFiniteSet(behind)
    <2>1. behind \in SUBSET (1..Last) /\ Last \in Nat
        BY RemindersAssumption DEF RemindersAssumption, TypeOK, Registrants
    <2>2. IsFiniteSet(1..Last)
      <3>1. Last \in Int /\ 1 \in Int
          BY <2>1
      <3> QED
          BY <3>1, FS_Interval
    <2> QED
        BY <2>1, <2>2, FS_Subset
  <1>2. Batch(p) = {y \in behind : Cardinality({x \in behind : x <= y}) <= BatchSize}
      BY DEF Batch
  <1>3. r \in behind /\ BatchSize \in Nat \ {0}
      BY RemindersAssumption DEF RemindersAssumption
  <1> HIDE DEF behind
  <1>4. CASE r \in Batch(p)
      BY <1>4
  <1>5. CASE r \notin Batch(p)
    <2>1. Cardinality({x \in behind : x <= r}) \in Nat
        BY <1>1, FS_Subset, FS_CardinalityType
    <2>2. Cardinality({x \in behind : x <= r}) > BatchSize
        BY <1>2, <1>3, <1>5, <2>1
    <2> DEFINE B == {y \in behind : Cardinality({x \in behind : x <= y}) <= BatchSize}
    <2>3. Cardinality(B) >= BatchSize /\ B # {} /\ \A b \in B : b < r
        BY <1>1, <1>3, <2>2, FirstFew
    <2> QED
        BY <1>2, <2>3
  <1> QED
      BY <1>4, <1>5

-----------------------------------------------------------------------------
Typed == status \in [Reminders -> Rows!Statuses]

(* No row disappears.                                                        *)
RowsStay ==
    /\ status' \in [Reminders -> Rows!Statuses]
    /\ \A m \in Reminders : status[m] # "none" => status'[m] # "none"

(* Stopping waiting rows.                                                    *)
LEMMA StopStays ==
  ASSUME Typed, NEW ms, NEW new \in {"suppressed", "superseded"}, Rows!Stop(ms, new)
  PROVE  RowsStay
  BY DEF Typed, RowsStay, Rows!Stop, Rows!Write, Rows!Statuses, Rows!Outcomes

(* Sending rows.                                                             *)
LEMMA SendStays ==
  ASSUME Typed, NEW m \in Reminders, Rows!Send(m)
  PROVE  RowsStay
  BY DEF Typed, RowsStay, Rows!Send, Rows!Take, Rows!Settle, Rows!Write, Rows!Statuses,
         Rows!Outcomes, Rows!Pending, Rows!Unsent

(* Retrying rows.                                                            *)
LEMMA ReopenStays ==
  ASSUME Typed, NEW m \in Reminders, NEW new \in {"queued", "superseded"}, Rows!Reopen(m, new)
  PROVE  RowsStay
  BY DEF Typed, RowsStay, Rows!Reopen, Rows!Write, Rows!Statuses, Rows!Outcomes,
         Rows!Pending, Rows!Unsent

(* Planning a reminder leaves a row of it.                                   *)
LEMMA EnsureStays ==
  ASSUME Typed, NEW m \in Reminders, NEW s, Rows!EnsureReminder(m, s)
  PROVE  RowsStay /\ status'[m] # "none"
  <1> DEFINE older == Rows!Waiting(Rows!Siblings(m))
             new == IF Rows!Opened(m) THEN Rows!First(s) ELSE status[m]
  <1>1. status' = [o \in Reminders |-> CASE o = m -> new
                                         [] o \in older -> "superseded"
                                         [] OTHER -> status[o]]
      BY DEF Rows!EnsureReminder, Rows!Replace
  <1>2. m \notin older
      BY DEF Rows!Waiting, Rows!Siblings
  <1>3. Rows!First(s) \in {"queued", "suppressed"}
      BY DEF Rows!First
  <1>4. new \in Rows!Statuses \ {"none"}
      BY <1>3 DEF Typed, Rows!Opened, Rows!Statuses, Rows!Pending, Rows!Unsent, Rows!Outcomes
  <1> HIDE DEF older, new
  <1>5. "superseded" \in Rows!Statuses
      BY DEF Rows!Statuses, Rows!Outcomes
  <1>6. status'[m] = new
      BY <1>1, <1>2
  <1>7. status' \in [Reminders -> Rows!Statuses]
      BY <1>1, <1>4, <1>5 DEF Typed
  <1>8. \A o \in Reminders : status[o] # "none" => status'[o] # "none"
      BY <1>1, <1>4
  <1> QED
      BY <1>4, <1>6, <1>7, <1>8 DEF RowsStay

-----------------------------------------------------------------------------
(* Types.                                                                    *)

(* Steps of the merchant, the time, registrants, the outbox and the lease.   *)
LEMMA AroundTyping ==
  ASSUME TypingInv,
         \/ \E c \in Configs \cup {Off} : Edit(c)
         \/ \E c \in Configs : LiveStarts(c) \/ RecoverJob(c)
         \/ \E r \in Registrants : Verify(r)
         \/ \E m \in Reminders : PlanDirectly(m) \/ DirectPlanFails(m)
         \/ Mailing
  PROVE  TypingInv'
  <1>1. Typed /\ (UNCHANGED status => RowsStay)
      BY DEF TypingInv, TypeOK, Typed, RowsStay
  <1>2. planner' = planner
      BY DEF Edit, LiveStarts, RecoverJob, Verify, PlanDirectly, DirectPlanFails, Mailing
  <1>3. HaveJobs'
      BY <1>2 DEF TypingInv, HaveJobs
  <1>4. CASE \E c \in Configs \cup {Off} : Edit(c)
    <2> PICK c \in Configs \cup {Off} : Edit(c)
        BY <1>4
    <2>1. ASSUME NEW k \in Configs
          PROVE  /\ Queued(k) \in Jobs /\ job[k] \in Jobs
                 /\ [job[k] EXCEPT !.at = "superseded"] \in Jobs
      <3>1. job[k] \in Jobs /\ verified \in SUBSET Registrants
          BY DEF TypingInv, TypeOK
      <3> QED
          BY <3>1, RemindersAssumption
          DEF Queued, Jobs, Lifecycles, Open, RemindersAssumption
    <2>2. job' \in [Configs -> Jobs]
        BY <2>1, Zenon DEF Edit
    <2>3. RowsStay
        BY <1>1, StopStays DEF Edit
    <2>4. edits' \in 0..MaxEdits
        BY RemindersAssumption DEF TypingInv, TypeOK, Edit, RemindersAssumption
    <2> QED
        BY <1>2, <1>3, <2>2, <2>3, <2>4
        DEF TypingInv, TypeOK, RowsStay, Edit, registrations
  <1>5. CASE \E c \in Configs : LiveStarts(c)
      BY <1>1, <1>2, <1>3, <1>5 DEF TypingInv, TypeOK, LiveStarts, registrations
  <1>6. CASE \E c \in Configs : RecoverJob(c)
    <2> PICK c \in Configs : RecoverJob(c)
        BY <1>6
    <2>1. [job[c] EXCEPT !.at = "failed"] \in Jobs
      <3>1. job[c] \in Jobs
          BY DEF TypingInv, TypeOK
      <3> QED
          BY <3>1 DEF Jobs, Lifecycles
    <2>2. job' \in [Configs -> Jobs]
        BY <2>1 DEF RecoverJob, TypingInv, TypeOK
    <2> QED
        BY <1>2, <1>3, <2>2 DEF TypingInv, TypeOK, RecoverJob, live, registrations
  <1>7. CASE \E r \in Registrants : Verify(r)
    <2> PICK r \in Registrants : Verify(r)
        BY <1>7
    <2>1. verified' \subseteq Registrants
        BY DEF TypingInv, TypeOK, Verify
    <2>2. config # Off => <<r, config>> \in Reminders
        BY DEF TypingInv, TypeOK, Reminders
    <2>3. direct' \subseteq Reminders
        BY <2>2 DEF TypingInv, TypeOK, Verify
    <2> QED
        BY <1>2, <1>3, <2>1, <2>3 DEF TypingInv, TypeOK, Verify, live
  <1>8. CASE \E m \in Reminders : PlanDirectly(m)
    <2>1. RowsStay
        BY <1>1, <1>8, EnsureStays DEF PlanDirectly
    <2> QED
        BY <1>2, <1>3, <1>8, <2>1 DEF TypingInv, TypeOK, PlanDirectly, live, RowsStay
  <1>9. CASE \E m \in Reminders : DirectPlanFails(m)
      BY <1>2, <1>3, <1>9 DEF TypingInv, TypeOK, DirectPlanFails, live
  <1>10. CASE Mailing
    <2>1. RowsStay
        BY <1>1, <1>10, SendStays, StopStays, ReopenStays DEF Mailing
    <2> QED
        BY <1>2, <1>3, <1>10, <2>1 DEF TypingInv, TypeOK, Mailing, live, registrations, RowsStay
  <1> QED
      BY <1>4, <1>5, <1>6, <1>7, <1>8, <1>9, <1>10

(* A step of a run that leaves it with a job, or at rest.                    *)
LEMMA RunTyping ==
  ASSUME TypingInv, NEW p \in Planners, NEW run \in Runs,
         planner' = [planner EXCEPT ![p] = run],
         run.at # "idle" => run.config \in Configs,
         job' \in [Configs -> Jobs], status' \in [Reminders -> Rows!Statuses],
         UNCHANGED <<live, registrations>>
  PROVE  TypingInv'
  <1>1. planner' \in [Planners -> Runs]
      BY DEF TypingInv, TypeOK
  <1>2. HaveJobs'
      BY DEF TypingInv, TypeOK, HaveJobs
  <1> QED
      BY <1>1, <1>2 DEF TypingInv, TypeOK, live, registrations

(* A run that is over.                                                       *)
LEMMA RestTyping ==
  ASSUME TypingInv, NEW p \in Planners, planner' = [planner EXCEPT ![p] = Resting],
         job' \in [Configs -> Jobs], UNCHANGED <<live, registrations, status>>
  PROVE  TypingInv'
  <1>1. Resting \in Runs /\ Resting.at = "idle"
      BY RemindersAssumption DEF RemindersAssumption, Resting, Runs
  <1>2. status' \in [Reminders -> Rows!Statuses]
      BY DEF TypingInv, TypeOK
  <1> QED
      BY <1>1, <1>2, RunTyping

(* A run that ends hands its job on.                                         *)
LEMMA EndTyping ==
  ASSUME TypingInv, NEW p \in Planners, planner[p].at # "idle",
         NothingLeft(p) \/ Advance(p) \/ CloseStale(p) \/ PlanFails(p)
  PROVE  TypingInv'
  <1> DEFINE c == planner[p].config
  <1>1. c \in Configs /\ planner[p] \in Runs /\ job[c] \in Jobs
      BY DEF TypingInv, TypeOK, HaveJobs
  <1>2. \A at \in Lifecycles, k \in {planner[p].cursor, job[c].cursor} :
           [job[c] EXCEPT !.at = at, !.cursor = k] \in Jobs
      BY <1>1 DEF Jobs, Runs
  <1>3. PICK j \in Jobs : End(p, j)
    <2>1. CASE Advance(p)
      <3>1. (IF planner[p].short THEN "completed" ELSE "pending") \in Lifecycles
          BY DEF Lifecycles, Open
      <3> QED
          BY <1>2, <2>1, <3>1 DEF Advance
    <2>2. \A at \in {"completed", "superseded", "failed"} : [job[c] EXCEPT !.at = at] \in Jobs
        BY <1>1 DEF Jobs, Lifecycles
    <2> QED
        BY <2>1, <2>2 DEF NothingLeft, CloseStale, PlanFails
  <1>4. job' \in [Configs -> Jobs]
      BY <1>3 DEF End, TypingInv, TypeOK
  <1>5. planner' = [planner EXCEPT ![p] = Resting] /\ UNCHANGED <<live, registrations, status>>
      BY <1>3 DEF End, NothingLeft, Advance, CloseStale, PlanFails
  <1> QED
      BY <1>4, <1>5, RestTyping

(* The other steps of a run.                                                 *)
LEMMA ClaimTyping ==
  ASSUME TypingInv, NEW p \in Planners, NEW c \in Configs, ClaimJob(p, c)
  PROVE  TypingInv'
  <1>1. PICK late \in {yes \in BOOLEAN : yes => c \in past} :
           planner' = [planner EXCEPT ![p] =
                         [Resting EXCEPT !.at = "claimed", !.config = c,
                                         !.tries = job[c].tries + 1,
                                         !.cursor = job[c].cursor,
                                         !.late = late]]
      BY DEF ClaimJob
  <1> DEFINE run == [Resting EXCEPT !.at = "claimed", !.config = c,
                                    !.tries = job[c].tries + 1,
                                    !.cursor = job[c].cursor,
                                    !.late = late]
  <1>2. job[c] \in Jobs /\ job[c].tries + 1 \in 0..MaxJobAttempts
      BY RemindersAssumption
      DEF RemindersAssumption, TypingInv, TypeOK, Jobs, ClaimJob, Claimable
  <1>3. [job[c] EXCEPT !.at = "processing", !.tries = @ + 1] \in Jobs
      BY <1>2 DEF Jobs, Lifecycles, Open
  <1>4. job' \in [Configs -> Jobs]
      BY <1>3 DEF ClaimJob, TypingInv, TypeOK
  <1>5. late \in BOOLEAN
      OBVIOUS
  <1>6. run \in Runs /\ run.config \in Configs
      BY <1>2, <1>5 DEF Runs, Resting, Jobs
  <1>7. status' \in [Reminders -> Rows!Statuses] /\ UNCHANGED <<live, registrations>>
      BY DEF ClaimJob, TypingInv, TypeOK
  <1> HIDE DEF run
  <1>8. planner' = [planner EXCEPT ![p] = run]
      BY <1>1 DEF run
  <1> QED
      BY <1>4, <1>6, <1>7, <1>8, RunTyping

LEMMA RunOnTyping ==
  ASSUME TypingInv, NEW p \in Planners,
         ReadBatch(p) \/ Recheck(p) \/ PlanNext(p) \/ CancelStale(p)
  PROVE  TypingInv'
  <1>1. planner[p].at # "idle" /\ UNCHANGED <<live, registrations, job>>
      BY DEF ReadBatch, Recheck, PlanNext, CancelStale
  <1>2. planner[p] \in Runs /\ planner[p].config \in Configs
      BY <1>1 DEF TypingInv, TypeOK, HaveJobs
  <1>3. Typed /\ (UNCHANGED status => RowsStay) /\ job' \in [Configs -> Jobs]
      BY <1>1 DEF TypingInv, TypeOK, Typed, RowsStay
  <1>4. ASSUME NEW at \in {"batched", "planning", "stale", "closing"}
        PROVE  [planner[p] EXCEPT !.at = at] \in Runs
      BY <1>2 DEF Runs
  <1>5. CASE ReadBatch(p)
    <2> DEFINE at == IF Matches(p) THEN "batched" ELSE "stale"
               batch == IF Matches(p) THEN Batch(p) ELSE {}
               short == Matches(p) /\ Cardinality(Batch(p)) < BatchSize
               run == [planner[p] EXCEPT !.at = at, !.batch = batch, !.short = short]
    <2>1. Batch(p) \subseteq Registrants
        BY DEF Batch, TypingInv, TypeOK
    <2>2. at \in {"batched", "stale"} /\ batch \in SUBSET Registrants
        BY <2>1
    <2>3. short \in BOOLEAN
        BY Zenon
    <2>4. planner' = [planner EXCEPT ![p] = run] /\ status' = status
        BY <1>2, <1>5 DEF ReadBatch, TypingInv, TypeOK
    <2> HIDE DEF at, batch, short
    <2>5. run \in Runs /\ run.config \in Configs
        BY <1>2, <2>2, <2>3 DEF Runs
    <2> QED
        BY <1>1, <1>3, <2>4, <2>5, RunTyping DEF RowsStay
  <1>6. CASE Recheck(p)
    <2> DEFINE run == [planner[p] EXCEPT !.at = IF Matches(p) THEN "planning" ELSE "stale"]
    <2>1. run \in Runs /\ run.config \in Configs
        BY <1>2 DEF Runs
    <2>2. planner' = [planner EXCEPT ![p] = run] /\ status' = status
        BY <1>2, <1>6 DEF Recheck, TypingInv, TypeOK
    <2> QED
        BY <1>1, <1>3, <2>1, <2>2, RunTyping DEF RowsStay
  <1>7. CASE CancelStale(p)
    <2> DEFINE run == [planner[p] EXCEPT !.at = "closing"]
    <2>1. run \in Runs /\ run.config \in Configs
        BY <1>2 DEF Runs
    <2>2. planner' = [planner EXCEPT ![p] = run]
        BY <1>2, <1>7 DEF CancelStale, TypingInv, TypeOK
    <2>3. RowsStay
        BY <1>3, <1>7, StopStays DEF CancelStale
    <2> QED
        BY <1>1, <1>3, <2>1, <2>2, <2>3, RunTyping DEF RowsStay
  <1>8. CASE PlanNext(p) /\ ~IsCurrentJob(p)
    <2>1. planner' = [planner EXCEPT ![p] = Resting] /\ status' = status
        BY <1>8 DEF PlanNext
    <2> QED
        BY <1>1, <1>3, <2>1, RestTyping
  <1>9. CASE PlanNext(p) /\ IsCurrentJob(p)
    <2> DEFINE r == Min(Unplanned(p))
               run == [planner[p] EXCEPT !.cursor = r]
    <2>1. Unplanned(p) \in SUBSET Nat /\ Unplanned(p) # {} /\ Unplanned(p) \subseteq Registrants
        BY <1>2, <1>9, RemindersAssumption
        DEF PlanNext, Unplanned, Runs, Registrants, RemindersAssumption
    <2>2. r \in Registrants
        BY <2>1, LeastOne
    <2>3. planner' = [planner EXCEPT ![p] = run]
        BY <1>2, <1>9 DEF PlanNext, TypingInv, TypeOK
    <2>4. RowsStay
      <3>1. <<r, planner[p].config>> \in Reminders
          BY <1>2, <2>2 DEF Reminders
      <3>2. PICK s : Rows!EnsureReminder(<<r, planner[p].config>>, s)
          BY <1>9 DEF PlanNext
      <3> QED
          BY <1>3, <3>1, <3>2, EnsureStays
    <2> HIDE DEF r
    <2>5. run \in Runs /\ run.config \in Configs
        BY <1>2, <2>2, RemindersAssumption DEF Runs, Registrants, RemindersAssumption
    <2> QED
        BY <1>1, <1>3, <2>3, <2>4, <2>5, RunTyping DEF RowsStay
  <1> QED
      BY <1>5, <1>6, <1>7, <1>8, <1>9

LEMMA TypingInit == Init => TypingInv
  <1> SUFFICES ASSUME Init PROVE TypingInv
      OBVIOUS
  <1> USE RemindersAssumption DEF RemindersAssumption, Init
  <1>1. job \in [Configs -> Jobs]
      BY DEF Jobs, Lifecycles, Registrants
  <1>2. planner \in [Planners -> Runs]
      BY DEF Runs, Resting, Registrants
  <1>3. status \in [Reminders -> Rows!Statuses]
      BY DEF Rows!Init, Rows!Statuses
  <1>4. HaveJobs
      BY DEF HaveJobs, Resting
  <1> QED
      BY <1>1, <1>2, <1>3, <1>4 DEF TypingInv, TypeOK

LEMMA TypingStep == TypingInv /\ [Next]_vars => TypingInv'
  <1> SUFFICES ASSUME TypingInv, [Next]_vars PROVE TypingInv'
      OBVIOUS
  <1>1. CASE \/ \E c \in Configs \cup {Off} : Edit(c)
             \/ \E c \in Configs : LiveStarts(c) \/ RecoverJob(c)
             \/ \E r \in Registrants : Verify(r)
             \/ \E m \in Reminders : PlanDirectly(m) \/ DirectPlanFails(m)
             \/ Mailing
      BY <1>1, AroundTyping
  <1>2. CASE \E p \in Planners, c \in Configs : ClaimJob(p, c)
      BY <1>2, ClaimTyping
  <1>3. CASE \E p \in Planners : RunOn(p) \/ PlanFails(p) \/ PlannerDies(p)
    <2> PICK p \in Planners : RunOn(p) \/ PlanFails(p) \/ PlannerDies(p)
        BY <1>3
    <2>1. CASE PlannerDies(p)
      <3>1. job' \in [Configs -> Jobs]
          BY <2>1 DEF PlannerDies, TypingInv, TypeOK
      <3> QED
          BY <2>1, <3>1, RestTyping DEF PlannerDies
    <2>2. CASE NothingLeft(p) \/ Advance(p) \/ CloseStale(p) \/ PlanFails(p)
      <3>1. planner[p].at # "idle"
          BY <2>2 DEF NothingLeft, Advance, CloseStale, PlanFails
      <3> QED
          BY <2>2, <3>1, EndTyping
    <2> QED
        BY <2>1, <2>2, RunOnTyping DEF RunOn
  <1>4. CASE UNCHANGED vars
      BY <1>4 DEF TypingInv, TypeOK, HaveJobs, vars, live, registrations
  <1> QED
      BY <1>1, <1>2, <1>3, <1>4 DEF Next

(* Type correctness of the reminders, their job and its runs.                *)
THEOREM RemindersTyping == Spec => []TypeOK
  <1>1. TypingInv => TypeOK
      BY DEF TypingInv
  <1> QED
      BY <1>1, TypingInit, TypingStep, PTL DEF Spec

-----------------------------------------------------------------------------
(* Steps around the job: it and its run stay, rows stay rows.                *)
LEMMA AroundKeeps ==
  ASSUME Inv, UNCHANGED <<config, job, planner>>, verified \subseteq verified', RowsStay
  PROVE  ScopesVerified' /\ RunsKnow' /\ NobodySkipped'
  <1>1. ScopesVerified'
      BY DEF Inv, ScopesVerified
  <1>2. \A r \in Registrants, c \in Configs : status[<<r, c>>] # "none" => status'[<<r, c>>] # "none"
      BY DEF RowsStay, Reminders
  <1>3. \A c \in Configs : job[c].scope \subseteq Registrants
      BY DEF Inv, TypeOK, Jobs
  <1>4. NobodySkipped'
      BY <1>2, <1>3 DEF Inv, NobodySkipped
  <1>5. RunsKnow'
    <2> SUFFICES ASSUME NEW p \in Planners PROVE RunKnows(p)'
        BY DEF RunsKnow
    <2>1. RunKnows(p)
        BY DEF Inv, RunsKnow
    <2>2. Covers(p)' <=> Covers(p)
        BY DEF Covers
    <2> QED
        BY <1>2, <1>3, <2>1, <2>2 DEF RunKnows
  <1> QED
      BY <1>1, <1>4, <1>5

(* The merchant edits the live.                                              *)
LEMMA EditKeeps == ASSUME Inv, TypeOK', NEW c \in Configs \cup {Off}, Edit(c) PROVE Inv'
  <1> USE RemindersAssumption DEF RemindersAssumption
  <1>1. \A k \in Configs :
           job'[k] = IF k = c THEN Queued(k)
                     ELSE IF job[k].at \in Open
                          THEN [job[k] EXCEPT !.at = "superseded"] ELSE job[k]
      BY DEF Edit
  <1>2. UNCHANGED <<verified, direct, planner, past>> /\ config' = c
      BY DEF Edit, registrations
  <1>3. RowsStay
    <2>1. Typed
        BY DEF Inv, TypeOK, Typed
    <2> QED
        BY <2>1, StopStays DEF Edit
  <1>4. \A k \in Configs :
           /\ job[k] \in Jobs /\ job'[k] \in Jobs
           /\ \/ job'[k].at = "pending" /\ job'[k].cursor = 0 /\ job'[k].scope = verified
              \/ /\ UNCHANGED <<job[k].cursor, job[k].scope>>
                 /\ job'[k].at = job[k].at \/ job'[k].at = "superseded"
                 /\ job'[k].at = "processing" => k = c
    <2> SUFFICES ASSUME NEW k \in Configs
                 PROVE  /\ job[k] \in Jobs /\ job'[k] \in Jobs
                        /\ \/ job'[k].at = "pending" /\ job'[k].cursor = 0 /\ job'[k].scope = verified
                           \/ /\ UNCHANGED <<job[k].cursor, job[k].scope>>
                              /\ job'[k].at = job[k].at \/ job'[k].at = "superseded"
                              /\ job'[k].at = "processing" => k = c
        OBVIOUS
    <2>1. job[k] \in Jobs /\ verified \in SUBSET Registrants
        BY DEF Inv, TypeOK
    <2>2. CASE k = c /\ job[k].at \notin Open
      <3>1. job'[k] = [at |-> "pending", tries |-> 0, cursor |-> 0, scope |-> verified]
          BY <1>1, <2>2 DEF Queued
      <3> QED
          BY <2>1, <3>1 DEF Jobs, Lifecycles, Open
    <2>3. CASE k = c /\ job[k].at \in Open
      <3>1. job'[k] = job[k]
          BY <1>1, <2>3 DEF Queued
      <3> QED
          BY <2>1, <2>3, <3>1
    <2>4. CASE k # c /\ job[k].at \in Open
      <3>1. job'[k] = [job[k] EXCEPT !.at = "superseded"]
          BY <1>1, <2>4
      <3> QED
          BY <2>1, <3>1 DEF Jobs, Lifecycles
    <2>5. CASE k # c /\ job[k].at \notin Open
      <3>1. job'[k] = job[k]
          BY <1>1, <2>5
      <3> QED
          BY <2>1, <2>5, <3>1 DEF Open
    <2> QED
        BY <2>2, <2>3, <2>4, <2>5
  <1>6. ScopesVerified'
      BY <1>2, <1>4 DEF Inv, ScopesVerified
  <1>7. \A r \in Registrants, k \in Configs : status[<<r, k>>] # "none" => status'[<<r, k>>] # "none"
      BY <1>3 DEF RowsStay, Reminders
  <1>8. NobodySkipped'
    <2> SUFFICES ASSUME NEW k \in Configs, NEW r \in job'[k].scope,
                        r <= job'[k].cursor \/ job'[k].at = "completed"
                 PROVE  status'[<<r, k>>] # "none"
        BY DEF NobodySkipped
    <2>1. r \in Registrants /\ r \in Nat /\ r > 0
        BY <1>4 DEF Jobs, Registrants
    <2>2. job'[k].cursor # 0 \/ job'[k].at # "pending"
        BY <2>1
    <2>3. job'[k].cursor = job[k].cursor /\ job'[k].scope = job[k].scope
          /\ (job'[k].at = "completed" => job[k].at = "completed")
        BY <1>4, <2>2
    <2> QED
        BY <1>7, <2>1, <2>3 DEF Inv, NobodySkipped
  <1>9. RunsKnow'
    <2> SUFFICES ASSUME NEW p \in Planners PROVE RunKnows(p)'
        BY DEF RunsKnow
    <2> DEFINE k == planner[p].config
    <2>1. RunKnows(p)
        BY DEF Inv, RunsKnow
    <2>2. CASE planner[p].at = "idle" \/ job'[k].at # "processing"
        BY <1>2, <2>1, <2>2 DEF RunKnows
    <2>3. CASE planner[p].at # "idle" /\ job'[k].at = "processing"
      <3>1. k \in Configs
          BY <2>1, <2>3 DEF RunKnows
      <3>2. job[k].at = "processing" /\ k = c
            /\ job'[k].cursor = job[k].cursor /\ job'[k].scope = job[k].scope
          BY <1>4, <2>3, <3>1
      <3>3. Covers(p)' <=> Covers(p)
          BY <1>2, <3>2 DEF Covers
      <3>4. \A r \in job[k].scope : status[<<r, k>>] # "none" => status'[<<r, k>>] # "none"
          BY <1>4, <1>7, <3>1 DEF Jobs
      <3> QED
          BY <1>2, <2>1, <2>3, <3>1, <3>2, <3>3, <3>4 DEF RunKnows
    <2> QED
        BY <2>2, <2>3
  <1> QED
      BY <1>6, <1>8, <1>9 DEF Inv

(* A run ends: its job gets what the run decided, or somebody else has it.   *)
LEMMA EndKeeps ==
  ASSUME Inv, TypeOK', Apart, NEW p \in Planners, NEW j \in Jobs, planner[p].at # "idle",
         End(p, j), UNCHANGED status,
         OwnsJob(p) =>
            /\ j.scope = job[planner[p].config].scope
            /\ \A r \in j.scope :
                  r <= j.cursor \/ j.at = "completed" => status[<<r, planner[p].config>>] # "none"
  PROVE  Inv'
  <1> DEFINE c == planner[p].config
  <1>1. c \in Configs
      BY DEF Inv, RunsKnow, RunKnows
  <1>2. planner' = [planner EXCEPT ![p] = Resting] /\ UNCHANGED <<config, past, edits, verified, direct>>
      BY DEF End, live, registrations
  <1>3. \A k \in Configs :
           job'[k] = job[k] \/ (k = c /\ job'[k] = j /\ OwnsJob(p))
      BY DEF End, Inv, TypeOK
  <1>5. ScopesVerified'
      BY <1>2, <1>3 DEF Inv, ScopesVerified
  <1>6. NobodySkipped'
      BY <1>3 DEF Inv, NobodySkipped
  <1>7. RunsKnow'
    <2>1. planner'[p].at = "idle" /\ \A q \in Planners \ {p} : planner'[q] = planner[q]
        BY <1>2 DEF Resting, Inv, TypeOK
    <2>2. ASSUME NEW q \in Planners \ {p}, planner[q].at # "idle" PROVE RunKnows(q)'
      <3>1. RunKnows(q) /\ planner[q].config # c /\ planner[q].config \in Configs
          BY <2>2 DEF Inv, RunsKnow, RunKnows, Apart
      <3>2. job'[planner[q].config] = job[planner[q].config]
          BY <1>3, <3>1
      <3>3. Covers(q)' <=> Covers(q)
          BY <2>1, <3>2 DEF Covers
      <3> QED
          BY <1>2, <2>1, <3>1, <3>2, <3>3 DEF RunKnows
    <2> QED
        BY <2>1, <2>2 DEF RunsKnow, RunKnows
  <1> QED
      BY <1>5, <1>6, <1>7 DEF Inv

(* What a run knows while it goes on.                                        *)
LEMMA JobKnown ==
  ASSUME Inv, NEW p \in Planners, planner[p].at # "idle"
  PROVE  /\ planner[p].config \in Configs /\ planner[p] \in Runs
         /\ job[planner[p].config] \in Jobs
         /\ RunKnows(p)
  BY DEF Inv, TypeOK, RunsKnow, RunKnows

(* Nobody is left behind the cursor.                                         *)
LEMMA NothingLeftKeeps ==
  ASSUME Inv, TypeOK', Apart, NEW p \in Planners, NothingLeft(p)
  PROVE  Inv'
  <1> DEFINE c == planner[p].config
             j == [job[c] EXCEPT !.at = "completed"]
  <1>1. planner[p].at = "batched" /\ planner[p].batch = {} /\ End(p, j) /\ status' = status
      BY DEF NothingLeft
  <1>2. c \in Configs /\ job[c] \in Jobs /\ RunKnows(p)
      BY <1>1, JobKnown
  <1>3. j \in Jobs /\ j.scope = job[c].scope
      BY <1>2 DEF Jobs, Lifecycles
  <1>4. ASSUME OwnsJob(p), NEW r \in job[c].scope PROVE status[<<r, c>>] # "none"
    <2>1. Covers(p)
        BY <1>1, <1>2, <1>4 DEF RunKnows, OwnsJob
    <2>2. r <= job[c].cursor
        BY <1>1, <2>1 DEF Covers
    <2> QED
        BY <1>2, <2>2 DEF Inv, NobodySkipped
  <1> QED
      BY <1>1, <1>3, <1>4, EndKeeps

(* A write of the run failed.                                                *)
LEMMA PlanFailsKeeps ==
  ASSUME Inv, TypeOK', Apart, NEW p \in Planners, PlanFails(p)
  PROVE  Inv'
  <1> DEFINE c == planner[p].config
             j == [job[c] EXCEPT !.at = "failed"]
  <1>1. planner[p].at = "planning" /\ End(p, j) /\ status' = status
      BY DEF PlanFails
  <1>2. c \in Configs /\ job[c] \in Jobs
      BY <1>1, JobKnown
  <1>3. j \in Jobs /\ j.scope = job[c].scope /\ j.at # "completed" /\ j.cursor = job[c].cursor
      BY <1>2 DEF Jobs, Lifecycles
  <1>4. \A r \in j.scope : r <= j.cursor \/ j.at = "completed" => status[<<r, c>>] # "none"
      BY <1>2, <1>3 DEF Inv, NobodySkipped
  <1> QED
      BY <1>1, <1>3, <1>4, EndKeeps

(* The run of a live that changed closes its job.                            *)
LEMMA CloseKeeps ==
  ASSUME Inv, TypeOK', Apart, NEW p \in Planners, CloseStale(p)
  PROVE  Inv'
  <1> DEFINE c == planner[p].config
             j == [job[c] EXCEPT !.at = "superseded"]
  <1>1. planner[p].at = "closing" /\ End(p, j) /\ status' = status
      BY DEF CloseStale
  <1>2. c \in Configs /\ job[c] \in Jobs
      BY <1>1, JobKnown
  <1>3. j \in Jobs /\ j.scope = job[c].scope /\ j.at # "completed" /\ j.cursor = job[c].cursor
      BY <1>2 DEF Jobs, Lifecycles
  <1>4. \A r \in j.scope : r <= j.cursor \/ j.at = "completed" => status[<<r, c>>] # "none"
      BY <1>2, <1>3 DEF Inv, NobodySkipped
  <1> QED
      BY <1>1, <1>3, <1>4, EndKeeps

(* The batch is planned: the cursor moves behind it, or the job is complete. *)
LEMMA AdvanceKeeps ==
  ASSUME Inv, TypeOK', Apart, NEW p \in Planners, Advance(p)
  PROVE  Inv'
  <1> DEFINE c == planner[p].config
             j == [job[c] EXCEPT !.at = IF planner[p].short THEN "completed" ELSE "pending",
                                 !.cursor = planner[p].cursor]
  <1>1. /\ planner[p].at = "planning" /\ End(p, j) /\ status' = status
        /\ \A r \in planner[p].batch : ~(r > planner[p].cursor)
      BY DEF Advance, Unplanned
  <1>2. c \in Configs /\ planner[p] \in Runs /\ job[c] \in Jobs /\ RunKnows(p)
      BY <1>1, JobKnown
  <1>3. /\ j \in Jobs /\ j.scope = job[c].scope /\ j.cursor = planner[p].cursor
        /\ j.at = "completed" => planner[p].short
      BY <1>2 DEF Jobs, Lifecycles, Open, Runs
  <1>4. planner[p].batch \subseteq Nat /\ planner[p].cursor \in Nat
      BY <1>2, RemindersAssumption DEF Runs, Registrants, RemindersAssumption
  <1>5. ASSUME OwnsJob(p), NEW r \in job[c].scope, r <= planner[p].cursor \/ planner[p].short
        PROVE  status[<<r, c>>] # "none"
    <2>1. /\ Covers(p)
          /\ \A s \in job[c].scope : s <= planner[p].cursor => status[<<s, c>>] # "none"
        BY <1>1, <1>2, <1>5 DEF RunKnows, OwnsJob
    <2>2. CASE r <= planner[p].cursor
        BY <2>1, <2>2
    <2>3. CASE planner[p].short
      <3>1. r <= job[c].cursor \/ r \in planner[p].batch
          BY <2>1, <2>3 DEF Covers
      <3>2. CASE r <= job[c].cursor
          BY <1>2, <3>2 DEF Inv, NobodySkipped
      <3>3. CASE r \in planner[p].batch
        <4>1. r <= planner[p].cursor
            BY <1>1, <1>4, <3>3
        <4> QED
            BY <2>1, <4>1
      <3> QED
          BY <3>1, <3>2, <3>3
    <2> QED
        BY <1>5, <2>2, <2>3
  <1> QED
      BY <1>1, <1>3, <1>5, EndKeeps

(* Steps of the time, of registrants and of the outbox.                      *)
LEMMA AroundStep ==
  ASSUME Inv, TypeOK',
         \/ \E c \in Configs : LiveStarts(c)
         \/ \E r \in Registrants : Verify(r)
         \/ \E m \in Reminders : PlanDirectly(m) \/ DirectPlanFails(m)
         \/ Mailing
  PROVE  Inv'
  <1>1. Typed
      BY DEF Inv, TypeOK, Typed
  <1>2. RowsStay
    <2>1. UNCHANGED status => RowsStay
        BY <1>1 DEF Typed, RowsStay
    <2>2. CASE \E m \in Reminders : PlanDirectly(m)
        BY <1>1, <2>2, EnsureStays DEF PlanDirectly
    <2>3. CASE Mailing
        BY <1>1, <2>3, SendStays, StopStays, ReopenStays DEF Mailing
    <2> QED
        BY <2>1, <2>2, <2>3 DEF LiveStarts, Verify, DirectPlanFails
  <1>3. UNCHANGED <<config, job, planner>> /\ verified \subseteq verified'
      BY DEF LiveStarts, Verify, PlanDirectly, DirectPlanFails, Mailing, live, registrations
  <1> QED
      BY <1>2, <1>3, AroundKeeps DEF Inv

(* A run claims a job.                                                       *)
LEMMA ClaimJobKeeps ==
  ASSUME Inv, TypeOK', Apart', NEW p \in Planners, NEW c \in Configs, ClaimJob(p, c)
  PROVE  Inv'
  <1> USE RemindersAssumption DEF RemindersAssumption
  <1> DEFINE j == [job[c] EXCEPT !.at = "processing", !.tries = @ + 1]
  <1>1. PICK late \in {yes \in BOOLEAN : yes => c \in past} :
           planner' = [planner EXCEPT ![p] =
                         [Resting EXCEPT !.at = "claimed", !.config = c,
                                         !.tries = job[c].tries + 1,
                                         !.cursor = job[c].cursor,
                                         !.late = late]]
      BY DEF ClaimJob
  <1>2. /\ job' = [job EXCEPT ![c].at = "processing", ![c].tries = @ + 1]
        /\ UNCHANGED <<config, past, edits, verified, direct, status>>
        /\ Claimable(c)
      BY DEF ClaimJob, live, registrations
  <1>3. job[c] \in Jobs /\ job[c].tries + 1 \in 0..MaxJobAttempts
      BY <1>2 DEF Inv, TypeOK, Jobs, Claimable
  <1>4. j \in Jobs /\ j.cursor = job[c].cursor /\ j.scope = job[c].scope /\ j.at = "processing"
      BY <1>3 DEF Jobs, Lifecycles, Open
  <1>5. \A k \in Configs : job'[k] = IF k = c THEN j ELSE job[k]
      BY <1>2 DEF Inv, TypeOK
  <1>6. /\ planner'[p].at = "claimed" /\ planner'[p].config = c
        /\ planner'[p].cursor = job[c].cursor
      BY <1>1 DEF Inv, TypeOK, Resting
  <1>8. ScopesVerified'
      BY <1>2, <1>4, <1>5 DEF Inv, ScopesVerified
  <1>9. NobodySkipped'
    <2> HIDE DEF j
    <2> SUFFICES ASSUME NEW k \in Configs, NEW r \in job'[k].scope,
                        r <= job'[k].cursor \/ job'[k].at = "completed"
                 PROVE  status[<<r, k>>] # "none"
        BY <1>2 DEF NobodySkipped
    <2>1. /\ r \in job[k].scope /\ job'[k].cursor = job[k].cursor
          /\ job'[k].at = "completed" => job[k].at = "completed"
        BY <1>4, <1>5
    <2> QED
        BY <2>1 DEF Inv, NobodySkipped
  <1>10. RunsKnow'
    <2>1. RunKnows(p)'
        BY <1>4, <1>5, <1>6 DEF RunKnows
    <2>2. ASSUME NEW q \in Planners \ {p}, planner[q].at # "idle" PROVE RunKnows(q)'
      <3>1. planner'[q] = planner[q] /\ RunKnows(q) /\ planner[q].config \in Configs
          BY <1>1, <2>2 DEF Inv, TypeOK, RunsKnow, RunKnows
      <3>2. planner[q].config # c
          BY <1>6, <2>2, <3>1 DEF Apart
      <3>3. job'[planner[q].config] = job[planner[q].config]
          BY <1>5, <3>1, <3>2
      <3>4. Covers(q)' <=> Covers(q)
          BY <3>1, <3>3 DEF Covers
      <3> QED
          BY <1>2, <3>1, <3>3, <3>4 DEF RunKnows
    <2>3. ASSUME NEW q \in Planners \ {p}, planner[q].at = "idle" PROVE RunKnows(q)'
      <3>1. planner'[q].at = "idle"
          BY <1>1, <2>3 DEF Inv, TypeOK
      <3> QED
          BY <3>1 DEF RunKnows
    <2> QED
        BY <2>1, <2>2, <2>3 DEF RunsKnow
  <1> QED
      BY <1>8, <1>9, <1>10 DEF Inv

(* A run that goes on and writes no job.                                     *)
LEMMA GoesOn ==
  ASSUME Inv, TypeOK', NEW p \in Planners, RowsStay,
         UNCHANGED <<live, registrations, job>>,
         \A q \in Planners \ {p} : planner'[q] = planner[q], RunKnows(p)'
  PROVE  Inv'
  <1>1. UNCHANGED <<config, verified, job>>
      BY DEF live, registrations
  <1>2. ScopesVerified'
      BY <1>1 DEF Inv, ScopesVerified
  <1>3. NobodySkipped'
    <2>1. \A c \in Configs : job[c].scope \subseteq Registrants
        BY DEF Inv, TypeOK, Jobs
    <2> QED
        BY <1>1, <2>1 DEF Inv, NobodySkipped, RowsStay, Reminders
  <1>4. ASSUME NEW q \in Planners \ {p}, planner[q].at # "idle" PROVE RunKnows(q)'
    <2> DEFINE c == planner[q].config
    <2>1. RunKnows(q) /\ c \in Configs /\ planner'[q] = planner[q]
        BY <1>4 DEF Inv, RunsKnow, RunKnows
    <2>2. \A r \in job[c].scope : status[<<r, c>>] # "none" => status'[<<r, c>>] # "none"
        BY <2>1 DEF Inv, TypeOK, Jobs, RowsStay, Reminders
    <2>3. Covers(q)' <=> Covers(q)
        BY <1>1, <2>1 DEF Covers
    <2> QED
        BY <1>1, <2>1, <2>2, <2>3 DEF RunKnows
  <1>5. RunsKnow'
      BY <1>4 DEF RunsKnow, RunKnows
  <1> QED
      BY <1>2, <1>3, <1>5 DEF Inv

(* Rows that nobody writes stay.                                             *)
LEMMA QuietRows == ASSUME Inv, UNCHANGED status PROVE RowsStay
  BY DEF Inv, TypeOK, RowsStay

(* The run reads its batch, or sees that the live changed.                   *)
LEMMA ReadBatchKeeps ==
  ASSUME Inv, TypeOK', NEW p \in Planners, ReadBatch(p)
  PROVE  Inv'
  <1> DEFINE c == planner[p].config
             B == Batch(p)
             at == IF Matches(p) THEN "batched" ELSE "stale"
             batch == IF Matches(p) THEN B ELSE {}
             short == Matches(p) /\ Cardinality(B) < BatchSize
  <1>1. /\ planner[p].at = "claimed" /\ UNCHANGED <<live, registrations, job, status>>
        /\ planner' = [planner EXCEPT ![p].at = at, ![p].batch = batch, ![p].short = short]
      BY DEF ReadBatch
  <1>2. c \in Configs /\ planner[p] \in Runs /\ job[c] \in Jobs /\ RunKnows(p)
      BY <1>1, JobKnown
  <1>3. B \subseteq Registrants
      BY DEF Batch, Inv, TypeOK
  <1>4. short \in BOOLEAN
      BY Zenon
  <1> HIDE DEF short, B
  <1>5. /\ planner'[p].at = at /\ planner'[p].batch = batch /\ planner'[p].short = short
        /\ planner'[p].config = c /\ planner'[p].cursor = planner[p].cursor
        /\ planner'[p] \in Runs
      BY <1>1, <1>2, <1>3, <1>4 DEF Runs, Inv, TypeOK
  <1>6. \A q \in Planners \ {p} : planner'[q] = planner[q]
      BY <1>1 DEF Inv, TypeOK
  <1>7. UNCHANGED <<config, past, edits, verified, direct, job>>
      BY <1>1 DEF live, registrations
  <1>8. RunKnows(p)'
    <2>1. CASE ~Matches(p)
        BY <1>2, <1>5, <2>1 DEF RunKnows
    <2>2. CASE Matches(p) /\ job[c].at = "processing"
      <3>1. planner[p].cursor = job[c].cursor
          BY <1>1, <1>2, <2>2 DEF RunKnows
      <3>2. ASSUME NEW r \in job[c].scope
            PROVE  \/ r <= job[c].cursor
                   \/ r \in B
                   \/ ~short /\ B # {} /\ \A b \in B : b < r
        <4>1. r \in verified /\ r \in Nat /\ job[c].cursor \in Nat
            BY <1>2, RemindersAssumption
            DEF Inv, ScopesVerified, Jobs, Registrants, RemindersAssumption
        <4>2. CASE r <= job[c].cursor
            BY <4>2
        <4>3. CASE r > planner[p].cursor
          <5>1. \/ r \in B
                \/ Cardinality(B) >= BatchSize /\ B # {} /\ \A b \in B : b < r
              BY <4>1, <4>3, BatchTakes DEF B, Inv
          <5>2. IsFiniteSet(B) /\ Cardinality(B) \in Nat
            <6>1. IsFiniteSet(Registrants)
              <7>1. Last \in Int /\ 1 \in Int
                  BY RemindersAssumption DEF RemindersAssumption
              <7> QED
                  BY <7>1, FS_Interval DEF Registrants
            <6> QED
                BY <1>3, <6>1, FS_Subset, FS_CardinalityType
          <5>3. Cardinality(B) >= BatchSize => ~(Cardinality(B) < BatchSize)
              BY <5>2, RemindersAssumption DEF RemindersAssumption
          <5>4. Cardinality(B) >= BatchSize => ~short
              BY <5>3 DEF short
          <5> QED
              BY <5>1, <5>4
        <4> QED
            BY <3>1, <4>1, <4>2, <4>3
      <3>3. Covers(p)'
          BY <1>5, <1>7, <2>2, <3>2 DEF Covers
      <3> QED
          BY <1>2, <1>5, <1>7, <2>2, <3>1, <3>3 DEF RunKnows
    <2>3. CASE job[c].at # "processing"
        BY <1>2, <1>5, <1>7, <2>3 DEF RunKnows
    <2> QED
        BY <2>1, <2>2, <2>3
  <1> QED
      BY <1>1, <1>6, <1>8, QuietRows, GoesOn

(* A run that only changes its place.                                        *)
LEMMA MovesOn ==
  ASSUME Inv, TypeOK', NEW p \in Planners, planner[p].at # "idle",
         NEW at \in {"planning", "stale", "closing"},
         planner' = [planner EXCEPT ![p].at = at],
         RowsStay, UNCHANGED <<live, registrations, job>>,
         at = "planning" => planner[p].at = "batched" /\ planner[p].config = config
  PROVE  Inv'
  <1> DEFINE c == planner[p].config
  <1>1. c \in Configs /\ planner[p] \in Runs /\ job[c] \in Jobs /\ RunKnows(p)
      BY JobKnown
  <1>2. /\ planner'[p] = [planner[p] EXCEPT !.at = at] /\ planner'[p] \in Runs
        /\ planner'[p].at = at /\ planner'[p].config = c
        /\ UNCHANGED <<planner[p].cursor, planner[p].batch, planner[p].short>>
      BY <1>1 DEF Inv, TypeOK, Runs
  <1>3. \A q \in Planners \ {p} : planner'[q] = planner[q]
      BY DEF Inv, TypeOK
  <1>4. UNCHANGED <<config, past, edits, verified, direct, job>>
      BY DEF live, registrations
  <1>5. Covers(p)' <=> Covers(p)
      BY <1>2, <1>4 DEF Covers
  <1>6. \A r \in job[c].scope : status[<<r, c>>] # "none" => status'[<<r, c>>] # "none"
      BY <1>1 DEF RowsStay, Reminders, Jobs
  <1>7. \A r \in job[c].scope : r <= job[c].cursor => status[<<r, c>>] # "none"
      BY <1>1 DEF Inv, NobodySkipped
  <1>8. RunKnows(p)'
      BY <1>1, <1>2, <1>4, <1>5, <1>6, <1>7 DEF RunKnows
  <1> QED
      BY <1>3, <1>8, GoesOn

(* The live is read again before rows are written.                           *)
LEMMA RecheckKeeps == ASSUME Inv, TypeOK', NEW p \in Planners, Recheck(p) PROVE Inv'
  <1>1. planner[p].at = "batched" /\ UNCHANGED <<live, registrations, job, status>>
      BY DEF Recheck
  <1>2. CASE Matches(p)
    <2>1. planner' = [planner EXCEPT ![p].at = "planning"] /\ planner[p].config = config
        BY <1>2 DEF Recheck, Matches
    <2> QED
        BY <1>1, <2>1, QuietRows, MovesOn
  <1>3. CASE ~Matches(p)
    <2>1. planner' = [planner EXCEPT ![p].at = "stale"]
        BY <1>3 DEF Recheck
    <2> QED
        BY <1>1, <2>1, QuietRows, MovesOn
  <1> QED
      BY <1>2, <1>3

(* The reminders of a live that changed are cancelled.                       *)
LEMMA CancelKeeps == ASSUME Inv, TypeOK', NEW p \in Planners, CancelStale(p) PROVE Inv'
  <1>1. RowsStay
      BY StopStays DEF CancelStale, Inv, TypeOK, Typed
  <1> QED
      BY <1>1, MovesOn DEF CancelStale

(* A run that is over knows nothing.                                         *)
LEMMA RestKeeps ==
  ASSUME Inv, TypeOK', NEW p \in Planners, planner' = [planner EXCEPT ![p] = Resting],
         UNCHANGED <<live, registrations, job, status>>
  PROVE  Inv'
  <1>1. planner'[p].at = "idle" /\ \A q \in Planners \ {p} : planner'[q] = planner[q]
      BY DEF Inv, TypeOK, Resting
  <1>2. RunKnows(p)'
      BY <1>1 DEF RunKnows
  <1> QED
      BY <1>1, <1>2, QuietRows, GoesOn

(* The lease of a job is over.                                               *)
LEMMA RecoverKeeps == ASSUME Inv, TypeOK', NEW c \in Configs, RecoverJob(c) PROVE Inv'
  <1>1. /\ job' = [job EXCEPT ![c].at = "failed"]
        /\ \A p \in Planners : planner[p].config # c
        /\ UNCHANGED <<config, past, edits, verified, direct, planner, status>>
      BY DEF RecoverJob, live, registrations
  <1>2. \A k \in Configs : job[k] \in Jobs
      BY DEF Inv, TypeOK
  <1>3. /\ job'[c] = [job[c] EXCEPT !.at = "failed"]
        /\ \A k \in Configs \ {c} : job'[k] = job[k]
      BY <1>1 DEF Inv, TypeOK
  <1>4. job'[c] \in Jobs /\ job'[c].scope = job[c].scope /\ job'[c].cursor = job[c].cursor
        /\ job'[c].at = "failed"
      BY <1>2, <1>3 DEF Jobs, Lifecycles
  <1>6. ScopesVerified'
      BY <1>1, <1>3, <1>4 DEF Inv, ScopesVerified
  <1>7. NobodySkipped'
    <2> SUFFICES ASSUME NEW k \in Configs, NEW r \in job'[k].scope,
                        r <= job'[k].cursor \/ job'[k].at = "completed"
                 PROVE  status[<<r, k>>] # "none"
        BY <1>1 DEF NobodySkipped
    <2>1. /\ r \in job[k].scope /\ job'[k].cursor = job[k].cursor
          /\ job'[k].at = "completed" => job[k].at = "completed"
        BY <1>3, <1>4
    <2> QED
        BY <2>1 DEF Inv, NobodySkipped
  <1>8. RunsKnow'
    <2> SUFFICES ASSUME NEW p \in Planners PROVE RunKnows(p)'
        BY DEF RunsKnow
    <2>1. RunKnows(p) /\ planner[p].config # c
        BY <1>1 DEF Inv, RunsKnow
    <2>2. planner[p].at # "idle" =>
            planner[p].config \in Configs /\ job'[planner[p].config] = job[planner[p].config]
        BY <1>3, <2>1 DEF RunKnows
    <2>3. planner[p].at # "idle" => (Covers(p)' <=> Covers(p))
        BY <1>1, <2>2 DEF Covers
    <2> QED
        BY <1>1, <2>1, <2>2, <2>3 DEF RunKnows
  <1> QED
      BY <1>6, <1>7, <1>8 DEF Inv

(* A run plans the next reminder of its batch, or finds its job taken away.  *)
LEMMA PlanNextKeeps == ASSUME Inv, TypeOK', NEW p \in Planners, PlanNext(p) PROVE Inv'
  <1> DEFINE c == planner[p].config
             r == Min(Unplanned(p))
  <1>1. /\ planner[p].at = "planning" /\ Unplanned(p) # {}
        /\ UNCHANGED <<live, registrations, job>>
      BY DEF PlanNext
  <1>2. c \in Configs /\ planner[p] \in Runs /\ job[c] \in Jobs /\ RunKnows(p)
      BY <1>1, JobKnown
  <1>3. CASE ~IsCurrentJob(p)
    <2>1. planner' = [planner EXCEPT ![p] = Resting] /\ status' = status
        BY <1>3 DEF PlanNext
    <2> QED
        BY <1>1, <2>1, RestKeeps
  <1>4. CASE IsCurrentJob(p)
    <2>1. planner' = [planner EXCEPT ![p].cursor = r]
        BY <1>4 DEF PlanNext
    <2>2. PICK s : Rows!EnsureReminder(<<r, c>>, s)
        BY <1>4 DEF PlanNext
    <2>3. planner[p].batch \in SUBSET (1..Last) /\ Last \in Nat /\ planner[p].cursor \in Nat
        BY <1>2, RemindersAssumption DEF Runs, Registrants, RemindersAssumption
    <2>4. r \in Unplanned(p) /\ \A y \in Unplanned(p) : r <= y
      <3>1. Unplanned(p) \in SUBSET Nat
          BY <2>3 DEF Unplanned
      <3> QED
          BY <1>1, <3>1, LeastOne
    <2> HIDE DEF r
    <2>5. r \in planner[p].batch /\ r \in Nat /\ r \in 1..Last
        BY <2>3, <2>4 DEF Unplanned
    <2>6. RowsStay /\ status'[<<r, c>>] # "none"
      <3>1. <<r, c>> \in Reminders /\ Typed
          BY <1>2, <2>5 DEF Reminders, Registrants, Inv, TypeOK, Typed
      <3> QED
          BY <2>2, <3>1, EnsureStays
    <2>7. /\ planner'[p] = [planner[p] EXCEPT !.cursor = r] /\ planner'[p] \in Runs
          /\ planner'[p].cursor = r /\ planner'[p].config = c /\ planner'[p].at = "planning"
          /\ UNCHANGED <<planner[p].batch, planner[p].short>>
        BY <1>1, <1>2, <2>1, <2>5 DEF Inv, TypeOK, Runs
    <2>8. \A q \in Planners \ {p} : planner'[q] = planner[q]
        BY <2>1 DEF Inv, TypeOK
    <2>9. UNCHANGED <<config, past, edits, verified, direct, job>>
        BY <1>1 DEF live, registrations
    <2>10. job[c].at = "processing"
        BY <1>4 DEF IsCurrentJob
    <2>11. /\ Covers(p) /\ c = config
           /\ \A x \in job[c].scope : x <= planner[p].cursor => status[<<x, c>>] # "none"
        BY <1>1, <1>2, <2>10 DEF RunKnows
    <2>12. ASSUME NEW x \in job[c].scope, x <= r PROVE status'[<<x, c>>] # "none"
      <3>1. x \in Nat /\ <<x, c>> \in Reminders
          BY <1>2, RemindersAssumption DEF Jobs, Registrants, Reminders, RemindersAssumption
      <3>2. status[<<x, c>>] # "none" => status'[<<x, c>>] # "none"
          BY <2>6, <3>1 DEF RowsStay
      <3>3. CASE x <= job[c].cursor
          BY <1>2, <3>2, <3>3 DEF Inv, NobodySkipped
      <3>4. CASE x \in planner[p].batch /\ x <= planner[p].cursor
          BY <2>11, <3>2, <3>4
      <3>5. CASE x \in planner[p].batch /\ ~(x <= planner[p].cursor)
        <4>1. x \in Unplanned(p)
            BY <2>3, <3>1, <3>5 DEF Unplanned
        <4>2. x = r
            BY <2>4, <2>5, <2>12, <3>1, <4>1
        <4> QED
            BY <2>6, <4>2
      <3>6. CASE \A b \in planner[p].batch : b < x
          BY <2>5, <2>12, <3>1, <3>6
      <3> QED
          BY <2>11, <3>3, <3>4, <3>5, <3>6 DEF Covers
    <2>13. Covers(p)'
        BY <2>7, <2>9, <2>11 DEF Covers
    <2>14. RunKnows(p)'
        BY <1>2, <2>7, <2>9, <2>11, <2>12, <2>13 DEF RunKnows
    <2> QED
        BY <1>1, <2>6, <2>8, <2>14, GoesOn
  <1> QED
      BY <1>3, <1>4

(* Nothing is planned at the beginning.                                      *)
LEMMA RemindersInit == Init => Inv
  <1> SUFFICES ASSUME Init PROVE Inv
      OBVIOUS
  <1>1. TypeOK
      BY TypingInit DEF TypingInv
  <1>2. ScopesVerified /\ NobodySkipped
      BY DEF Init, ScopesVerified, NobodySkipped
  <1>3. RunsKnow
      BY DEF Init, RunsKnow, RunKnows, Resting
  <1> QED
      BY <1>1, <1>2, <1>3 DEF Inv

(* Every step that leaves the runs apart keeps the invariant.                *)
LEMMA RemindersStep == Inv /\ TypeOK' /\ Apart /\ Apart' /\ [Next]_vars => Inv'
  <1> SUFFICES ASSUME Inv, TypeOK', Apart, Apart', [Next]_vars PROVE Inv'
      OBVIOUS
  <1>1. CASE \E c \in Configs \cup {Off} : Edit(c)
      BY <1>1, EditKeeps
  <1>2. CASE \/ \E c \in Configs : LiveStarts(c)
             \/ \E r \in Registrants : Verify(r)
             \/ \E m \in Reminders : PlanDirectly(m) \/ DirectPlanFails(m)
             \/ Mailing
      BY <1>2, AroundStep
  <1>3. CASE \E p \in Planners, c \in Configs : ClaimJob(p, c)
      BY <1>3, ClaimJobKeeps
  <1>4. CASE \E p \in Planners : RunOn(p) \/ PlanFails(p) \/ PlannerDies(p)
    <2> PICK p \in Planners : RunOn(p) \/ PlanFails(p) \/ PlannerDies(p)
        BY <1>4
    <2>1. CASE PlannerDies(p)
        BY <2>1, RestKeeps DEF PlannerDies
    <2> QED
        BY <2>1, ReadBatchKeeps, NothingLeftKeeps, RecheckKeeps, PlanNextKeeps,
           AdvanceKeeps, CancelKeeps, CloseKeeps, PlanFailsKeeps DEF RunOn
  <1>5. CASE \E c \in Configs : RecoverJob(c)
      BY <1>5, RecoverKeeps
  <1>6. CASE UNCHANGED vars
    <2>1. RowsStay
        BY <1>6, QuietRows DEF vars
    <2> QED
        BY <1>6, <2>1, AroundKeeps DEF vars, live, registrations, Inv
  <1> QED
      BY <1>1, <1>2, <1>3, <1>4, <1>5, <1>6 DEF Next

(* The strengthening behind the theorems below.                              *)
LEMMA RemindersInvariant == Spec /\ []Apart => []Inv
  BY RemindersInit, RemindersStep, RemindersTyping, PTL DEF Spec

(* While no two runs have the same job, no registration that was verified    *)
(* when a job was queued is passed over, whatever edits, deaths, recoveries, *)
(* failed writes and runs of other jobs come between.                        *)
THEOREM JobSkipsNobody == Spec /\ []Apart => []NobodySkipped
  <1>1. Inv => NobodySkipped
      BY DEF Inv
  <1> QED
      BY <1>1, RemindersInvariant, PTL

(* While no two runs have the same job, a run that an edit overtook opens no *)
(* reminder of the configuration it was started for.                         *)
THEOREM OldJobIsStopped == Spec /\ []Apart => OldJobCreatesNothing
  <1> DEFINE Fresh ==
        \A p \in Planners, m \in Reminders :
            /\ PlanNext(p)
            /\ status[m] \notin Rows!Unsent
            /\ status'[m] \in Rows!Unsent
            => m[2] = config
  <1>1. Inv => Fresh
    <2> SUFFICES ASSUME Inv, NEW p \in Planners, NEW m \in Reminders, PlanNext(p),
                        status[m] \notin Rows!Unsent, status'[m] \in Rows!Unsent
                 PROVE  m[2] = config
        OBVIOUS
    <2> DEFINE c == planner[p].config
               k == <<Min(Unplanned(p)), c>>
    <2>1. planner[p].at = "planning" /\ IsCurrentJob(p)
        BY DEF PlanNext
    <2>2. c = config
        BY <2>1, JobKnown DEF RunKnows, IsCurrentJob
    <2>3. PICK s : Rows!EnsureReminder(k, s)
        BY <2>1 DEF PlanNext
    <2>4. m = k
      <3> DEFINE older == Rows!Waiting(Rows!Siblings(k))
      <3>1. PICK new : status' = [o \in Reminders |-> CASE o = k -> new
                                                        [] o \in older -> "superseded"
                                                        [] OTHER -> status[o]]
          BY <2>3 DEF Rows!EnsureReminder, Rows!Replace
      <3> HIDE DEF older, k
      <3>2. m # k => status'[m] \in {"superseded", status[m]}
          BY <3>1
      <3> QED
          BY <3>2 DEF Rows!Unsent
    <2> QED
        BY <2>2, <2>4
  <1>2. Inv /\ [Next]_vars => [Fresh]_vars
      BY <1>1
  <1> HIDE DEF Fresh
  <1>3. Spec /\ []Apart => [][Fresh]_vars
      BY <1>2, RemindersInvariant, PTL DEF Spec
  <1> QED
      BY <1>3 DEF Fresh, OldJobCreatesNothing
=============================================================================
