----------------------------- MODULE LiveReminders -----------------------------
(***************************************************************************)
(* The reminders of one live: the merchant edits what they are sent for, a   *)
(* job brings the registrations that exist already into line with the edit,  *)
(* batch by batch behind a durable cursor, and a registrant who confirms the *)
(* registration plans one reminder of the configuration read at that moment. *)
(* The rows are sent meanwhile by the outbox: here it is only what it        *)
(* promises of a row, MailRows, which EmailOutbox implements.                *)
(*                                                                           *)
(* A configuration is what the configDigest covers (title, start, offset,    *)
(* template); Off is one without reminders, for which no job is left to do.  *)
(***************************************************************************)
EXTENDS Integers, FiniteSets, FiniteSetsExt

CONSTANTS
    Last,           \* registrations are 1..Last in the order of creation
    Configs,        \* configurations with reminders
    Off,            \* the configuration without
    Planners,       \* runs of the job at a time
    BatchSize,      \* verified registrations of one claim of the job
    MaxJobAttempts, \* JOB_MAX_ATTEMPTS
    MaxEdits        \* bound: edits of the merchant

ASSUME RemindersAssumption ==
    /\ Last \in Nat
    /\ Off \notin Configs
    /\ BatchSize \in Nat \ {0}
    /\ MaxJobAttempts \in Nat \ {0}
    /\ MaxEdits \in Nat

VARIABLES
    config,         \* what the live says now
    past,           \* configurations whose start has passed
    verified,       \* registrations whose e-mail address was confirmed
    direct,         \* reminders that confirmed registrants are about to plan
    job,            \* LiveReminderReconciliationJob of each configuration
    planner,        \* what each run of the job is doing
    status,         \* of the reminders, see MailRows
    edits           \* edits so far

live == <<config, past, edits>>
registrations == <<verified, direct>>
vars == <<live, registrations, job, planner, status>>

Registrants == 1..Last
Reminders == Registrants \X Configs

Rows == INSTANCE MailRows
          WITH Mails <- Reminders, Reminders <- Reminders,
               Recipient <- [m \in Reminders |-> m[1]]

Open == {"pending", "processing"}
Lifecycles == {"none", "completed", "superseded", "failed"} \cup Open
Jobs == [at : Lifecycles, tries : 0..MaxJobAttempts, cursor : 0..Last,
         scope : SUBSET Registrants]    \* history: verified when it was queued

Runs == [at : {"idle", "claimed", "batched", "planning", "stale", "closing"},
         config : Configs \cup {Off}, tries : 0..MaxJobAttempts,
         cursor : 0..Last, late : BOOLEAN,
         batch : SUBSET Registrants, short : BOOLEAN]
Resting == [at |-> "idle", config |-> Off, tries |-> 0, cursor |-> 0,
            late |-> FALSE, batch |-> {}, short |-> FALSE]

Init ==
    /\ config \in Configs \cup {Off}
    /\ past = {}
    /\ verified = {}
    /\ direct = {}
    /\ job = [c \in Configs |-> [at |-> "none", tries |-> 0, cursor |-> 0, scope |-> {}]]
    /\ planner = [p \in Planners |-> Resting]
    /\ Rows!Init
    /\ edits = 0

-----------------------------------------------------------------------------
(* The merchant: queueLiveReminderReconciliation in the edit's transaction.  *)

(* Faulty: a job that starts over goes on behind its old cursor.             *)
QueuedBehind(c) ==
    IF job[c].at \in Open THEN job[c]
    ELSE [at |-> "pending", tries |-> 0, cursor |-> job[c].cursor, scope |-> verified]

(* A job that waits or runs goes on; any other starts over.                  *)
Queued(c) ==
    IF job[c].at \in Open THEN job[c]
    ELSE [at |-> "pending", tries |-> 0, cursor |-> 0, scope |-> verified]

(* A configuration whose start has passed is no configuration with reminders *)
(* any more: such an edit is an edit to Off.                                 *)
Edit(c) ==
    /\ edits < MaxEdits
    /\ c \notin past
    /\ edits' = edits + 1
    /\ config' = c
    /\ job' = [k \in Configs |->
                 IF k = c THEN Queued(k)
                 ELSE IF job[k].at \in Open
                      THEN [job[k] EXCEPT !.at = "superseded"] ELSE job[k]]
    /\ Rows!Stop(IF c = Off THEN Rows!Waiting(Reminders) ELSE {}, "superseded")
    /\ UNCHANGED <<past, registrations, planner>>

(* Time passes; nobody is told.                                              *)
LiveStarts(c) ==
    /\ c \notin past
    /\ past' = past \cup {c}
    /\ UNCHANGED <<config, edits, registrations, job, planner, status>>

-----------------------------------------------------------------------------
(* A registrant confirms the address; the configuration is read in that      *)
(* transaction, the reminder is planned after it, which may fail or come too *)
(* late.                                                                     *)
Verify(r) ==
    /\ r \notin verified
    /\ verified' = verified \cup {r}
    /\ direct' = IF config = Off THEN direct ELSE direct \cup {<<r, config>>}
    /\ UNCHANGED <<live, job, planner, status>>

PlanDirectly(m) ==
    /\ m \in direct
    /\ m[2] \notin past
    /\ direct' = direct \ {m}
    /\ \E isSuppressed \in BOOLEAN : Rows!EnsureReminder(m, isSuppressed)
    /\ UNCHANGED <<live, verified, job, planner>>

DirectPlanFails(m) ==
    /\ m \in direct
    /\ direct' = direct \ {m}
    /\ UNCHANGED <<live, verified, job, planner, status>>

-----------------------------------------------------------------------------
(* One run of the job (processLiveReminderReconciliationJobs).               *)

(* Faulty: one claim more.                                                   *)
ClaimableOnceMore(c) ==
    job[c].at \in {"pending", "failed"} /\ job[c].tries <= MaxJobAttempts

Claimable(c) == job[c].at \in {"pending", "failed"} /\ job[c].tries < MaxJobAttempts

(* The run's clock is read once, before the claim.                           *)
ClaimJob(p, c) ==
    /\ planner[p].at = "idle"
    /\ Claimable(c)
    /\ job' = [job EXCEPT ![c].at = "processing", ![c].tries = @ + 1]
    /\ \E late \in {yes \in BOOLEAN : yes => c \in past} :
          planner' = [planner EXCEPT ![p] =
                        [Resting EXCEPT !.at = "claimed", !.config = c,
                                        !.tries = job[c].tries + 1,
                                        !.cursor = job[c].cursor,
                                        !.late = late]]
    /\ UNCHANGED <<live, registrations, status>>

Matches(p) == ~planner[p].late /\ planner[p].config = config

(* The WHERE clause of every write that ends a run.                          *)
OwnsJob(p) ==
    LET j == job[planner[p].config] IN
    j.at = "processing" /\ j.tries = planner[p].tries

(* The run ends, and the job gets these columns if the run still owns it.    *)
End(p, j) ==
    /\ job' = IF OwnsJob(p) THEN [job EXCEPT ![planner[p].config] = j] ELSE job
    /\ planner' = [planner EXCEPT ![p] = Resting]
    /\ UNCHANGED <<live, registrations>>

(* The verified registrations behind the cursor, in the order of creation.   *)
Batch(p) ==
    LET behind == {r \in verified : r > planner[p].cursor} IN
    {r \in behind : Cardinality({x \in behind : x <= r}) <= BatchSize}

ReadBatch(p) ==
    /\ planner[p].at = "claimed"
    /\ planner' = [planner EXCEPT
                     ![p].at = IF Matches(p) THEN "batched" ELSE "stale",
                     ![p].batch = IF Matches(p) THEN Batch(p) ELSE {},
                     ![p].short = Matches(p) /\ Cardinality(Batch(p)) < BatchSize]
    /\ UNCHANGED <<live, registrations, job, status>>

NothingLeft(p) ==
    /\ planner[p].at = "batched"
    /\ planner[p].batch = {}
    /\ End(p, [job[planner[p].config] EXCEPT !.at = "completed"])
    /\ UNCHANGED status

(* The configuration is read once more before anything is written.           *)
Recheck(p) ==
    /\ planner[p].at = "batched"
    /\ planner[p].batch /= {}
    /\ planner' = [planner EXCEPT ![p].at = IF Matches(p) THEN "planning" ELSE "stale"]
    /\ UNCHANGED <<live, registrations, job, status>>

(* Faulty: the reminder is written without a look at the job.                *)
AlwaysCurrent(p) == TRUE

(* The guard inside the transaction that writes the reminder.                *)
IsCurrentJob(p) == job[planner[p].config].at = "processing"

Unplanned(p) == {r \in planner[p].batch : r > planner[p].cursor}

PlanNext(p) ==
    LET r == Min(Unplanned(p)) IN
    /\ planner[p].at = "planning"
    /\ Unplanned(p) /= {}
    /\ IF IsCurrentJob(p)
       THEN /\ planner' = [planner EXCEPT ![p].cursor = r]
            /\ \E isSuppressed \in BOOLEAN :
                  Rows!EnsureReminder(<<r, planner[p].config>>, isSuppressed)
       ELSE /\ planner' = [planner EXCEPT ![p] = Resting]
            /\ UNCHANGED status
    /\ UNCHANGED <<live, registrations, job>>

(* A write failed.                                                           *)
PlanFails(p) ==
    /\ planner[p].at = "planning"
    /\ Unplanned(p) /= {}
    /\ End(p, [job[planner[p].config] EXCEPT !.at = "failed"])
    /\ UNCHANGED status

Advance(p) ==
    /\ planner[p].at = "planning"
    /\ Unplanned(p) = {}
    /\ End(p, [job[planner[p].config] EXCEPT
                 !.at = IF planner[p].short THEN "completed" ELSE "pending",
                 !.cursor = planner[p].cursor])
    /\ UNCHANGED status

(* The live changed under the job: its unsent reminders are cancelled, then  *)
(* the job is closed.                                                        *)
CancelStale(p) ==
    /\ planner[p].at = "stale"
    /\ planner' = [planner EXCEPT ![p].at = "closing"]
    /\ Rows!Stop(Rows!Waiting(Reminders), "superseded")
    /\ UNCHANGED <<live, registrations, job>>

CloseStale(p) ==
    /\ planner[p].at = "closing"
    /\ End(p, [job[planner[p].config] EXCEPT !.at = "superseded"])
    /\ UNCHANGED status

PlannerDies(p) ==
    /\ planner[p].at /= "idle"
    /\ planner' = [planner EXCEPT ![p] = Resting]
    /\ UNCHANGED <<live, registrations, job, status>>

(* Faulty: a job that died in its last attempt is not looked for.            *)
RecoverRetryableJob(c) ==
    /\ job[c].at = "processing" /\ job[c].tries < MaxJobAttempts
    /\ \A p \in Planners : planner[p].config /= c
    /\ job' = [job EXCEPT ![c].at = "failed"]
    /\ UNCHANGED <<live, registrations, planner, status>>

(* The lease is over, as in EmailOutbox only once its run is gone.           *)
RecoverJob(c) ==
    /\ job[c].at = "processing"
    /\ \A p \in Planners : planner[p].config /= c
    /\ job' = [job EXCEPT ![c].at = "failed"]
    /\ UNCHANGED <<live, registrations, planner, status>>

-----------------------------------------------------------------------------
RunOn(p) ==
    \/ ReadBatch(p)
    \/ NothingLeft(p)
    \/ Recheck(p)
    \/ PlanNext(p)
    \/ Advance(p)
    \/ CancelStale(p)
    \/ CloseStale(p)

(* The outbox meanwhile: rows are sent, stopped by their recipients and      *)
(* retried by the merchant.                                                  *)
Mailing ==
    /\ \E m \in Reminders :
          \/ Rows!Send(m)
          \/ Rows!Stop({m}, "suppressed")
          \/ \E new \in {"queued", "superseded"} : Rows!Reopen(m, new)
    /\ UNCHANGED <<live, registrations, job, planner>>

Next ==
    \/ \E c \in Configs \cup {Off} : Edit(c)
    \/ \E c \in Configs : LiveStarts(c)
    \/ \E r \in Registrants : Verify(r)
    \/ \E m \in Reminders : PlanDirectly(m) \/ DirectPlanFails(m)
    \/ \E p \in Planners, c \in Configs : ClaimJob(p, c)
    \/ \E p \in Planners : RunOn(p) \/ PlanFails(p) \/ PlannerDies(p)
    \/ \E c \in Configs : RecoverJob(c)
    \/ Mailing

Spec == Init /\ [][Next]_vars

(* A run that is not killed goes on, and the cron route comes back to look   *)
(* for jobs whose run died.                                                  *)
Fairness ==
    /\ \A p \in Planners : WF_vars(RunOn(p))
    /\ \A c \in Configs : WF_vars(RecoverJob(c))

FairSpec == Spec /\ Fairness

-----------------------------------------------------------------------------
TypeOK ==
    /\ config \in Configs \cup {Off}
    /\ past \subseteq Configs
    /\ verified \subseteq Registrants
    /\ direct \subseteq Reminders
    /\ job \in [Configs -> Jobs]
    /\ planner \in [Planners -> Runs]
    /\ status \in [Reminders -> Rows!Statuses]
    /\ edits \in 0..MaxEdits

(* "Once B is committed, the old A cannot create or restore a delivery"      *)
(* (g7-23 checkpoint): a run of the job opens reminders of the configuration *)
(* the merchant saved last, however late it comes to write them.  It holds   *)
(* while no two runs have the same job.                                      *)
OldJobCreatesNothing ==
    [][\A p \in Planners, m \in Reminders :
          /\ PlanNext(p)
          /\ status[m] \notin Rows!Unsent
          /\ status'[m] \in Rows!Unsent
          => m[2] = config]_vars

(* A job moves past a registration that was verified when it was queued only *)
(* after it planned its reminder: "durable, tenant-scoped cursor for bringing *)
(* already verified registrations into line" (schema.prisma).                *)
NobodySkipped ==
    \A c \in Configs : \A r \in job[c].scope :
        r <= job[c].cursor \/ job[c].at = "completed"
            => status[<<r, c>>] /= "none"

(* A claimed job is let go of in the end, whether its run lives, dies or was *)
(* overtaken by an edit.                                                     *)
ClaimedJobReturns ==
    \A c \in Configs : job[c].at = "processing" ~> job[c].at /= "processing"
=============================================================================
