------------------------------ MODULE EmailOutbox ------------------------------
(***************************************************************************)
(* The e-mail outbox of one vendor.  Requests and jobs write rows; workers   *)
(* (the e-mail job and the hooks that run after a response) claim a row,     *)
(* check the recipient and the source once more, and call the provider.      *)
(* Every write of a row is conditional on the row the writer read.  What     *)
(* happens to the row is MailRows, which this module implements.             *)
(*                                                                           *)
(* Time is abstracted: a row that waits is due whenever a worker looks, and  *)
(* the ten minutes of a lease are over only when its worker is gone, because *)
(* no invocation of the platform lives that long.                            *)
(***************************************************************************)
EXTENDS Integers, FiniteSets

CONSTANTS
    Mails,          \* delivery rows that may be created; the id is derived
    NoMail,         \* what an idle worker holds
    Reminders,      \* mails of trigger live_reminder
    Keyed,          \* mails whose source check reads the idempotencyKey
    Exempt,         \* mails that an unsubscribe does not stop
    Sources,        \* the sets of mails whose sources can be current together
    Recipient,      \* the registration a mail is for
    Dispatchers,    \* workers that send at a time
    MaxAttempts,    \* EmailDelivery.maxAttempts
    MaxEdits,       \* bound: changes of what the mails are about
    MaxRequeues,    \* bound: retries by the merchant
    MaxRestores     \* bound: superseded reminders that come back

ASSUME OutboxAssumption ==
    /\ Reminders \subseteq Mails
    /\ Keyed \subseteq Mails \ Reminders
    /\ Exempt \subseteq Mails \ Reminders
    /\ NoMail \notin Mails
    /\ Sources \subseteq SUBSET Mails
    /\ MaxAttempts \in Nat \ {0}
    /\ MaxEdits \in Nat
    /\ MaxRequeues \in Nat
    /\ MaxRestores \in Nat

Recipients == {Recipient[m] : m \in Mails}

VARIABLES
    status,         \* EmailDelivery.status, "none" before the row exists
    attempts,       \* EmailDelivery.attemptCount
    refused,        \* exhausted rows whose lastErrorCode is provider_rejected
    current,        \* mails whose source still is what they were written for
    unsubscribed,   \* recipients with an EmailSuppression row
    suspended,      \* the vendor is suspended
    desk,           \* what each worker is doing
    asked,          \* history: workers whose recipient had not unsubscribed
                    \* when they claimed
    timely,         \* history: workers whose source was current since then
    accepted,       \* mails the provider took
    edits,          \* changes so far
    requeues,       \* merchant retries so far
    restores        \* reminders restored so far

row == <<status, attempts, refused>>
world == <<current, unsubscribed, suspended, edits>>
counts == <<requeues, restores>>
history == <<asked, timely>>
vars == <<row, world, desk, history, accepted, counts>>

Rows == INSTANCE MailRows

Verdicts == {"none", "suppressed", "superseded", "sent", "refused", "busy",
             "garbled", "retry"}
Places == {"idle", "read", "claimed", "allowed", "sound", "decided"}

Desks == [at : Places, mail : Mails \cup {NoMail}, tries : Nat, verdict : Verdicts]
Idle == [at |-> "idle", mail |-> NoMail, tries |-> 0, verdict |-> "none"]

(* Faulty: whatever the provider answers counts as taken.                    *)
AnyAnswerIsSent ==
    {[verdict |-> "sent", takes |-> TRUE], [verdict |-> "sent", takes |-> FALSE]}
      \cup [verdict : {"retry"}, takes : BOOLEAN]

(* What the provider may answer: it takes the mail or not, and the error     *)
(* class tells whether another attempt makes sense.  A busy provider rejects *)
(* for now (409, 429, 5xx); a retry is a mail it gave no answer to.          *)
Answers ==
    {[verdict |-> "sent", takes |-> TRUE],
     [verdict |-> "garbled", takes |-> TRUE],
     [verdict |-> "refused", takes |-> FALSE]}
      \cup [verdict : {"busy", "retry"}, takes : BOOLEAN]

-----------------------------------------------------------------------------
Holding(d) == desk[d].at \in {"claimed", "allowed", "sound", "decided"}
Holder(d, m) == Holding(d) /\ desk[d].mail = m

Stopped(m) == Recipient[m] \in unsubscribed /\ m \notin Exempt

(* One UPDATE of these rows.                                                 *)
Write(ms, new) == status' = [m \in Mails |-> IF m \in ms THEN new ELSE status[m]]

(* Faulty: the claim names the row by its id only.                           *)
NobodyLoses(ms) == desk

(* The claim of a worker that read one of these rows before this write does  *)
(* not match any more: updatedAt moved.                                      *)
Losers(ms) ==
    [d \in Dispatchers |->
        IF desk[d].at = "read" /\ desk[d].mail \in ms
        THEN Idle ELSE desk[d]]

(* A failed attempt is repeated later until the attempts are used up.        *)
AfterFailure(m) == IF attempts[m] >= MaxAttempts THEN "exhausted" ELSE "failed"

(* The source check as the merchant's retry makes it: the row it loads has   *)
(* no idempotencyKey, so a check that needs the key fails.                   *)
JudgedCurrent(m) == m \in current \ Keyed

Init ==
    /\ Rows!Init
    /\ attempts = [m \in Mails |-> 0]
    /\ refused = {}
    /\ current \in Sources
    /\ unsubscribed = {}
    /\ suspended = FALSE
    /\ desk = [d \in Dispatchers |-> Idle]
    /\ asked = {}
    /\ timely = {}
    /\ accepted = {}
    /\ edits = 0
    /\ requeues = 0
    /\ restores = 0

-----------------------------------------------------------------------------
(* Writers of rows.  Whether the recipient unsubscribed is read before the   *)
(* row is written: the answer may be old.                                    *)
ReadsSuppressed(m) == {yes \in BOOLEAN : yes => Recipient[m] \in unsubscribed}

Create(m) ==
    /\ \E isSuppressed \in ReadsSuppressed(m) :
          Rows!Create(m, isSuppressed /\ m \notin Exempt)
    /\ UNCHANGED <<attempts, refused, world, desk, history, accepted, counts>>

EnsureReminder(m) ==
    /\ status[m] = "superseded" => restores < MaxRestores
    /\ restores' = IF status[m] = "superseded" THEN restores + 1 ELSE restores
    /\ \E isSuppressed \in ReadsSuppressed(m) : Rows!EnsureReminder(m, isSuppressed)
    /\ desk' = Losers(Rows!Siblings(m))
    /\ UNCHANGED <<attempts, refused, world, history, accepted, requeues>>

(* The unsent reminders of a live that changed under its job.                *)
CancelReminders ==
    /\ Write(Rows!Waiting(Reminders), "superseded")
    /\ desk' = Losers(Reminders)
    /\ UNCHANGED <<attempts, refused, world, history, accepted, counts>>

-----------------------------------------------------------------------------
(* What happens around the outbox.                                           *)

(* A live, a template, a session, a registration or a token changes; when    *)
(* a live gets no reminders any more, its unsent ones go in the same         *)
(* transaction.                                                              *)
SourceChanges(now, cancelled) ==
    /\ edits < MaxEdits
    /\ current' = now
    /\ Write(cancelled, "superseded")
    /\ desk' = Losers(cancelled)
    /\ timely' = timely \cup {d \in Dispatchers : Holding(d) /\ desk[d].mail \in now}
    /\ edits' = edits + 1
    /\ UNCHANGED <<attempts, refused, unsubscribed, suspended, asked, accepted, counts>>

(* The link in a mail: the suppression and the rows in one transaction.      *)
Unsubscribe(r) ==
    LET stopped == {m \in Rows!Waiting(Mails \ Exempt) : Recipient[m] = r} IN
    /\ r \in Recipients \ unsubscribed
    /\ unsubscribed' = unsubscribed \cup {r}
    /\ Write(stopped, "suppressed")
    /\ desk' = Losers(stopped)
    /\ UNCHANGED <<attempts, refused, current, suspended, edits, history, accepted, counts>>

SuspensionChanges ==
    /\ suspended' = ~suspended
    /\ UNCHANGED <<row, current, unsubscribed, edits, desk, history, accepted, counts>>

-----------------------------------------------------------------------------
(* dispatchEmailDelivery, called by the job for a due row of an active       *)
(* vendor and by the hook that runs after a response.                        *)
Consider(d, m) ==
    /\ desk[d].at = "idle"
    /\ status[m] \in Rows!Unsent
    /\ ~suspended
    /\ desk' = [desk EXCEPT ![d] = [Idle EXCEPT !.at = "read", !.mail = m]]
    /\ UNCHANGED <<row, world, history, accepted, counts>>

(* The row is as it was read: everybody else who read it loses.              *)
Claim(d) ==
    LET m == desk[d].mail IN
    /\ desk[d].at = "read"
    /\ Write({m}, "sending")
    /\ attempts' = [attempts EXCEPT ![m] = @ + 1]
    /\ desk' = [Losers({m}) EXCEPT ![d] =
                   [desk[d] EXCEPT !.at = "claimed", !.tries = attempts[m] + 1]]
    /\ asked' = IF Stopped(m) THEN asked ELSE asked \cup {d}
    /\ timely' = IF m \in current THEN timely \cup {d} ELSE timely
    /\ UNCHANGED <<refused, world, accepted, counts>>

Decide(d, verdict) ==
    desk' = [desk EXCEPT ![d].at = "decided", ![d].verdict = verdict]

Leave(d) ==
    /\ desk' = [desk EXCEPT ![d] = Idle]
    /\ asked' = asked \ {d}
    /\ timely' = timely \ {d}

(* Faulty: only the writers of rows look whether the recipient unsubscribed. *)
NoRecipientCheck(d) ==
    /\ desk[d].at = "claimed"
    /\ desk' = [desk EXCEPT ![d].at = "allowed"]
    /\ UNCHANGED <<row, world, history, accepted, counts>>

CheckRecipient(d) ==
    /\ desk[d].at = "claimed"
    /\ IF Stopped(desk[d].mail)
       THEN Decide(d, "suppressed")
       ELSE desk' = [desk EXCEPT ![d].at = "allowed"]
    /\ UNCHANGED <<row, world, history, accepted, counts>>

CheckSource(d) ==
    /\ desk[d].at = "allowed"
    /\ IF desk[d].mail \in current
       THEN desk' = [desk EXCEPT ![d].at = "sound"]
       ELSE Decide(d, "superseded")
    /\ UNCHANGED <<row, world, history, accepted, counts>>

(* The provider drops what it took before under the same idempotency key.    *)
Send(d) ==
    /\ desk[d].at = "sound"
    /\ \E answer \in Answers :
          /\ Decide(d, answer.verdict)
          /\ accepted' = IF answer.takes
                         THEN accepted \cup {desk[d].mail} ELSE accepted
    /\ UNCHANGED <<row, world, history, counts>>

(* Every way out writes the row only while it is being sent, by this attempt.*)
Finish(d) ==
    LET m == desk[d].mail
        new == CASE desk[d].verdict \in {"refused", "garbled"} -> "exhausted"
                 [] desk[d].verdict \in {"busy", "retry"} -> AfterFailure(m)
                 [] OTHER -> desk[d].verdict
    IN
    /\ desk[d].at = "decided"
    /\ IF status[m] = "sending" /\ attempts[m] = desk[d].tries
       THEN /\ Write({m}, new)
            /\ refused' = IF desk[d].verdict \in {"refused", "busy"} /\ new = "exhausted"
                          THEN refused \cup {m} ELSE refused
       ELSE UNCHANGED <<status, refused>>
    /\ Leave(d)
    /\ UNCHANGED <<attempts, world, accepted, counts>>

(* The invocation is killed.  One that has claimed nothing leaves no trace.  *)
Crash(d) ==
    /\ desk[d].at \notin {"idle", "read"}
    /\ Leave(d)
    /\ UNCHANGED <<row, world, accepted, counts>>

(* Faulty: the lease is shorter than the work on a mail.                     *)
AlwaysOver(m) == TRUE

(* Nobody that claimed the row is left.                                      *)
LeaseOver(m) == \A d \in Dispatchers : ~Holder(d, m)

(* Faulty: a row that died in its last attempt is not looked for.            *)
RecoverRetryable(m) ==
    /\ status[m] = "sending" /\ attempts[m] < MaxAttempts
    /\ LeaseOver(m)
    /\ Write({m}, "failed")
    /\ UNCHANGED <<attempts, refused, world, desk, history, accepted, counts>>

(* The job takes back a row whose lease is over (processDueEmailDeliveries). *)
Recover(m) ==
    /\ status[m] = "sending"
    /\ LeaseOver(m)
    /\ Write({m}, AfterFailure(m))
    /\ UNCHANGED <<attempts, refused, world, desk, history, accepted, counts>>

(* Faulty: whatever used up its attempts is tried again.                     *)
AnyFailure(m) == status[m] \in {"failed", "exhausted"}

CanRequeue(m) ==
    status[m] = "failed" \/ (status[m] = "exhausted" /\ m \notin refused)

(* The merchant retries a mail that failed (requeueEmailDelivery).           *)
Requeue(m) ==
    /\ requeues < MaxRequeues
    /\ CanRequeue(m)
    /\ IF JudgedCurrent(m)
       THEN /\ Write({m}, "queued")
            /\ attempts' = IF status[m] = "exhausted" \/ attempts[m] >= MaxAttempts
                           THEN [attempts EXCEPT ![m] = 0] ELSE attempts
       ELSE Write({m}, "superseded") /\ UNCHANGED attempts
    /\ desk' = Losers({m})
    /\ requeues' = requeues + 1
    /\ UNCHANGED <<refused, world, history, accepted, restores>>

-----------------------------------------------------------------------------
Work(d) ==
    \/ Claim(d)
    \/ CheckRecipient(d)
    \/ CheckSource(d)
    \/ Send(d)
    \/ Finish(d)

Plan(m) == Create(m) \/ EnsureReminder(m)

Next ==
    \/ \E m \in Mails : Plan(m) \/ Recover(m) \/ Requeue(m)
    \/ \E d \in Dispatchers, m \in Mails : Consider(d, m)
    \/ \E d \in Dispatchers : Work(d) \/ Crash(d)
    \/ \E now \in Sources, cancelled \in {{}, Rows!Waiting(Reminders)} :
          SourceChanges(now, cancelled)
    \/ CancelReminders
    \/ \E r \in Recipients : Unsubscribe(r)
    \/ SuspensionChanges

Spec == Init /\ [][Next]_vars

(* A worker that is not killed goes on; the job comes back for what is due   *)
(* and for what was left behind.                                             *)
Fairness ==
    /\ \A d \in Dispatchers : WF_vars(Work(d))
    /\ \A m \in Mails : WF_vars(\E d \in Dispatchers : Consider(d, m))
                            /\ WF_vars(Recover(m))

FairSpec == Spec /\ Fairness

-----------------------------------------------------------------------------
TypeOK ==
    /\ status \in [Mails -> Rows!Statuses]
    /\ attempts \in [Mails -> Nat]
    /\ refused \subseteq Mails
    /\ current \in Sources
    /\ unsubscribed \subseteq Recipients
    /\ suspended \in BOOLEAN
    /\ desk \in [Dispatchers -> Desks]
    /\ asked \subseteq Dispatchers
    /\ timely \subseteq Dispatchers
    /\ accepted \subseteq Mails
    /\ edits \in 0..MaxEdits
    /\ requeues \in 0..MaxRequeues
    /\ restores \in 0..MaxRestores

(* One worker at a time is between the claim of a mail and its outcome, and  *)
(* the row says so all that time: two dispatchers, the recovery and the      *)
(* merchant's retry never work on one mail together.                         *)
OneSender ==
    \A m \in Mails :
        /\ \A d, e \in Dispatchers : Holder(d, m) /\ Holder(e, m) => d = e
        /\ \A d \in Dispatchers : Holder(d, m) => status[m] = "sending"

(* A row that says sent is a mail the provider took, whatever crashes,       *)
(* lost answers and retries came before.                                     *)
SentWasAccepted == \A m \in Mails : status[m] = "sent" => m \in accepted

(* A mail reaches the provider only through a claim made while its recipient *)
(* had not unsubscribed, during which its source was current: what changed   *)
(* while the row waited, failed or was retried is seen before it is sent.    *)
SentWhenWanted ==
    \A d \in Dispatchers :
        desk[d].at = "decided" /\ desk[d].verdict \notin {"suppressed", "superseded"}
            => d \in asked \cap timely

(* Workers, crashes, recoveries and retries do to a row only what its        *)
(* writers are promised.                                                     *)
RowsSpec == Rows!Spec

(* What is settled stays settled: a mail that was sent, stopped by its       *)
(* recipient or rejected to the end is never worked on again, and one that was  *)
(* superseded comes back only as the reminder of a restored configuration.   *)
SettledKept ==
    [][\A m \in Mails :
          /\ status[m] \in {"sent", "suppressed"} => status'[m] = status[m]
          /\ m \in refused => status'[m] = status[m]
          /\ status[m] = "superseded" /\ m \notin Reminders
                => status'[m] = "superseded"]_vars

(* A mail that is to be sent gets an outcome in the end, unless its vendor   *)
(* is suspended again: no crash, lost answer or lost race leaves it behind.  *)
MailSettles ==
    \A m \in Mails :
        status[m] \in Rows!Pending ~> (status[m] \notin Rows!Pending \/ suspended)

(* "It prevents a stale reminder or expired verification token from reaching *)
(* the provider after the source record changes" (email-delivery.ts): what   *)
(* the merchant's retry stops is stale.                                      *)
RetryDropsOnlyStale ==
    [][\A m \in Mails :
          Requeue(m) /\ status'[m] = "superseded" => m \notin current]_vars
=============================================================================
