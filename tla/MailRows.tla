-------------------------------- MODULE MailRows --------------------------------
(***************************************************************************)
(* The promise of the e-mail outbox to those who write into it: the life of  *)
(* a row.  Whoever plans mails and whoever sends them meet only here.        *)
(***************************************************************************)
EXTENDS FiniteSets

CONSTANTS
    Mails,          \* delivery rows that may be created; the id is derived
    Reminders,      \* mails of trigger live_reminder
    Recipient       \* the registration a mail is for

VARIABLE status     \* EmailDelivery.status, "none" before the row exists

Unsent == {"queued", "failed"}
Pending == Unsent \cup {"sending"}
Outcomes == {"sent", "exhausted", "suppressed", "superseded"}
Statuses == {"none"} \cup Pending \cup Outcomes

(* Other reminders of the same registration.                                 *)
Siblings(m) == {o \in Reminders \ {m} : Recipient[o] = Recipient[m]}

Waiting(ms) == {m \in ms : status[m] \in Unsent}

(* Faulty: the row says what the recipient did, which is no status.          *)
FirstReason(isSuppressed) == IF isSuppressed THEN "unsubscribed" ELSE "queued"

First(isSuppressed) == IF isSuppressed THEN "suppressed" ELSE "queued"

Init == status = [m \in Mails |-> "none"]

(* One UPDATE of these rows.                                                 *)
Write(ms, new) == status' = [m \in Mails |-> IF m \in ms THEN new ELSE status[m]]

(* Older unsent rows give way, and this row gets a status.                   *)
Replace(older, m, new) ==
    status' = [o \in Mails |-> CASE o = m -> new
                                 [] o \in older -> "superseded"
                                 [] OTHER -> status[o]]

-----------------------------------------------------------------------------
(* A confirmation, a verification or a notice: one row for good.             *)
Create(m, isSuppressed) ==
    /\ m \in Mails \ Reminders
    /\ status[m] = "none"
    /\ Write({m}, First(isSuppressed))

(* A reminder that is created, or restored after it was superseded.          *)
Opened(m) == status[m] \in {"none", "superseded"}

(* ensureLiveReminderDelivery                                                *)
EnsureReminder(m, isSuppressed) ==
    /\ m \in Reminders
    /\ Replace(Waiting(Siblings(m)), m,
               IF Opened(m) THEN First(isSuppressed) ELSE status[m])

(* Unsent rows that must not be sent any more.                               *)
Stop(ms, new) ==
    /\ ms \subseteq Waiting(Mails)
    /\ new \in {"suppressed", "superseded"}
    /\ Write(ms, new)

(* A worker takes a row and settles it, or leaves it for another attempt.    *)
Take(m) ==
    /\ status[m] \in Unsent
    /\ Write({m}, "sending")

Settle(m, new) ==
    /\ status[m] = "sending"
    /\ new \in Outcomes \cup {"failed"}
    /\ Write({m}, new)

(* The merchant retries a mail that failed, or learns that it is stale.      *)
Reopen(m, new) ==
    /\ status[m] \in {"failed", "exhausted"}
    /\ new \in {"queued", "superseded"}
    /\ Write({m}, new)

Send(m) == Take(m) \/ \E new \in Outcomes \cup {"failed"} : Settle(m, new)

Next ==
    \/ \E m \in Mails, isSuppressed \in BOOLEAN :
          \/ Create(m, isSuppressed)
          \/ EnsureReminder(m, isSuppressed)
    \/ \E ms \in SUBSET Mails, new \in {"suppressed", "superseded"} : Stop(ms, new)
    \/ \E m \in Mails : Send(m)
    \/ \E m \in Mails, new \in {"queued", "superseded"} : Reopen(m, new)

Spec == Init /\ [][Next]_status
=============================================================================
