------------------------------ MODULE AccountEmail ------------------------------
(***************************************************************************)
(* Login addresses.  A signed-in user asks for a change; the request is     *)
(* stored after the response and mails two links: the change link to the    *)
(* new address and the revert link to the current one.  Confirming moves    *)
(* the account and keeps the previous address reserved for it while the     *)
(* revert link lives; reverting cancels a change that never completed, or   *)
(* takes the account back and locks it.  Accounts are created meanwhile.    *)
(*                                                                          *)
(* Each transaction holds the user's row and the addresses it is about, so  *)
(* it is one action.  The time it works with was read before it waited for  *)
(* them and may be MaxLag old.                                              *)
(***************************************************************************)
EXTENDS Integers

CONSTANTS
    Users,
    Addresses,
    Requests,       \* UserEmailChangeRequest rows and the requests behind them
    Owner,          \* whose each request is
    FirstEmail,     \* the address of each account that exists at the start
    NoAccount,      \* the address of a user who has no account yet
    ChangeTTL,      \* ACCOUNT_EMAIL_CHANGE_TTL_MS
    RevertTTL,      \* ACCOUNT_EMAIL_REVERT_TTL_MS
    LockTime,       \* ACCOUNT_EMAIL_CHANGE_LOCK_DAYS
    MaxLag,         \* how old the time of a transaction can be
    MaxNow          \* bound on the clock

ASSUME AccountAssumption ==
    /\ Owner \in [Requests -> Users]
    /\ NoAccount \notin Addresses
    /\ FirstEmail \in [Users -> Addresses \cup {NoAccount}]
    /\ \A u, v \in Users : u # v /\ FirstEmail[u] = FirstEmail[v] => FirstEmail[u] = NoAccount
    /\ ChangeTTL \in Nat \ {0} /\ RevertTTL \in Nat /\ LockTime \in Nat
    /\ MaxLag \in Nat /\ MaxNow \in Nat
    /\ ChangeTTL + MaxLag <= RevertTTL

VARIABLES
    email,      \* User.email
    status,     \* User.status
    task,       \* where the work after the response stands
    ask,        \* the current and the new address of a request
    older,      \* the requests whose createdAt, when their work began, is earlier
    change,     \* consumedAt and revokedAt of each row
    revert,     \* revertedAt and revertRevokedAt of each row
    ends,       \* revertExpiresAt, which is expiresAt until the change completes
    revertedAt,
    mailed,     \* which of its two links were delivered
    now

account == <<email, status>>
request == <<ask, older>>
row == <<change, revert, ends, revertedAt>>
vars == <<account, task, request, row, mailed, now>>

-----------------------------------------------------------------------------
Asked == {r \in Requests : task[r] # "none"}
Of(u) == {r \in Asked : Owner[r] = u}

(* When the work of a request that is not completed began.                   *)
Began(r) == ends[r] - ChangeTTL

(* Faulty: the revert window is counted from the end of the request's.       *)
LongWindow(t) == t + ChangeTTL + RevertTTL

RevertWindow(t) == t + RevertTTL

Usable(r, t) == revert[r] = "live" /\ ends[r] > t

(* Faulty: only the addresses of accounts are taken.                         *)
NeverReserved(a, u, t) == FALSE

(* loginEmailReservedForAnother: a completed change whose revert link lives  *)
(* keeps the address it came from.                                           *)
ReservedForAnother(a, u, t) ==
    \E r \in Asked :
        change[r] = "completed" /\ Usable(r, t) /\ ask[r].from = a /\ Owner[r] # u

HeldByAnother(a, u) == \E v \in Users \ {u} : email[v] = a

TakenForAnother(a, u, t) == HeldByAnother(a, u) \/ ReservedForAnother(a, u, t)

(* accountEmailChangeLockedUntil                                             *)
Locked(u, t) == \E r \in Of(u) : revert[r] = "reverted" /\ revertedAt[r] > t - LockTime

(* The times a transaction that ends now may work with.                      *)
Clock == {t \in 0..now : now - t <= MaxLag}

Active(u) == email[u] # NoAccount /\ status[u] = "active"

(* The work of a request whose session has ended stores nothing.             *)
SessionsEnd(u) ==
    task' = [r \in Requests |-> IF r \in Of(u) /\ task[r] = "queued" THEN "orphaned" ELSE task[r]]

(* Faulty: a request that waits for its mail is left open.                   *)
RevokeAnswered(u) ==
    change' = [r \in Requests |->
                 IF r \in Of(u) /\ change[r] = "open" /\ task[r] = "over" THEN "revoked" ELSE change[r]]

(* revokeOpenRequests                                                        *)
RevokeOpen(u) ==
    change' = [r \in Requests |-> IF r \in Of(u) /\ change[r] = "open" THEN "revoked" ELSE change[r]]

NoAsk == [from |-> NoAccount, to |-> NoAccount]

Go(r, place) == task' = [task EXCEPT ![r] = place]

Init ==
    /\ email = FirstEmail
    /\ status = [u \in Users |-> "active"]
    /\ task = [r \in Requests |-> "none"]
    /\ ask = [r \in Requests |-> NoAsk]
    /\ older = [r \in Requests |-> {}]
    /\ change = [r \in Requests |-> "none"]
    /\ revert = [r \in Requests |-> "none"]
    /\ ends = [r \in Requests |-> 0]
    /\ revertedAt = [r \in Requests |-> 0]
    /\ mailed = [r \in Requests |-> {}]
    /\ now = 0

-----------------------------------------------------------------------------
(* requestAccountEmailChangeAction, and the beginning of the work it         *)
(* schedules after its response.                                             *)
Request(r, to) ==
    LET u == Owner[r] IN
    /\ task[r] = "none"
    /\ Active(u) /\ ~Locked(u, now) /\ to # email[u]
    /\ Go(r, "queued")
    /\ ask' = [ask EXCEPT ![r] = [from |-> email[u], to |-> to]]
    /\ ends' = [ends EXCEPT ![r] = now + ChangeTTL]
    /\ older' = [older EXCEPT ![r] = Asked]
    /\ UNCHANGED <<account, change, revert, revertedAt, mailed, now>>

(* processAccountEmailChangeRequest                                          *)

(* The account is as it was and not locked; the session lives ("queued").     *)
StillAsked(r) ==
    LET u == Owner[r] IN
    email[u] = ask[r].from /\ Active(u) /\ ~Locked(u, Began(r))

(* The request replaces the user's open one.  A change link to an address    *)
(* that is taken is never mailed.                                            *)
Store(r) ==
    LET u == Owner[r] IN
    /\ task[r] = "queued"
    /\ StillAsked(r)
    /\ change' = [q \in Requests |->
                    CASE q = r -> "open"
                      [] q \in Of(u) \ {r} /\ change[q] = "open" -> "revoked"
                      [] OTHER -> change[q]]
    /\ revert' = [revert EXCEPT ![r] = "live"]
    /\ Go(r, IF (\E v \in Users : email[v] = ask[r].to) \/ ReservedForAnother(ask[r].to, u, Began(r))
             THEN "noticing" ELSE "sending")
    /\ UNCHANGED <<account, request, ends, revertedAt, mailed, now>>

(* The verification mail reaches the new address; later the code hears of it. *)
VerificationArrives(r) ==
    /\ task[r] = "sending"
    /\ mailed' = [mailed EXCEPT ![r] = @ \cup {"change"}]
    /\ UNCHANGED <<account, task, request, row, now>>

VerificationSent(r) ==
    /\ task[r] = "sending" /\ "change" \in mailed[r]
    /\ Go(r, "noticing")
    /\ UNCHANGED <<account, request, row, mailed, now>>

(* Faulty: what became of the request meanwhile is not looked at.            *)
EvenCompleted(r) == TRUE

(* The request is still neither completed nor revoked.                       *)
StillOpen(r) == change[r] = "open"

(* The send failed, or its answer was lost: neither link is left usable.     *)
VerificationFails(r) ==
    /\ task[r] = "sending"
    /\ IF StillOpen(r)
       THEN /\ change' = [change EXCEPT ![r] = IF @ = "open" THEN "revoked" ELSE @]
            /\ revert' = [revert EXCEPT ![r] = "ended"]
       ELSE UNCHANGED <<change, revert>>
    /\ Go(r, "over")
    /\ UNCHANGED <<account, request, ends, revertedAt, mailed, now>>

NoticeArrives(r) ==
    /\ task[r] = "noticing"
    /\ mailed' = [mailed EXCEPT ![r] = @ \cup {"notice"}]
    /\ Go(r, "over")
    /\ UNCHANGED <<account, request, row, now>>

(* A limit, a refusal under the lock, or the process ends: nothing was       *)
(* stored, and it is as if the request had not been made.                    *)
Suppressed(r) ==
    /\ task[r] \in {"queued", "orphaned"}
    /\ Go(r, "none")
    /\ ask' = [ask EXCEPT ![r] = NoAsk]
    /\ older' = [q \in Requests |-> IF q = r THEN {} ELSE older[q] \ {r}]
    /\ ends' = [ends EXCEPT ![r] = 0]
    /\ UNCHANGED <<account, change, revert, revertedAt, mailed, now>>

(* The notice is not sent, or the process ends.                              *)
TaskEnds(r) ==
    /\ task[r] \in {"sending", "noticing"}
    /\ Go(r, "over")
    /\ UNCHANGED <<account, request, row, mailed, now>>

-----------------------------------------------------------------------------
(* confirmAccountEmailChange                                                 *)
Confirmable(r, t) ==
    /\ "change" \in mailed[r]
    /\ Active(Owner[r]) /\ email[Owner[r]] = ask[r].from
    /\ change[r] = "open" /\ ends[r] > t

Confirm(r, t) ==
    LET u == Owner[r] IN
    /\ Confirmable(r, t)
    /\ ~TakenForAnother(ask[r].to, u, t)
    /\ change' = [q \in Requests |->
                    CASE q = r -> "completed"
                      [] q \in Of(u) \ {r} /\ change[q] = "open" -> "revoked"
                      [] OTHER -> change[q]]
    /\ ends' = [ends EXCEPT ![r] = RevertWindow(t)]
    /\ email' = [email EXCEPT ![u] = ask[r].to]
    /\ SessionsEnd(u)
    /\ UNCHANGED <<status, request, revert, revertedAt, mailed, now>>

(* The address was taken since: this link can never succeed.                 *)
ConfirmTaken(r, t) ==
    /\ Confirmable(r, t)
    /\ TakenForAnother(ask[r].to, Owner[r], t)
    /\ change' = [change EXCEPT ![r] = "revoked"]
    /\ UNCHANGED <<account, task, request, revert, ends, revertedAt, mailed, now>>

-----------------------------------------------------------------------------
(* revertAccountEmailChange                                                  *)
Revertable(r, t) == "notice" \in mailed[r] /\ Usable(r, t)

(* isCancel: the change never completed and the account never left.          *)
IsCancel(r) == change[r] # "completed" /\ email[Owner[r]] = ask[r].from

(* A cancel sets no lock.                                                    *)
Used(r) == IF IsCancel(r) THEN "ended" ELSE "reverted"

Restores(r) == ~IsCancel(r) /\ email[Owner[r]] # ask[r].from

(* revokeLaterRevertLinks: those of requests made after this one.            *)
LaterLinks(r) == {q \in Of(Owner[r]) \ {r} : r \in older[q] /\ revert[q] = "live"}

(* Every session and pending change of the user ends, the link is used, the  *)
(* account is taken back, and it is held for support when a second factor    *)
(* was enrolled about the time of the request.                               *)
Revert(r, t) ==
    LET u == Owner[r] IN
    /\ Revertable(r, t)
    /\ ~(Restores(r) /\ TakenForAnother(ask[r].from, u, t))
    /\ SessionsEnd(u)
    /\ RevokeOpen(u)
    /\ email' = [email EXCEPT ![u] = IF Restores(r) THEN ask[r].from ELSE @]
    /\ \/ UNCHANGED status
       \/ status' = [status EXCEPT ![u] = "security_hold"]
    /\ revert' = [q \in Requests |->
                    CASE q = r -> Used(r)
                      [] q \in LaterLinks(r) -> "ended"
                      [] OTHER -> revert[q]]
    /\ revertedAt' = IF IsCancel(r) THEN revertedAt ELSE [revertedAt EXCEPT ![r] = t]
    /\ UNCHANGED <<request, ends, mailed, now>>

(* Somebody else has the address: the user's sessions end, the link stays.   *)
RevertConflict(r, t) ==
    LET u == Owner[r] IN
    /\ Revertable(r, t)
    /\ Restores(r) /\ TakenForAnother(ask[r].from, u, t)
    /\ SessionsEnd(u)
    /\ RevokeOpen(u)
    /\ UNCHANGED <<account, request, revert, ends, revertedAt, mailed, now>>

-----------------------------------------------------------------------------
(* The other writers.                                                        *)

(* Registration, or an invitation accepted by a new user.                    *)
CreateAccount(u, a, t) ==
    /\ email[u] = NoAccount
    /\ ~TakenForAnother(a, u, t)
    /\ email' = [email EXCEPT ![u] = a]
    /\ UNCHANGED <<status, task, request, row, mailed, now>>

(* A password change, or a reset from a link mailed to the account.          *)
NewPassword(u) ==
    /\ Active(u)
    /\ SessionsEnd(u)
    /\ RevokeOpen(u)
    /\ UNCHANGED <<account, request, revert, ends, revertedAt, mailed, now>>

(* The session a request was made from ends by itself: its user signs out, it *)
(* expires, or support removes the account's second factor.                  *)
SignOut(r) ==
    /\ task[r] = "queued"
    /\ Go(r, "orphaned")
    /\ UNCHANGED <<account, request, row, mailed, now>>

(* releaseAccountSecurityHold                                                *)
ReleaseHold(u) ==
    /\ status[u] = "security_hold"
    /\ status' = [status EXCEPT ![u] = "active"]
    /\ SessionsEnd(u)
    /\ UNCHANGED <<email, request, row, mailed, now>>

(* Work that has read the clock reaches its transaction within MaxLag.       *)
Tick ==
    /\ now < MaxNow
    /\ \A r \in Requests : task[r] \in {"queued", "orphaned"} => now + 1 - Began(r) <= MaxLag
    /\ now' = now + 1
    /\ UNCHANGED <<account, task, request, row, mailed>>

Next ==
    \/ \E r \in Requests, a \in Addresses : Request(r, a)
    \/ \E r \in Asked :
          \/ Store(r) \/ VerificationArrives(r) \/ VerificationSent(r)
          \/ VerificationFails(r) \/ NoticeArrives(r)
          \/ Suppressed(r) \/ TaskEnds(r) \/ SignOut(r)
          \/ \E t \in Clock :
                Confirm(r, t) \/ ConfirmTaken(r, t) \/ Revert(r, t) \/ RevertConflict(r, t)
    \/ \E u \in Users, a \in Addresses : \E t \in Clock : CreateAccount(u, a, t)
    \/ \E u \in Users : NewPassword(u) \/ ReleaseHold(u)
    \/ Tick

Spec == Init /\ [][Next]_vars

-----------------------------------------------------------------------------
(* Every variable has its type.                                              *)
TypeOK ==
    /\ email \in [Users -> Addresses \cup {NoAccount}]
    /\ status \in [Users -> {"active", "security_hold"}]
    /\ task \in [Requests -> {"none", "queued", "orphaned", "sending", "noticing", "over"}]
    /\ ask \in [Requests -> [from : Addresses \cup {NoAccount}, to : Addresses \cup {NoAccount}]]
    /\ \A r \in Asked : ask[r] \in [from : Addresses, to : Addresses]
    /\ older \in [Requests -> SUBSET Requests]
    /\ change \in [Requests -> {"none", "open", "completed", "revoked"}]
    /\ revert \in [Requests -> {"none", "live", "reverted", "ended"}]
    /\ ends \in [Requests -> 0..(MaxNow + RevertTTL)]
    /\ revertedAt \in [Requests -> 0..MaxNow]
    /\ mailed \in [Requests -> SUBSET {"change", "notice"}]
    /\ now \in 0..MaxNow

(* Nobody else has, or has reserved, the address that a live revert link     *)
(* takes its account back to, so that a conflict does not happen while the   *)
(* reservation holds (account-email-change.ts:526, login-email-reservation.ts:6-9). *)
RevertNeverBlocked ==
    \A r \in Asked : Usable(r, now) => ~TakenForAnother(ask[r].from, Owner[r], now)

(* After a revert that locked the account down, nothing but another revert   *)
(* link moves it: no change that was under way, no request of a session    *)
(* that was ended, no new one (account-email-change.ts:66-75).               *)
LockdownHolds ==
    [][\A u \in Users :
          Locked(u, now) /\ email'[u] # email[u]
             => \E r \in Of(u) : revert[r] = "live" /\ revert'[r] = "reverted"
                                 /\ email'[u] = ask[r].from]_vars

(* The revert link of a completed change ends early only by its own use or   *)
(* by the use of a link that was made before it, never by the answer to its  *)
(* mail, a later link, a reset or a new request                              *)
(* (account-email-change.ts:498-500).                                        *)
EndedByEarlierLink ==
    \A r \in Asked :
        change[r] = "completed" /\ revert[r] = "ended"
           => \E q \in Of(Owner[r]) :
                 q \in older[r] /\ revert[q] \in {"reverted", "ended"}
=============================================================================
