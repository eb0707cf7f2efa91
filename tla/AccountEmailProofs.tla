--------------------------- MODULE AccountEmailProofs ---------------------------
(***************************************************************************)
(* Proofs about AccountEmail, for any users, addresses, requests, lifetimes  *)
(* and bounds.                                                              *)
(***************************************************************************)
EXTENDS AccountEmail, TLAPS

(* A request is stored once, what is open can be reverted, and until it is   *)
(* completed it ends within its own lifetime.                                *)
LinksOK ==
    \A r \in Requests :
        /\ task[r] \in {"none", "queued", "orphaned"} => change[r] = "none" /\ revert[r] = "none"
        /\ change[r] = "open" => revert[r] = "live"
        /\ r \in Asked => email[Owner[r]] # NoAccount
        /\ r \in Asked /\ change[r] # "completed" => ends[r] <= now + ChangeTTL

(* Requests are made one after the other.                                    *)
Ordered ==
    /\ \A r \in Requests : older[r] \subseteq Asked
    /\ \A r \in Asked : r \notin older[r]
    /\ \A q, r \in Asked : q = r \/ q \in older[r] \/ r \in older[q]
    /\ \A q, r, s \in Asked : q \in older[r] /\ r \in older[s] => q \in older[s]

(* While the session of a request lives its account has not moved, so later  *)
(* requests are made from the same address.                                  *)
QueuedHome ==
    \A r \in Requests : task[r] = "queued" =>
        /\ email[Owner[r]] = ask[r].from
        /\ \A s \in Of(Owner[r]) : r \in older[s] => ask[s].from = ask[r].from

Unique ==
    \A u, v \in Users : u # v /\ email[u] = email[v] => email[u] = NoAccount

(* The address a completed change came from is kept for its account.         *)
CompletedKept ==
    \A r \in Asked :
        change[r] = "completed" /\ Usable(r, now)
           => ~TakenForAnother(ask[r].from, Owner[r], now)

(* q keeps the address that p, which did not complete, would restore.        *)
Covers(q, p) ==
    /\ change[q] = "completed" /\ revert[q] = "live"
    /\ Owner[q] = Owner[p]
    /\ ask[q].from = ask[p].from
    /\ ends[q] >= ends[p]

Uncompleted == {p \in Asked : change[p] # "completed" /\ Usable(p, now)}

(* A change that did not complete is safe where its account still is, or     *)
(* under a completed change of the same account.                             *)
Protected ==
    \A p \in Uncompleted :
        email[Owner[p]] = ask[p].from \/ \E q \in Asked : Covers(q, p)

CanRevert == {r \in Asked : revert[r] = "live" \/ task[r] = "queued"}

(* When an account had left an address before a request was made, what       *)
(* covers that address is older than the request, and survives its revert.   *)
Remembered ==
    \A p \in Uncompleted : \A r \in CanRevert :
        Owner[r] = Owner[p] /\ p \in older[r] /\ ask[r].from # ask[p].from
           => \E q \in older[r] : Covers(q, p)

NothingOpenWhenLocked ==
    \A u \in Users : Locked(u, now) => \A r \in Of(u) : change[r] # "open"

Links == LinksOK /\ Ordered /\ QueuedHome /\ Unique
Kept == CompletedKept /\ Protected /\ Remembered
Sound == Links /\ Kept /\ NothingOpenWhenLocked /\ EndedByEarlierLink
Inv == TypeOK /\ Sound

-----------------------------------------------------------------------------
(* Nothing has been asked for at the start.                                  *)
LEMMA InvInit == Init => Inv
  <1> SUFFICES ASSUME Init PROVE Inv
      OBVIOUS
  <1> USE AccountAssumption DEF AccountAssumption
  <1>1. Asked = {}
      BY DEF Init, Asked
  <1>2. TypeOK
    <2>1. ask \in [Requests -> [from : Addresses \cup {NoAccount}, to : Addresses \cup {NoAccount}]]
        BY DEF Init, NoAsk
    <2>2. /\ revert = [r \in Requests |-> "none"] /\ change = [r \in Requests |-> "none"]
          /\ task = [r \in Requests |-> "none"] /\ mailed = [r \in Requests |-> {}]
        BY DEF Init
    <2> QED
        BY <1>1, <2>1, <2>2 DEF Init, TypeOK
  <1>3. Links
      BY <1>1 DEF Init, Links, LinksOK, Ordered, QueuedHome, Unique
  <1>4. Kept /\ EndedByEarlierLink
      BY <1>1 DEF Kept, CompletedKept, Protected, Remembered, Uncompleted, EndedByEarlierLink
  <1>5. NothingOpenWhenLocked
      BY <1>1 DEF NothingOpenWhenLocked, Of
  <1> QED
      BY <1>2, <1>3, <1>4, <1>5 DEF Inv, Sound

(* Every action writes values of the types of its columns.                   *)
LEMMA TypingStep == TypeOK /\ [Next]_vars => TypeOK'
  <1> SUFFICES ASSUME TypeOK, [Next]_vars PROVE TypeOK'
      OBVIOUS
  <1> USE AccountAssumption
      DEF AccountAssumption, TypeOK, Asked, Of, Go, account, request, row, vars
  <1>1. ASSUME NEW r \in Requests, NEW a \in Addresses, Request(r, a) PROVE TypeOK'
    <2>1. email[Owner[r]] \in Addresses
        BY <1>1 DEF Request, Active
    <2>2. \A q \in Asked' : ask'[q] \in [from : Addresses, to : Addresses]
        BY <1>1, <2>1 DEF Request
    <2>3. older' \in [Requests -> SUBSET Requests] /\ ends' \in [Requests -> 0..(MaxNow + RevertTTL)]
        BY <1>1 DEF Request
    <2> QED
        BY <1>1, <2>2, <2>3 DEF Request
  <1>2. ASSUME NEW r \in Asked, Store(r) PROVE TypeOK'
      BY <1>2 DEF Store
  <1>3. ASSUME NEW r \in Asked,
               VerificationArrives(r) \/ VerificationSent(r) \/ NoticeArrives(r) \/ TaskEnds(r) \/ SignOut(r)
        PROVE  TypeOK'
    <2>1. CASE VerificationArrives(r)
        BY <2>1 DEF VerificationArrives
    <2>2. CASE VerificationSent(r) \/ TaskEnds(r) \/ SignOut(r)
        BY <2>2 DEF VerificationSent, TaskEnds, SignOut
    <2>3. CASE NoticeArrives(r)
        BY <2>3 DEF NoticeArrives
    <2> QED
        BY <1>3, <2>1, <2>2, <2>3
  <1>4. ASSUME NEW r \in Asked, VerificationFails(r) PROVE TypeOK'
      BY <1>4 DEF VerificationFails
  <1>5. ASSUME NEW r \in Asked, Suppressed(r) PROVE TypeOK'
      BY <1>5 DEF Suppressed, NoAsk
  <1>6. ASSUME NEW r \in Asked, NEW t \in Clock, Confirm(r, t) \/ ConfirmTaken(r, t) PROVE TypeOK'
    <2>1. t \in 0..MaxNow /\ RevertWindow(t) \in 0..(MaxNow + RevertTTL)
        BY DEF Clock, RevertWindow
    <2>2. CASE Confirm(r, t)
        BY <2>1, <2>2 DEF Confirm, SessionsEnd
    <2>3. CASE ConfirmTaken(r, t)
        BY <2>3 DEF ConfirmTaken
    <2> QED
        BY <1>6, <2>2, <2>3
  <1>7. ASSUME NEW r \in Asked, NEW t \in Clock, Revert(r, t) PROVE TypeOK'
    <2>1. t \in 0..MaxNow
        BY DEF Clock
    <2>2. email' \in [Users -> Addresses \cup {NoAccount}]
        BY <1>7 DEF Revert
    <2>3. status' \in [Users -> {"active", "security_hold"}]
        BY <1>7 DEF Revert
    <2>4. /\ task' \in [Requests -> {"none", "queued", "orphaned", "sending", "noticing", "over"}]
          /\ \A q \in Requests : task'[q] = "none" <=> task[q] = "none"
        BY <1>7 DEF Revert, SessionsEnd
    <2>5. change' \in [Requests -> {"none", "open", "completed", "revoked"}]
        BY <1>7 DEF Revert, RevokeOpen
    <2>6. revert' \in [Requests -> {"none", "live", "reverted", "ended"}]
        BY <1>7 DEF Revert, Used
    <2>7. revertedAt' \in [Requests -> 0..MaxNow]
        BY <1>7, <2>1 DEF Revert
    <2> QED
        BY <1>7, <2>2, <2>3, <2>4, <2>5, <2>6, <2>7 DEF Revert
  <1>8. ASSUME NEW r \in Asked, NEW t \in Clock, RevertConflict(r, t) PROVE TypeOK'
      BY <1>8 DEF RevertConflict, SessionsEnd, RevokeOpen
  <1>9. ASSUME NEW u \in Users, NEW a \in Addresses, NEW t \in Clock, CreateAccount(u, a, t)
        PROVE  TypeOK'
      BY <1>9 DEF CreateAccount
  <1>10. ASSUME NEW u \in Users, NewPassword(u) \/ ReleaseHold(u) PROVE TypeOK'
      BY <1>10 DEF NewPassword, ReleaseHold, SessionsEnd, RevokeOpen
  <1>11. CASE Tick
      BY <1>11 DEF Tick
  <1>12. CASE UNCHANGED vars
      BY <1>12
  <1> QED
      BY <1>1, <1>2, <1>3, <1>4, <1>5, <1>6, <1>7, <1>8, <1>9, <1>10, <1>11, <1>12 DEF Next

-----------------------------------------------------------------------------
(* A step that moves no account and reads no clock: sessions end, work after *)
(* a response goes on, and what is open may be revoked, with its revert link *)
(* or without.                                                               *)
Quiet ==
    /\ UNCHANGED <<email, ask, older, ends, revertedAt, now>>
    /\ \A r \in Requests :
          \/ task'[r] = task[r]
          \/ task[r] = "queued" /\ task'[r] = "orphaned"
          \/ task[r] \in {"sending", "noticing"} /\ task'[r] \in {"noticing", "over"}
    /\ \A r \in Requests :
          \/ change'[r] = change[r] /\ revert'[r] = revert[r]
          \/ change[r] = "open" /\ change'[r] = "revoked" /\ revert'[r] \in {revert[r], "ended"}

(* A quiet step leaves the completed changes and their links alone, and ends *)
(* some of what the invariant is about.                                      *)
LEMMA QuietKeeps ==
  ASSUME TypeOK, Sound, Quiet
  PROVE  Sound'
  <1>1. /\ Asked' = Asked /\ Asked \subseteq Requests
        /\ \A u \in Users : Of(u)' = Of(u)
      BY DEF Quiet, Asked, Of
  <1>2. UNCHANGED <<email, ask, older, ends, revertedAt, now>>
      BY DEF Quiet
  <1>3. \A r \in Requests :
           /\ change'[r] = "completed" <=> change[r] = "completed"
           /\ change'[r] = "open" => change[r] = "open" /\ revert'[r] = revert[r]
           /\ change[r] = "completed" => revert'[r] = revert[r]
           /\ revert'[r] = "live" => revert[r] = "live"
           /\ revert'[r] = "reverted" <=> revert[r] = "reverted"
           /\ revert[r] = "ended" => revert'[r] = "ended"
           /\ task'[r] = "queued" => task[r] = "queued"
    <2>1. ASSUME NEW r \in Requests, change[r] = "open" PROVE revert[r] = "live"
        BY <2>1 DEF Sound, Links, LinksOK
    <2> QED
        BY <2>1 DEF Quiet
  <1>4. LinksOK'
    <2>1. LinksOK
        BY DEF Sound, Links
    <2>2. \A r \in Requests : task'[r] \in {"none", "queued", "orphaned"} =>
             task[r] \in {"none", "queued", "orphaned"}
        BY DEF Quiet
    <2>3. \A r \in Requests : task[r] \in {"none", "queued", "orphaned"} =>
             change'[r] = "none" /\ revert'[r] = "none"
        BY <2>1 DEF Quiet, LinksOK
    <2> QED
        BY <1>1, <1>2, <1>3, <2>1, <2>2, <2>3 DEF LinksOK
  <1>5. Ordered' /\ QueuedHome' /\ Unique'
      BY <1>1, <1>2, <1>3 DEF Sound, Links, Ordered, QueuedHome, Unique, Of
  <1>6. CompletedKept'
      BY <1>1, <1>2, <1>3
      DEF Sound, Kept, CompletedKept, Usable, TakenForAnother, HeldByAnother, ReservedForAnother
  <1>7. /\ \A q, p \in Asked : Covers(q, p) => Covers(q, p)'
        /\ Uncompleted' \subseteq Uncompleted
        /\ CanRevert' \subseteq CanRevert
      BY <1>1, <1>2, <1>3 DEF Covers, Uncompleted, CanRevert, Usable
  <1>8. Protected' /\ Remembered'
    <2>1. Protected'
        BY <1>1, <1>2, <1>7 DEF Sound, Kept, Protected, Uncompleted
    <2>2. Remembered'
        BY <1>1, <1>2, <1>7 DEF Sound, Kept, Remembered, Uncompleted, CanRevert, Links, Ordered
    <2> QED
        BY <2>1, <2>2
  <1>9. NothingOpenWhenLocked'
      BY <1>1, <1>2, <1>3 DEF Sound, NothingOpenWhenLocked, Locked, Of
  <1>10. EndedByEarlierLink'
      BY <1>1, <1>2, <1>3 DEF Sound, EndedByEarlierLink, Of
  <1> QED
      BY <1>4, <1>5, <1>6, <1>8, <1>9, <1>10 DEF Sound, Links, Kept

(* The work after a response, the refused links, a new password and the end  *)
(* of a session or of a hold are quiet.                                      *)
LEMMA QuietActions ==
  ASSUME TypeOK, Sound,
         \/ \E r \in Asked :
               \/ VerificationArrives(r) \/ VerificationSent(r) \/ VerificationFails(r)
               \/ NoticeArrives(r) \/ TaskEnds(r) \/ SignOut(r)
               \/ \E t \in Clock : ConfirmTaken(r, t) \/ RevertConflict(r, t)
         \/ \E u \in Users : NewPassword(u) \/ ReleaseHold(u)
         \/ UNCHANGED vars
  PROVE  Quiet
  <1> USE DEF TypeOK, Asked, Of, Go, account, request, row, vars, Quiet
  <1>1. ASSUME NEW r \in Asked,
               VerificationArrives(r) \/ VerificationSent(r) \/ NoticeArrives(r) \/ TaskEnds(r) \/ SignOut(r)
        PROVE  Quiet
      BY <1>1 DEF VerificationArrives, VerificationSent, NoticeArrives, TaskEnds, SignOut
  <1>2. ASSUME NEW r \in Asked, VerificationFails(r) PROVE Quiet
      BY <1>2 DEF VerificationFails, StillOpen
  <1>3. ASSUME NEW r \in Asked, NEW t \in Clock, ConfirmTaken(r, t) \/ RevertConflict(r, t)
        PROVE  Quiet
      BY <1>3 DEF ConfirmTaken, Confirmable, RevertConflict, SessionsEnd, RevokeOpen
  <1>4. ASSUME NEW u \in Users, NewPassword(u) \/ ReleaseHold(u) PROVE Quiet
      BY <1>4 DEF NewPassword, ReleaseHold, SessionsEnd, RevokeOpen
  <1>5. CASE UNCHANGED vars
      BY <1>5
  <1> QED
      BY <1>1, <1>2, <1>3, <1>4, <1>5

(* A new request is younger than every other, of an account whose earlier    *)
(* addresses are covered by now.                                             *)
LEMMA RequestKeeps ==
  ASSUME TypeOK, Sound, NEW r \in Requests, NEW a \in Addresses, Request(r, a)
  PROVE  Sound'
  <1> DEFINE u == Owner[r]
  <1>1. /\ task[r] = "none" /\ task' = [task EXCEPT ![r] = "queued"]
        /\ email[u] # NoAccount /\ u \in Users
        /\ UNCHANGED <<email, change, revert, revertedAt, now>>
        /\ ask'[r].from = email[u] /\ ends'[r] = now + ChangeTTL /\ older'[r] = Asked
        /\ \A q \in Requests \ {r} : ask'[q] = ask[q] /\ ends'[q] = ends[q] /\ older'[q] = older[q]
      BY AccountAssumption DEF AccountAssumption, TypeOK, Request, Active, Go, account
  <1>2. Asked' = Asked \cup {r} /\ r \notin Asked /\ Asked \subseteq Requests
      BY <1>1 DEF TypeOK, Asked
  <1>3. change[r] = "none" /\ revert[r] = "none"
      BY <1>1 DEF Sound, Links, LinksOK
  <1>4. \A q \in Asked : r \notin older[q]
      BY <1>2 DEF Sound, Links, Ordered
  <1>5. LinksOK'
    <2>1. ASSUME NEW q \in Requests \ {r}
          PROVE  q \in Asked' <=> q \in Asked
        BY <1>2
    <2>2. ends'[r] <= now + ChangeTTL
        BY <1>1, AccountAssumption DEF AccountAssumption, TypeOK
    <2> QED
        BY <1>1, <1>2, <1>3, <2>1, <2>2 DEF TypeOK, Sound, Links, LinksOK
  <1>6. Ordered'
      BY <1>1, <1>2, <1>4 DEF Sound, Links, Ordered
  <1>7. QueuedHome'
    <2>1. ASSUME NEW q \in Requests, task'[q] = "queued" PROVE email'[Owner[q]] = ask'[q].from
        BY <1>1, <2>1 DEF Sound, Links, QueuedHome, TypeOK
    <2>2. ASSUME NEW q \in Requests, task'[q] = "queued", NEW s \in Of(Owner[q])', q \in older'[s]
          PROVE  ask'[s].from = ask'[q].from
      <3>1. s \in Asked' /\ Owner[s] = Owner[q]
          BY <2>2 DEF Of
      <3>2. CASE s = r
          BY <1>1, <2>1, <2>2, <3>1, <3>2
      <3>3. CASE s # r
        <4>1. s \in Of(Owner[q]) /\ q \in older[s] /\ q # r /\ task[q] = "queued"
            BY <1>1, <1>2, <1>4, <2>2, <3>1, <3>3 DEF Of, TypeOK
        <4> QED
            BY <1>1, <3>3, <4>1, <1>2, <3>1 DEF Sound, Links, QueuedHome
      <3> QED
          BY <3>2, <3>3
    <2> QED
        BY <2>1, <2>2 DEF QueuedHome
  <1>8. Unique'
      BY <1>1 DEF Sound, Links, Unique
  <1>9. CompletedKept'
      BY <1>1, <1>2, <1>3
      DEF Sound, Kept, CompletedKept, Usable, TakenForAnother, HeldByAnother, ReservedForAnother
  <1>10. /\ \A q, p \in Asked : Covers(q, p) => Covers(q, p)'
         /\ Uncompleted' \subseteq Uncompleted
         /\ CanRevert' \subseteq CanRevert \cup {r}
      BY <1>1, <1>2, <1>3 DEF Covers, Uncompleted, CanRevert, Usable, TypeOK
  <1>11. \A p \in Uncompleted : p \in Asked /\ ask'[p] = ask[p]
      BY <1>1, <1>2 DEF Uncompleted
  <1>12. Protected'
      BY <1>1, <1>2, <1>10, <1>11 DEF Sound, Kept, Protected
  <1>13. Remembered'
    <2>1. ASSUME NEW p \in Uncompleted, NEW q \in CanRevert', Owner[q] = Owner[p],
                 p \in older'[q], ask'[q].from # ask'[p].from
          PROVE  \E s \in older'[q] : Covers(s, p)'
      <3>1. CASE q = r
          BY <1>1, <1>2, <1>10, <1>11, <2>1, <3>1 DEF Sound, Kept, Protected
      <3>2. CASE q # r
        <4>1. q \in CanRevert /\ q \in Asked /\ p \in older[q] /\ ask[q].from # ask[p].from
            BY <1>1, <1>2, <1>10, <1>11, <2>1, <3>2 DEF CanRevert
        <4>2. PICK s \in older[q] : Covers(s, p)
            BY <2>1, <4>1 DEF Sound, Kept, Remembered
        <4>3. s \in Asked
            BY <4>1 DEF Sound, Links, Ordered, TypeOK, Asked
        <4> QED
            BY <1>1, <1>2, <1>10, <1>11, <3>2, <4>1, <4>2, <4>3
      <3> QED
          BY <3>1, <3>2
    <2> QED
        BY <1>10, <2>1 DEF Remembered
  <1>14. NothingOpenWhenLocked'
      BY <1>1, <1>2, <1>3 DEF Sound, NothingOpenWhenLocked, Locked, Of
  <1>15. EndedByEarlierLink'
      BY <1>1, <1>2, <1>3 DEF Sound, EndedByEarlierLink, Of
  <1> QED
      BY <1>5, <1>6, <1>7, <1>8, <1>9, <1>12, <1>13, <1>14, <1>15 DEF Sound, Links, Kept

(* What is stored was asked for from the address the account still has, and  *)
(* the account is not locked.                                                *)
LEMMA StoreKeeps ==
  ASSUME TypeOK, Sound, NEW r \in Asked, Store(r)
  PROVE  Sound'
  <1> DEFINE u == Owner[r]
  <1>1. /\ r \in Requests /\ task[r] = "queued" /\ u \in Users
        /\ task' \in [Requests -> {"none", "queued", "orphaned", "sending", "noticing", "over"}]
        /\ task'[r] \in {"sending", "noticing"}
        /\ \A q \in Requests \ {r} : task'[q] = task[q]
        /\ UNCHANGED <<email, ask, older, ends, revertedAt, now>>
        /\ change'[r] = "open" /\ revert'[r] = "live"
        /\ \A q \in Requests \ {r} :
              /\ revert'[q] = revert[q]
              /\ change'[q] = change[q] \/ (change[q] = "open" /\ change'[q] = "revoked")
    <2>1. /\ r \in Requests /\ task[r] = "queued" /\ u \in Users
          /\ UNCHANGED <<email, ask, older, ends, revertedAt, now>>
        BY AccountAssumption DEF AccountAssumption, TypeOK, Store, Asked, account, request
    <2>2. PICK place \in {"sending", "noticing"} : task' = [task EXCEPT ![r] = place]
        BY DEF Store, Go
    <2>3. revert' = [revert EXCEPT ![r] = "live"]
        BY DEF Store
    <2>4. change' = [q \in Requests |->
                       CASE q = r -> "open"
                         [] q \in Of(u) \ {r} /\ change[q] = "open" -> "revoked"
                         [] OTHER -> change[q]]
        BY DEF Store
    <2>5. change'[r] = "open"
        BY <2>1, <2>4
    <2>6. \A q \in Requests \ {r} :
             change'[q] = change[q] \/ (change[q] = "open" /\ change'[q] = "revoked")
        BY <2>4
    <2> QED
        BY <2>1, <2>2, <2>3, <2>5, <2>6 DEF TypeOK
  <1>2. /\ change[r] = "none" /\ revert[r] = "none"
        /\ ends[r] <= now + ChangeTTL
      BY <1>1 DEF Sound, Links, LinksOK
  <1>3. Asked' = Asked /\ \A v \in Users : Of(v)' = Of(v)
      BY <1>1 DEF Asked, Of
  <1>4. LinksOK'
      BY <1>1, <1>2, <1>3 DEF Sound, Links, LinksOK, Asked
  <1>5. Ordered' /\ Unique'
      BY <1>1, <1>3 DEF Sound, Links, Ordered, Unique
  <1>6. QueuedHome'
      BY <1>1, <1>3, AccountAssumption DEF AccountAssumption, Sound, Links, QueuedHome
  <1>7. CompletedKept'
      BY <1>1, <1>2, <1>3, Asked \subseteq Requests
      DEF Sound, Kept, CompletedKept, Usable, TakenForAnother, HeldByAnother, ReservedForAnother, Asked
  <1>8. /\ \A q, p \in Asked : Covers(q, p) => Covers(q, p)'
        /\ Uncompleted' \subseteq Uncompleted \cup {r}
        /\ CanRevert' = CanRevert
      BY <1>1, <1>2, <1>3 DEF Covers, Uncompleted, CanRevert, Usable, Asked
  <1>9. email[u] = ask[r].from /\ \A s \in Of(u) : r \in older[s] => ask[s].from = ask[r].from
      BY <1>1 DEF Sound, Links, QueuedHome
  <1>10. Protected'
      BY <1>1, <1>3, <1>8, <1>9 DEF Sound, Kept, Protected, Uncompleted
  <1>11. Remembered'
    <2>1. ASSUME NEW p \in Uncompleted', NEW q \in CanRevert, Owner[q] = Owner[p],
                 p \in older[q], ask[q].from # ask[p].from
          PROVE  \E s \in older[q] : Covers(s, p)'
      <3>1. q \in Of(Owner[p]) /\ q \in Asked /\ p \in Asked /\ older[q] \subseteq Asked
          BY <1>3, <2>1 DEF CanRevert, Uncompleted, Of, Sound, Links, Ordered, Asked
      <3>2. p # r
          BY <1>9, <2>1, <3>1
      <3>3. PICK s \in older[q] : Covers(s, p)
          BY <1>8, <2>1, <3>2 DEF Sound, Kept, Remembered
      <3> QED
          BY <1>8, <3>1, <3>3
    <2> QED
        BY <1>1, <1>8, <2>1 DEF Remembered
  <1>12. NothingOpenWhenLocked'
    <2>1. ~Locked(u, Began(r)) /\ Began(r) <= now
        BY <1>1, <1>2, AccountAssumption DEF AccountAssumption, TypeOK, Store, StillAsked, Began
    <2>2. ~Locked(u, now)
        BY <1>1, <2>1, AccountAssumption DEF AccountAssumption, TypeOK, Locked, Of, Asked, Began
    <2>3. \A v \in Users : Locked(v, now)' => Locked(v, now)
        BY <1>1, <1>2, <1>3 DEF Locked, Of, Asked
    <2>4. ASSUME NEW v \in Users, Locked(v, now)', NEW q \in Of(v) PROVE change'[q] # "open"
        BY <1>1, <2>2, <2>3, <2>4 DEF Sound, NothingOpenWhenLocked, Of, Asked
    <2> QED
        BY <1>1, <1>3, <2>4 DEF NothingOpenWhenLocked
  <1>13. EndedByEarlierLink'
      BY <1>1, <1>2, <1>3 DEF Sound, EndedByEarlierLink, Of, Asked
  <1> QED
      BY <1>4, <1>5, <1>6, <1>7, <1>10, <1>11, <1>12, <1>13 DEF Sound, Links, Kept

(* A request that stores nothing leaves no trace.                            *)
LEMMA SuppressedKeeps ==
  ASSUME TypeOK, Sound, NEW r \in Asked, Suppressed(r)
  PROVE  Sound'
  <1>1. /\ r \in Requests /\ task[r] \in {"queued", "orphaned"}
        /\ task'[r] = "none" /\ older'[r] = {} /\ ends'[r] = 0
        /\ UNCHANGED <<email, change, revert, revertedAt, now>>
        /\ \A q \in Requests \ {r} :
              /\ task'[q] = task[q] /\ ask'[q] = ask[q] /\ ends'[q] = ends[q]
              /\ older'[q] = older[q] \ {r}
      BY DEF TypeOK, Suppressed, Go, Asked, account
  <1>2. change[r] = "none" /\ revert[r] = "none"
      BY <1>1 DEF Sound, Links, LinksOK
  <1>3. Asked' = Asked \ {r} /\ Asked \subseteq Requests
      BY <1>1 DEF Asked
  <1>4. LinksOK'
      BY <1>1, <1>2, <1>3 DEF Sound, Links, LinksOK
  <1>5. Ordered'
      BY <1>1, <1>3 DEF Sound, Links, Ordered
  <1>6. QueuedHome' /\ Unique'
      BY <1>1, <1>3 DEF Sound, Links, QueuedHome, Unique, Of
  <1>7. CompletedKept'
      BY <1>1, <1>2, <1>3
      DEF Sound, Kept, CompletedKept, Usable, TakenForAnother, HeldByAnother, ReservedForAnother
  <1>8. /\ \A q, p \in Asked' : Covers(q, p) => Covers(q, p)' /\ q # r
        /\ \A q, p \in Asked : Covers(q, p) => q # r
        /\ Uncompleted' \subseteq Uncompleted \ {r}
        /\ CanRevert' \subseteq CanRevert \ {r}
      BY <1>1, <1>2, <1>3 DEF Covers, Uncompleted, CanRevert, Usable
  <1>9. Protected'
      BY <1>1, <1>3, <1>8 DEF Sound, Kept, Protected, Uncompleted
  <1>10. Remembered'
    <2>1. ASSUME NEW p \in Uncompleted', NEW q \in CanRevert', Owner[q] = Owner[p],
                 p \in older'[q], ask'[q].from # ask'[p].from
          PROVE  \E s \in older'[q] : Covers(s, p)'
      <3>1. /\ p \in Asked' /\ q \in Asked' /\ p # r /\ q # r
            /\ p \in older[q] /\ ask[q].from # ask[p].from
          BY <1>1, <1>3, <1>8, <2>1 DEF Uncompleted, CanRevert
      <3>2. PICK s \in older[q] : Covers(s, p)
          BY <1>8, <2>1, <3>1 DEF Sound, Kept, Remembered
      <3>3. s \in Asked /\ s # r
          BY <1>3, <1>8, <3>1, <3>2 DEF Sound, Links, Ordered
      <3> QED
          BY <1>1, <1>3, <1>8, <3>1, <3>2, <3>3
    <2> QED
        BY <2>1 DEF Remembered
  <1>11. NothingOpenWhenLocked' /\ EndedByEarlierLink'
      BY <1>1, <1>2, <1>3
      DEF Sound, NothingOpenWhenLocked, Locked, EndedByEarlierLink, Of
  <1> QED
      BY <1>4, <1>5, <1>6, <1>7, <1>9, <1>10, <1>11 DEF Sound, Links, Kept

(* The account moves, and what its open requests would restore is covered by *)
(* the completed one: its window ends after theirs.                          *)
LEMMA ConfirmKeeps ==
  ASSUME TypeOK, Sound, NEW r \in Asked, NEW t \in Clock, Confirm(r, t)
  PROVE  Sound'
  <1> DEFINE u == Owner[r]
  <1>1. /\ r \in Requests /\ u \in Users
        /\ change[r] = "open" /\ change'[r] = "completed"
        /\ email[u] = ask[r].from /\ ask[r].from \in Addresses /\ ask[r].to \in Addresses
        /\ email' = [email EXCEPT ![u] = ask[r].to]
        /\ ~TakenForAnother(ask[r].to, u, t)
        /\ UNCHANGED <<ask, older, revert, revertedAt, now>>
    <2>1. change' = [q \in Requests |->
                       CASE q = r -> "completed"
                         [] q \in Of(u) \ {r} /\ change[q] = "open" -> "revoked"
                         [] OTHER -> change[q]]
        BY DEF Confirm
    <2>2. r \in Requests
        BY DEF Asked
    <2> QED
        BY <2>1, <2>2, AccountAssumption
        DEF AccountAssumption, TypeOK, Confirm, Confirmable, request
  <1>2. /\ ends'[r] = t + RevertTTL
        /\ \A q \in Requests \ {r} :
              /\ ends'[q] = ends[q]
              /\ change'[q] = change[q] \/ (change[q] = "open" /\ change'[q] = "revoked")
        /\ \A q \in Requests :
              task'[q] = task[q] \/ (task[q] = "queued" /\ task'[q] = "orphaned" /\ Owner[q] = u)
        /\ \A q \in Requests : task'[q] = "queued" => Owner[q] # u
    <2>1. change' = [q \in Requests |->
                       CASE q = r -> "completed"
                         [] q \in Of(u) \ {r} /\ change[q] = "open" -> "revoked"
                         [] OTHER -> change[q]]
        BY DEF Confirm
    <2>2. \A q \in Requests \ {r} :
             change'[q] = change[q] \/ (change[q] = "open" /\ change'[q] = "revoked")
        BY <2>1
    <2>3. /\ ends'[r] = t + RevertTTL
          /\ \A q \in Requests \ {r} : ends'[q] = ends[q]
        BY <1>1 DEF TypeOK, Confirm, RevertWindow
    <2>4. /\ \A q \in Requests :
                task'[q] = task[q] \/ (task[q] = "queued" /\ task'[q] = "orphaned" /\ Owner[q] = u)
          /\ \A q \in Requests : task'[q] = "queued" => Owner[q] # u
        BY DEF Confirm, SessionsEnd, Of, Asked
    <2> QED
        BY <2>2, <2>3, <2>4
  <1>3. /\ Asked' = Asked /\ Asked \subseteq Requests
        /\ \A v \in Users : Of(v)' = Of(v)
        /\ revert[r] = "live" /\ \A q \in Asked : email[Owner[q]] # NoAccount
        /\ \A q \in Asked \ {r} : change'[q] = "completed" <=> change[q] = "completed"
        /\ \A v \in Users \ {u} : email'[v] = email[v]
        /\ email'[u] = ask[r].to /\ email'[u] # NoAccount
    <2>1. Asked' = Asked /\ Asked \subseteq Requests
        BY <1>2 DEF Asked
    <2>2. revert[r] = "live" /\ \A q \in Asked : email[Owner[q]] # NoAccount
        BY <1>1, <2>1 DEF Sound, Links, LinksOK
    <2> QED
        BY <1>1, <1>2, <2>1, <2>2, AccountAssumption DEF AccountAssumption, TypeOK, Of
  <1>4. /\ t \in Nat /\ t <= now /\ now - t <= MaxLag /\ now \in Nat
        /\ \A q \in Requests : ends[q] \in Nat
      BY DEF Clock, TypeOK
  <1>5. LinksOK'
      BY <1>1, <1>2, <1>3, AccountAssumption DEF AccountAssumption, Sound, Links, LinksOK
  <1>6. Ordered' /\ QueuedHome' /\ Unique'
    <2>1. Ordered'
        BY <1>1, <1>3 DEF Sound, Links, Ordered
    <2>2. QueuedHome'
        BY <1>1, <1>2, <1>3, AccountAssumption DEF AccountAssumption, Sound, Links, QueuedHome
    <2>3. Unique'
        BY <1>1, <1>3 DEF Sound, Links, Unique, TakenForAnother, HeldByAnother
    <2> QED
        BY <2>1, <2>2, <2>3
  <1>7. CompletedKept'
    <2>1. ASSUME NEW q \in Asked, change'[q] = "completed", Usable(q, now)'
          PROVE  ~HeldByAnother(ask[q].from, Owner[q])'
      <3>1. CASE q = r
          BY <1>1, <1>3, <3>1 DEF Sound, Links, Unique, HeldByAnother
      <3>2. CASE q # r
        <4>1. change[q] = "completed" /\ Usable(q, now) /\ Usable(q, t)
            BY <1>1, <1>2, <1>3, <1>4, <2>1, <3>2 DEF Usable
        <4>2. ~HeldByAnother(ask[q].from, Owner[q])
            BY <4>1 DEF Sound, Kept, CompletedKept, TakenForAnother
        <4>3. Owner[q] = u \/ ask[q].from # ask[r].to
            BY <1>1, <4>1 DEF TakenForAnother, ReservedForAnother
        <4> QED
            BY <1>1, <1>3, <4>2, <4>3 DEF HeldByAnother
      <3> QED
          BY <3>1, <3>2
    <2>2. ASSUME NEW q \in Asked, change'[q] = "completed", Usable(q, now)',
                 NEW s \in Asked, change'[s] = "completed", Usable(s, now)',
                 ask[s].from = ask[q].from
          PROVE  Owner[s] = Owner[q]
      <3>1. \A x \in Asked \ {r} :
               change'[x] = "completed" /\ Usable(x, now)'
                  => change[x] = "completed" /\ Usable(x, now)
          BY <1>1, <1>2, <1>3 DEF Usable
      <3>2. \A x \in Asked \ {r} :
               change'[x] = "completed" /\ Usable(x, now)' /\ ask[x].from = ask[r].from => Owner[x] = u
          BY <1>1, <3>1 DEF Sound, Kept, CompletedKept, TakenForAnother, HeldByAnother
      <3>3. ASSUME NEW x \in Asked \ {r}, change'[x] = "completed", Usable(x, now)',
                   NEW y \in Asked \ {r}, change'[y] = "completed", Usable(y, now)',
                   ask[x].from = ask[y].from
            PROVE  Owner[x] = Owner[y]
          BY <3>1, <3>3 DEF Sound, Kept, CompletedKept, TakenForAnother, ReservedForAnother
      <3>4. CASE q = r /\ s # r
          BY <2>2, <3>2, <3>4
      <3>5. CASE q # r /\ s = r
          BY <2>2, <3>2, <3>5
      <3>6. CASE q # r /\ s # r
          BY <2>2, <3>3, <3>6
      <3> QED
          BY <3>4, <3>5, <3>6
    <2> QED
        BY <1>1, <1>3, <2>1, <2>2 DEF CompletedKept, TakenForAnother, ReservedForAnother
  <1>8. /\ \A q, p \in Asked : p # r /\ Covers(q, p) => Covers(q, p)' /\ q # r
        /\ Uncompleted' \subseteq Uncompleted \ {r}
        /\ CanRevert' \subseteq CanRevert
      BY <1>1, <1>2, <1>3 DEF Covers, Uncompleted, CanRevert, Usable
  <1>9. Protected'
    <2>1. ASSUME NEW p \in Uncompleted'
          PROVE  (email[Owner[p]] = ask[p].from)' \/ \E q \in Asked : Covers(q, p)'
      <3>1. p \in Uncompleted /\ p \in Asked /\ p # r /\ change[p] # "completed"
          BY <1>8 DEF Uncompleted
      <3>2. CASE \E q \in Asked : Covers(q, p)
          BY <1>8, <3>1, <3>2
      <3>3. CASE email[Owner[p]] = ask[p].from /\ Owner[p] # u
          BY <1>1, <1>3, <3>1, <3>3, AccountAssumption DEF AccountAssumption
      <3>4. CASE email[Owner[p]] = ask[p].from /\ Owner[p] = u
        <4>1. ends[p] <= now + ChangeTTL
            BY <1>3, <3>1 DEF Sound, Links, LinksOK
        <4>2. ends'[p] <= ends'[r]
            BY <1>2, <1>3, <1>4, <3>1, <4>1, AccountAssumption DEF AccountAssumption
        <4>3. Covers(r, p)'
            BY <1>1, <1>3, <3>1, <3>4, <4>2 DEF Covers
        <4> QED
            BY <4>3
      <3> QED
          BY <3>1, <3>2, <3>3, <3>4 DEF Sound, Kept, Protected
    <2> QED
        BY <1>3, <2>1 DEF Protected
  <1>10. Remembered'
    <2>1. ASSUME NEW p \in Uncompleted', NEW q \in CanRevert', Owner[q] = Owner[p],
                 p \in older[q], ask[q].from # ask[p].from
          PROVE  \E s \in older[q] : Covers(s, p)'
      <3>1. p \in Uncompleted /\ p \in Asked /\ p # r /\ q \in CanRevert /\ older[q] \subseteq Asked
          BY <1>8 DEF Uncompleted, CanRevert, Sound, Links, Ordered, Asked
      <3>2. PICK s \in older[q] : Covers(s, p)
          BY <2>1, <3>1 DEF Sound, Kept, Remembered
      <3> QED
          BY <1>8, <3>1, <3>2
    <2> QED
        BY <1>1, <2>1 DEF Remembered
  <1>11. NothingOpenWhenLocked'
      BY <1>1, <1>2, <1>3 DEF Sound, NothingOpenWhenLocked, Locked, Of
  <1>12. EndedByEarlierLink'
      BY <1>1, <1>3 DEF Sound, EndedByEarlierLink, Of
  <1> QED
      BY <1>5, <1>6, <1>7, <1>9, <1>10, <1>11, <1>12 DEF Sound, Links, Kept

(* What an address is taken back from was covered by older requests; those    *)
(* a revert leaves are older than it.                                        *)
LEMMA RevertKeeps ==
  ASSUME TypeOK, Sound, NEW r \in Asked, NEW t \in Clock, Revert(r, t)
  PROVE  Sound'
  <1> DEFINE u == Owner[r]
  <1>1. /\ r \in Requests /\ u \in Users
        /\ revert[r] = "live" /\ ask[r].from \in Addresses
        /\ UNCHANGED <<ask, older, ends, now>>
        /\ email' = [email EXCEPT ![u] = IF Restores(r) THEN ask[r].from ELSE @]
        /\ Restores(r) => ~TakenForAnother(ask[r].from, u, t)
      BY AccountAssumption
      DEF AccountAssumption, TypeOK, Revert, Revertable, Usable, request, Asked
  <1>2. \A q \in Requests :
           /\ task'[q] = task[q] \/ (task[q] = "queued" /\ task'[q] = "orphaned" /\ Owner[q] = u)
           /\ task'[q] = "queued" => Owner[q] # u
           /\ change'[q] = change[q] \/ (change[q] = "open" /\ change'[q] = "revoked")
           /\ change'[q] = "open" => Owner[q] # u \/ q \notin Asked
      BY DEF Revert, SessionsEnd, RevokeOpen, Of, Asked
  <1>3. /\ revert'[r] = Used(r)
        /\ \A q \in LaterLinks(r) : revert'[q] = "ended"
        /\ \A q \in Requests \ {r} : q \notin LaterLinks(r) => revert'[q] = revert[q]
        /\ \A q \in Requests \ {r} : revertedAt'[q] = revertedAt[q]
    <2>1. revert' = [q \in Requests |->
                       CASE q = r -> Used(r)
                         [] q \in LaterLinks(r) -> "ended"
                         [] OTHER -> revert[q]]
        BY DEF Revert
    <2>2. r \notin LaterLinks(r) /\ LaterLinks(r) \subseteq Requests
        BY DEF LaterLinks, Of, Asked
    <2>3. revert'[r] = Used(r)
        BY <1>1, <2>1, <2>2
    <2>4. ASSUME NEW q \in LaterLinks(r) PROVE revert'[q] = "ended"
        BY <2>1, <2>2, <2>4
    <2>5. ASSUME NEW q \in Requests \ {r}, q \notin LaterLinks(r) PROVE revert'[q] = revert[q]
        BY <2>1, <2>5
    <2>6. \A q \in Requests \ {r} : revertedAt'[q] = revertedAt[q]
        BY DEF Revert, TypeOK
    <2> QED
        BY <2>3, <2>4, <2>5, <2>6
  <1>4. /\ Asked' = Asked /\ Asked \subseteq Requests
        /\ \A v \in Users : Of(v)' = Of(v)
        /\ \A v \in Users \ {u} : email'[v] = email[v]
        /\ email'[u] = IF Restores(r) THEN ask[r].from ELSE email[u]
        /\ email[u] # NoAccount /\ email'[u] # NoAccount
    <2>1. Asked' = Asked /\ Asked \subseteq Requests
        BY <1>2 DEF Asked
    <2>2. email[u] # NoAccount
        BY <1>1 DEF Sound, Links, LinksOK
    <2> QED
        BY <1>1, <2>1, <2>2, AccountAssumption DEF AccountAssumption, TypeOK, Of
  <1>5. email'[u] = ask[r].from
      BY <1>4 DEF Restores, IsCancel
  <1>6. \A q \in Requests :
           /\ revert'[q] = "live" => revert[q] = "live" /\ q # r /\ q \notin LaterLinks(r)
           /\ change'[q] = "completed" <=> change[q] = "completed"
    <2>1. Used(r) # "live"
        BY DEF Used
    <2> QED
        BY <1>2, <1>3, <2>1
  <1>7. \A q \in Asked : Owner[q] = u /\ revert'[q] = "live" => q \in older[r]
    <2>1. \A q \in Asked : Owner[q] = u /\ q # r /\ q \notin older[r] => r \in older[q]
        BY DEF Sound, Links, Ordered
    <2> QED
        BY <1>4, <1>6, <2>1 DEF LaterLinks, Of
  <1>8. \A q \in older[r] : q \in Asked /\ r \notin older[q] /\ q # r /\ revert'[q] = revert[q]
    <2>1. ASSUME NEW q \in older[r] PROVE q \in Asked /\ r \notin older[q] /\ q # r
        BY <1>1 DEF Sound, Links, Ordered
    <2> QED
        BY <1>3, <1>4, <2>1 DEF LaterLinks
  <1>9. LinksOK'
    <2>1. ASSUME NEW q \in Requests, task'[q] \in {"none", "queued", "orphaned"}
          PROVE  change'[q] = "none" /\ revert'[q] = "none"
      <3>1. task[q] \in {"none", "queued", "orphaned"} /\ change[q] = "none" /\ revert[q] = "none"
          BY <1>2, <2>1 DEF Sound, Links, LinksOK
      <3> QED
          BY <1>1, <1>2, <1>3, <3>1 DEF LaterLinks
    <2>2. ASSUME NEW q \in Requests, change'[q] = "open" PROVE revert'[q] = "live"
      <3>1. change[q] = "open" /\ revert[q] = "live" /\ q \in Asked
          BY <1>2, <2>2 DEF Sound, Links, LinksOK, Asked
      <3>2. Owner[q] # u
          BY <1>2, <2>2, <3>1
      <3> QED
          BY <1>3, <3>1, <3>2 DEF LaterLinks, Of
    <2>3. \A q \in Asked : email'[Owner[q]] # NoAccount
        BY <1>4, AccountAssumption DEF AccountAssumption, Sound, Links, LinksOK
    <2>4. \A q \in Asked : change'[q] # "completed" => ends'[q] <= now' + ChangeTTL
        BY <1>1, <1>4, <1>6 DEF Sound, Links, LinksOK
    <2> QED
        BY <1>4, <2>1, <2>2, <2>3, <2>4 DEF LinksOK
  <1>10. Ordered' /\ QueuedHome' /\ Unique'
    <2>1. Ordered'
        BY <1>1, <1>4 DEF Sound, Links, Ordered
    <2>2. QueuedHome'
        BY <1>1, <1>2, <1>4, AccountAssumption DEF AccountAssumption, Sound, Links, QueuedHome
    <2>3. Unique'
        BY <1>1, <1>4 DEF Sound, Links, Unique, TakenForAnother, HeldByAnother
    <2> QED
        BY <2>1, <2>2, <2>3
  <1>11. CompletedKept'
    <2>1. ASSUME NEW q \in Asked, change'[q] = "completed", Usable(q, now)'
          PROVE  ~TakenForAnother(ask[q].from, Owner[q], now)'
      <3>1. change[q] = "completed" /\ Usable(q, now) /\ Usable(q, t)
          BY <1>1, <1>4, <1>6, <2>1 DEF Usable, Clock, TypeOK
      <3>2. ~HeldByAnother(ask[q].from, Owner[q]) /\ ~ReservedForAnother(ask[q].from, Owner[q], now)
          BY <3>1 DEF Sound, Kept, CompletedKept, TakenForAnother
      <3>3. ~ReservedForAnother(ask[q].from, Owner[q], now)'
          BY <1>1, <1>4, <1>6, <3>2 DEF ReservedForAnother, Usable
      <3>4. Restores(r) => Owner[q] = u \/ ask[q].from # ask[r].from
          BY <1>1, <3>1 DEF TakenForAnother, ReservedForAnother
      <3>5. ~HeldByAnother(ask[q].from, Owner[q])'
          BY <1>1, <1>4, <3>2, <3>4 DEF HeldByAnother
      <3> QED
          BY <1>1, <3>3, <3>5 DEF TakenForAnother
    <2> QED
        BY <1>1, <1>4, <2>1 DEF CompletedKept
  <1>12. /\ \A q, p \in Asked :
              Covers(q, p) /\ (Owner[p] # u \/ q \in older[r]) => Covers(q, p)'
         /\ Uncompleted' \subseteq Uncompleted
         /\ \A p \in Uncompleted' : Owner[p] = u => p \in older[r]
         /\ CanRevert' \subseteq CanRevert
         /\ \A q \in CanRevert' : Owner[q] = u => q \in older[r]
         /\ r \in CanRevert
    <2>1. ASSUME NEW q \in Asked, NEW p \in Asked, Covers(q, p), Owner[p] # u \/ q \in older[r]
          PROVE  Covers(q, p)'
      <3>1. revert'[q] = "live"
          BY <1>3, <1>4, <1>8, <2>1 DEF Covers, LaterLinks, Of
      <3> QED
          BY <1>1, <1>4, <1>6, <2>1, <3>1 DEF Covers
    <2>2. /\ Uncompleted' \subseteq Uncompleted
          /\ \A p \in Uncompleted' : Owner[p] = u => p \in older[r]
        BY <1>1, <1>4, <1>6, <1>7 DEF Uncompleted, Usable
    <2>3. /\ CanRevert' \subseteq CanRevert
          /\ \A q \in CanRevert' : Owner[q] = u => q \in older[r]
          /\ r \in CanRevert
        BY <1>1, <1>2, <1>4, <1>6, <1>7 DEF CanRevert
    <2> QED
        BY <2>1, <2>2, <2>3
  <1>13. Protected'
    <2>1. ASSUME NEW p \in Uncompleted'
          PROVE  (email[Owner[p]] = ask[p].from)' \/ \E q \in Asked : Covers(q, p)'
      <3>1. p \in Uncompleted /\ p \in Asked
          BY <1>12 DEF Uncompleted
      <3>2. CASE Owner[p] # u
          BY <1>1, <1>4, <1>12, <3>1, <3>2, AccountAssumption
          DEF AccountAssumption, Sound, Kept, Protected
      <3>3. CASE Owner[p] = u /\ ask[p].from = ask[r].from
          BY <1>1, <1>5, <3>3
      <3>4. CASE Owner[p] = u /\ ask[p].from # ask[r].from
        <4>1. PICK q \in older[r] : Covers(q, p)
            BY <1>12, <3>1, <3>4 DEF Sound, Kept, Remembered
        <4> QED
            BY <1>8, <1>12, <3>1, <4>1
      <3> QED
          BY <3>2, <3>3, <3>4
    <2> QED
        BY <1>4, <2>1 DEF Protected
  <1>14. Remembered'
    <2>1. ASSUME NEW p \in Uncompleted', NEW q \in CanRevert', Owner[q] = Owner[p],
                 p \in older[q], ask[q].from # ask[p].from
          PROVE  \E s \in older[q] : Covers(s, p)'
      <3>1. p \in Uncompleted /\ p \in Asked /\ q \in CanRevert /\ q \in Asked /\ older[q] \subseteq Asked
          BY <1>12 DEF Uncompleted, CanRevert, Sound, Links, Ordered, Asked
      <3>2. PICK s \in older[q] : Covers(s, p)
          BY <2>1, <3>1 DEF Sound, Kept, Remembered
      <3>3. Owner[p] = u => s \in older[r]
          BY <1>12, <2>1, <3>1, <3>2 DEF Sound, Links, Ordered
      <3> QED
          BY <1>12, <3>1, <3>2, <3>3
    <2> QED
        BY <1>1, <1>12, <2>1 DEF Remembered
  <1>15. NothingOpenWhenLocked'
    <2>1. ASSUME NEW v \in Users, Locked(v, now)', NEW q \in Of(v) PROVE change'[q] # "open"
      <3>1. CASE v = u
          BY <1>2, <3>1 DEF Of, Asked
      <3>2. CASE v # u
        <4>1. \A x \in Of(v) : x # r /\ revert'[x] = revert[x] /\ revertedAt'[x] = revertedAt[x]
            BY <1>3, <3>2 DEF Of, Asked, LaterLinks
        <4>2. Locked(v, now)
            BY <1>1, <1>4, <2>1, <4>1 DEF Locked
        <4> QED
            BY <1>2, <4>2 DEF Sound, NothingOpenWhenLocked, Of, Asked
      <3> QED
          BY <3>1, <3>2
    <2> QED
        BY <1>1, <1>4, <2>1 DEF NothingOpenWhenLocked
  <1>16. EndedByEarlierLink'
    <2>1. ASSUME NEW q \in Asked, change'[q] = "completed", revert'[q] = "ended"
          PROVE  \E s \in Of(Owner[q]) : s \in older[q] /\ revert'[s] \in {"reverted", "ended"}
      <3>1. change[q] = "completed" /\ q # r
        <4>1. q \in Requests /\ change[q] = "completed"
            BY <1>4, <1>6, <2>1
        <4>2. change[r] = "completed" => Used(r) = "reverted"
            BY DEF Used, IsCancel
        <4> QED
            BY <1>3, <2>1, <4>1, <4>2
      <3>2. CASE q \in LaterLinks(r)
          BY <1>3, <3>2 DEF LaterLinks, Of, Used
      <3>3. CASE q \notin LaterLinks(r)
        <4>1. PICK s \in Of(Owner[q]) : s \in older[q] /\ revert[s] \in {"reverted", "ended"}
            BY <1>3, <1>4, <2>1, <3>1, <3>3 DEF Sound, EndedByEarlierLink
        <4>2. s # r /\ s \notin LaterLinks(r) /\ s \in Requests
            BY <1>1, <4>1 DEF LaterLinks, Of, Asked
        <4> QED
            BY <1>3, <4>1, <4>2
      <3> QED
          BY <3>2, <3>3
    <2> QED
        BY <1>1, <1>4, <2>1, AccountAssumption DEF AccountAssumption, EndedByEarlierLink
  <1> QED
      BY <1>9, <1>10, <1>11, <1>13, <1>14, <1>15, <1>16 DEF Sound, Links, Kept

(* A new account takes an address that nobody has and nobody keeps.          *)
LEMMA CreateAccountKeeps ==
  ASSUME TypeOK, Sound, NEW u \in Users, NEW a \in Addresses, NEW t \in Clock, CreateAccount(u, a, t)
  PROVE  Sound'
  <1>1. /\ email[u] = NoAccount /\ email' = [email EXCEPT ![u] = a] /\ a # NoAccount
        /\ ~TakenForAnother(a, u, t)
        /\ UNCHANGED <<task, ask, older, change, revert, ends, revertedAt, now>>
      BY AccountAssumption DEF AccountAssumption, CreateAccount, request, row
  <1>2. /\ Asked' = Asked /\ Asked \subseteq Requests /\ \A v \in Users : Of(v)' = Of(v)
        /\ Uncompleted' = Uncompleted /\ CanRevert' = CanRevert
        /\ \A q, p \in Asked : Covers(q, p)' <=> Covers(q, p)
      BY <1>1 DEF Asked, Of, Uncompleted, Usable, CanRevert, Covers
  <1>3. /\ email'[u] = a /\ \A v \in Users \ {u} : email'[v] = email[v]
        /\ \A q \in Asked : Owner[q] # u /\ Owner[q] \in Users
      BY <1>1, <1>2, AccountAssumption DEF AccountAssumption, TypeOK, Sound, Links, LinksOK
  <1>4. Links'
    <2>1. LinksOK' /\ Ordered'
        BY <1>1, <1>2, <1>3 DEF Sound, Links, LinksOK, Ordered
    <2>2. QueuedHome'
        BY <1>1, <1>2, <1>3 DEF Sound, Links, QueuedHome, Asked
    <2>3. Unique'
        BY <1>1, <1>3 DEF Sound, Links, Unique, TakenForAnother, HeldByAnother
    <2> QED
        BY <2>1, <2>2, <2>3 DEF Links
  <1>5. CompletedKept'
    <2>1. ASSUME NEW q \in Asked, change[q] = "completed", Usable(q, now)
          PROVE  ~TakenForAnother(ask[q].from, Owner[q], now)'
      <3>1. Usable(q, t) /\ ask[q].from # a
          BY <1>1, <1>3, <2>1 DEF Usable, Clock, TypeOK, Asked, TakenForAnother, ReservedForAnother
      <3>2. ~TakenForAnother(ask[q].from, Owner[q], now)
          BY <2>1 DEF Sound, Kept, CompletedKept
      <3> QED
          BY <1>1, <1>2, <1>3, <3>1, <3>2 DEF TakenForAnother, HeldByAnother, ReservedForAnother, Usable
    <2> QED
        BY <1>1, <1>2, <2>1 DEF CompletedKept, Usable
  <1>6. Protected' /\ Remembered'
      BY <1>1, <1>2, <1>3
      DEF Sound, Kept, Protected, Remembered, Uncompleted, CanRevert, Links, Ordered, Asked
  <1>7. NothingOpenWhenLocked' /\ EndedByEarlierLink'
    <2>1. NothingOpenWhenLocked'
        BY <1>1, <1>2 DEF Sound, NothingOpenWhenLocked, Locked
    <2>2. EndedByEarlierLink'
        BY <1>1, <1>2, <1>3 DEF Sound, EndedByEarlierLink
    <2> QED
        BY <2>1, <2>2
  <1> QED
      BY <1>4, <1>5, <1>6, <1>7 DEF Sound, Kept

(* Time only ends links and locks.                                           *)
LEMMA TickKeeps ==
  ASSUME TypeOK, Sound, Tick
  PROVE  Sound'
  <1>1. /\ now' = now + 1 /\ now \in Nat
        /\ \A q \in Requests : ends[q] \in Nat /\ revertedAt[q] \in Nat
        /\ UNCHANGED <<email, task, ask, older, change, revert, ends, revertedAt>>
      BY DEF TypeOK, Tick, account, request, row
  <1>2. /\ Asked' = Asked /\ Asked \subseteq Requests /\ \A v \in Users : Of(v)' = Of(v)
        /\ Uncompleted' \subseteq Uncompleted /\ CanRevert' = CanRevert
        /\ \A q, p \in Asked : Covers(q, p)' <=> Covers(q, p)
        /\ \A q \in Asked : Usable(q, now)' => Usable(q, now)
      BY <1>1 DEF Asked, Of, Uncompleted, Usable, CanRevert, Covers
  <1>3. Links'
    <2>1. LinksOK'
        BY <1>1, <1>2, AccountAssumption DEF AccountAssumption, Sound, Links, LinksOK
    <2>2. Ordered' /\ QueuedHome' /\ Unique'
        BY <1>1, <1>2, AccountAssumption
        DEF AccountAssumption, Sound, Links, Ordered, QueuedHome, Unique
    <2> QED
        BY <2>1, <2>2 DEF Links
  <1>4. CompletedKept'
      BY <1>1, <1>2
      DEF Sound, Kept, CompletedKept, TakenForAnother, HeldByAnother, ReservedForAnother
  <1>5. Protected' /\ Remembered'
      BY <1>1, <1>2
      DEF Sound, Kept, Protected, Remembered, Uncompleted, CanRevert, Links, Ordered, Asked
  <1>6. NothingOpenWhenLocked'
    <2>1. \A v \in Users : Locked(v, now)' => Locked(v, now)
        BY <1>1, <1>2, AccountAssumption DEF AccountAssumption, Locked, Of
    <2> QED
        BY <1>1, <1>2, <2>1 DEF Sound, NothingOpenWhenLocked
  <1>7. EndedByEarlierLink'
      BY <1>1, <1>2, AccountAssumption DEF AccountAssumption, Sound, EndedByEarlierLink
  <1> QED
      BY <1>3, <1>4, <1>5, <1>6, <1>7 DEF Sound, Kept

-----------------------------------------------------------------------------
(* Every step keeps the invariant.                                           *)
LEMMA InvStep == Inv /\ [Next]_vars => Inv'
  <1> SUFFICES ASSUME Inv, [Next]_vars PROVE Inv'
      OBVIOUS
  <1>1. TypeOK /\ TypeOK' /\ Sound
      BY TypingStep DEF Inv, Sound
  <1>2. ASSUME NEW r \in Requests, NEW a \in Addresses, Request(r, a) PROVE Sound'
      BY <1>1, <1>2, RequestKeeps
  <1>3. ASSUME NEW r \in Asked, Store(r) PROVE Sound'
      BY <1>1, <1>3, StoreKeeps
  <1>4. ASSUME NEW r \in Asked, Suppressed(r) PROVE Sound'
      BY <1>1, <1>4, SuppressedKeeps
  <1>5. ASSUME NEW r \in Asked, NEW t \in Clock, Confirm(r, t) PROVE Sound'
      BY <1>1, <1>5, ConfirmKeeps
  <1>6. ASSUME NEW r \in Asked, NEW t \in Clock, Revert(r, t) PROVE Sound'
      BY <1>1, <1>6, RevertKeeps
  <1>7. ASSUME NEW u \in Users, NEW a \in Addresses, NEW t \in Clock, CreateAccount(u, a, t)
        PROVE  Sound'
      BY <1>1, <1>7, CreateAccountKeeps
  <1>8. ASSUME Tick PROVE Sound'
      BY <1>1, <1>8, TickKeeps
  <1>9. ASSUME NEW r \in Asked,
               \/ VerificationArrives(r) \/ VerificationSent(r) \/ VerificationFails(r)
               \/ NoticeArrives(r) \/ TaskEnds(r) \/ SignOut(r)
        PROVE  Sound'
      BY <1>1, <1>9, QuietActions, QuietKeeps
  <1>10. ASSUME NEW r \in Asked, NEW t \in Clock, ConfirmTaken(r, t) \/ RevertConflict(r, t)
         PROVE  Sound'
      BY <1>1, <1>10, QuietActions, QuietKeeps
  <1>11. ASSUME NEW u \in Users, NewPassword(u) \/ ReleaseHold(u) PROVE Sound'
      BY <1>1, <1>11, QuietActions, QuietKeeps
  <1>12. ASSUME UNCHANGED vars PROVE Sound'
      BY <1>1, <1>12, QuietActions, QuietKeeps
  <1>13. ASSUME Next PROVE Sound'
      BY <1>2, <1>3, <1>4, <1>5, <1>6, <1>7, <1>8, <1>9, <1>10, <1>11, <1>13 DEF Next
  <1> QED
      BY <1>1, <1>12, <1>13 DEF Inv, Sound

(* The invariant holds throughout.                                           *)
LEMMA InvHolds == Spec => []Inv
  <1> QED
      BY InvInit, InvStep, PTL DEF Spec

(* Every variable of AccountEmail keeps its type.                            *)
THEOREM Typing == Spec => []TypeOK
  <1>1. Inv => TypeOK
      BY DEF Inv
  <1> QED
      BY <1>1, InvHolds, PTL

(* Whatever chain of changes and reverts came before, nobody else has or     *)
(* keeps the address that a live revert link restores: a completed change    *)
(* keeps its own, and one that never completed is where its account is or    *)
(* under a completed change of the account (account-email-change.ts:526,     *)
(* login-email-reservation.ts:6-9).                                          *)
THEOREM RevertIsFree == Spec => []RevertNeverBlocked
  <1>1. Inv => RevertNeverBlocked
    <2> SUFFICES ASSUME Inv, NEW r \in Asked, Usable(r, now)
                 PROVE  ~TakenForAnother(ask[r].from, Owner[r], now)
        BY DEF RevertNeverBlocked
    <2>1. CASE change[r] = "completed"
        BY <2>1 DEF Inv, Sound, Kept, CompletedKept
    <2>2. CASE change[r] # "completed" /\ email[Owner[r]] = ask[r].from
      <3>1. Owner[r] \in Users /\ ask[r].from # NoAccount
          BY AccountAssumption DEF AccountAssumption, Inv, TypeOK, Asked
      <3>2. ~HeldByAnother(ask[r].from, Owner[r])
          BY <2>2, <3>1 DEF Inv, Sound, Links, Unique, HeldByAnother
      <3>3. ASSUME NEW q \in Asked, change[q] = "completed", Usable(q, now),
                   ask[q].from = ask[r].from
            PROVE  Owner[q] = Owner[r]
          BY <2>2, <3>1, <3>3 DEF Inv, Sound, Kept, CompletedKept, TakenForAnother, HeldByAnother
      <3> QED
          BY <3>2, <3>3 DEF TakenForAnother, ReservedForAnother
    <2>3. CASE change[r] # "completed" /\ email[Owner[r]] # ask[r].from
      <3>1. PICK q \in Asked : Covers(q, r)
          BY <2>3 DEF Inv, Sound, Kept, Protected, Uncompleted
      <3>2. change[q] = "completed" /\ Usable(q, now)
          BY <3>1 DEF Covers, Usable, Inv, TypeOK, Asked
      <3> QED
          BY <3>1, <3>2 DEF Covers, Inv, Sound, Kept, CompletedKept
    <2> QED
        BY <2>1, <2>2, <2>3
  <1> QED
      BY <1>1, InvHolds, PTL

(* The revert link of a completed change ends early only by its own use or   *)
(* by the use of an earlier one (account-email-change.ts:506-512).           *)
THEOREM EarlierLinksRemain == Spec => []EndedByEarlierLink
  <1>1. Inv => EndedByEarlierLink
      BY DEF Inv, Sound
  <1> QED
      BY <1>1, InvHolds, PTL

(* A locked account is moved only by an earlier revert link: nothing of it   *)
(* is left open to confirm, and nothing is stored while it is locked         *)
(* (account-email-change.ts:66-69, 515-521).                                 *)
THEOREM Lockdown == Spec => LockdownHolds
  <1>1. ASSUME Inv, Next, NEW u \in Users, Locked(u, now), email'[u] # email[u]
        PROVE  \E r \in Of(u) : revert[r] = "live" /\ revert'[r] = "reverted"
                                /\ email'[u] = ask[r].from
    <2> USE DEF Inv, Sound, TypeOK
    <2>1. ASSUME NEW r \in Asked, NEW t \in Clock, Confirm(r, t) PROVE FALSE
      <3>1. Owner[r] = u /\ change[r] = "open"
          BY <1>1, <2>1 DEF Confirm, Confirmable
      <3> QED
          BY <1>1, <3>1 DEF NothingOpenWhenLocked, Of
    <2>2. ASSUME NEW v \in Users, NEW a \in Addresses, NEW t \in Clock, CreateAccount(v, a, t)
          PROVE  FALSE
      <3>1. v = u /\ email[u] = NoAccount
          BY <1>1, <2>2 DEF CreateAccount
      <3>2. email[u] # NoAccount
          BY <1>1 DEF Locked, Of, Asked, Links, LinksOK
      <3> QED
          BY <3>1, <3>2
    <2>3. ASSUME NEW r \in Asked, NEW t \in Clock, Revert(r, t)
          PROVE  \E q \in Of(u) : revert[q] = "live" /\ revert'[q] = "reverted"
                                  /\ email'[u] = ask[q].from
      <3>1. Restores(r) /\ Owner[r] = u /\ email'[u] = ask[r].from
          BY <1>1, <2>3 DEF Revert
      <3>2. revert[r] = "live" /\ revert'[r] = "reverted"
        <4>1. revert' = [q \in Requests |->
                           CASE q = r -> Used(r)
                             [] q \in LaterLinks(r) -> "ended"
                             [] OTHER -> revert[q]]
            BY <2>3 DEF Revert
        <4>2. ~IsCancel(r) /\ r \in Requests /\ r \notin LaterLinks(r)
            BY <3>1 DEF Restores, Asked, LaterLinks
        <4>3. revert[r] = "live"
            BY <2>3 DEF Revert, Revertable, Usable
        <4> QED
            BY <4>1, <4>2, <4>3 DEF Used
      <3> QED
          BY <3>1, <3>2 DEF Of
    <2>4. CASE email' = email
        BY <1>1, <2>4
    <2> QED
        BY <1>1, <2>1, <2>2, <2>3, <2>4
        DEF Next, Request, Store, VerificationArrives, VerificationSent, VerificationFails,
            NoticeArrives, Suppressed, TaskEnds, ConfirmTaken, RevertConflict, NewPassword,
            SignOut, ReleaseHold, Tick, account
  <1>2. Inv /\ [Next]_vars =>
          [\A u \in Users :
              Locked(u, now) /\ email'[u] # email[u]
                 => \E r \in Of(u) : revert[r] = "live" /\ revert'[r] = "reverted"
                                     /\ email'[u] = ask[r].from]_vars
      BY <1>1
  <1> QED
      BY <1>2, InvHolds, PTL DEF Spec, LockdownHolds
=============================================================================
