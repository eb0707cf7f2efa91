---------------------------- MODULE EmailOutboxProofs ----------------------------
(***************************************************************************)
(* Proofs about EmailOutbox, for any mails, any number of workers, attempts, *)
(* edits and retries, and any sources that may be current together.          *)
(***************************************************************************)
EXTENDS EmailOutbox, TLAPS

(* What a worker knows at each step of its way.                              *)
Worker(d) ==
    LET m == desk[d].mail IN
    /\ desk[d].at = "read" => m \in Mails /\ status[m] \in Rows!Unsent
    /\ Holding(d) =>
          /\ m \in Mails
          /\ status[m] = "sending"
          /\ Stopped(m) \/ d \in asked
          /\ m \in current => d \in timely
    /\ desk[d].at \in {"allowed", "sound"} => d \in asked
    /\ desk[d].at = "sound" => d \in timely
    /\ desk[d].at = "decided" =>
          /\ desk[d].verdict # "none"
          /\ desk[d].verdict = "sent" => m \in accepted
          /\ desk[d].verdict \notin {"suppressed", "superseded"} => d \in asked \cap timely

WorkersOK == \A d \in Dispatchers : Worker(d)

Alone ==
    \A d, e \in Dispatchers :
        Holding(d) /\ Holding(e) /\ desk[d].mail = desk[e].mail => d = e

RefusedStay == \A m \in refused : status[m] = "exhausted"

Safe == WorkersOK /\ Alone /\ SentWasAccepted /\ RefusedStay
Inv == TypeOK /\ Safe

(* Nobody has read a row nobody wrote.                                       *)
LEMMA NobodyLost == TypeOK => desk = Losers({})
  BY DEF TypeOK, Losers

(* Losing a claim keeps a desk a desk.                                       *)
LEMMA LosersType ==
  ASSUME TypeOK, NEW ms
  PROVE  Losers(ms) \in [Dispatchers -> Desks]
  BY DEF TypeOK, Losers, Desks, Idle, Places, Verdicts

(* Writes of a status keep the type of the column.                           *)
LEMMA WriteType ==
  ASSUME TypeOK, NEW ms, NEW new \in Rows!Statuses, Write(ms, new)
  PROVE  status' \in [Mails -> Rows!Statuses]
  BY DEF TypeOK, Write

(* A worker that is not moved, or that loses its claim, still knows what it  *)
(* knew, if the row of a holder stays as it is.                              *)
LEMMA WorkerStays ==
  ASSUME NEW e \in Dispatchers, Worker(e),
         desk'[e] = desk[e] \/ desk'[e] = Idle,
         desk'[e].at = "read" => status'[desk[e].mail] \in Rows!Unsent,
         Holding(e) => status'[desk[e].mail] = "sending",
         e \in asked => e \in asked',
         e \in timely => e \in timely',
         accepted \subseteq accepted',
         unsubscribed \subseteq unsubscribed',
         Holding(e) /\ desk[e].mail \in current' => e \in timely'
  PROVE  Worker(e)'
  <1>1. CASE desk'[e] = Idle
      BY <1>1 DEF Worker, Holding, Idle
  <1>2. CASE desk'[e] = desk[e]
      BY <1>2 DEF Worker, Holding, Stopped, Rows!Unsent
  <1> QED
      BY <1>1, <1>2

(* A writer of rows moves no worker but those whose claim it invalidates.    *)
LEMMA WriterKeeps ==
  ASSUME Inv, NEW ms,
         desk' = Losers(ms),
         \A m \in Mails : status[m] \in Rows!Unsent /\ m \notin ms => status'[m] \in Rows!Unsent,
         \A d \in Dispatchers : Holding(d) => status'[desk[d].mail] = "sending",
         \A m \in Mails : status'[m] = "sent" => status[m] = "sent",
         \A m \in refused : status'[m] = "exhausted",
         asked' = asked, accepted' = accepted, refused' = refused,
         timely \subseteq timely', unsubscribed \subseteq unsubscribed',
         \A d \in Dispatchers : Holding(d) /\ desk[d].mail \in current' => d \in timely'
  PROVE  Safe'
  <1>1. \A d \in Dispatchers :
           /\ desk'[d] = desk[d] \/ desk'[d] = Idle
           /\ desk'[d].at = "read" => desk[d].at = "read" /\ desk[d].mail \notin ms
      BY DEF Losers, Idle
  <1>2. ASSUME NEW d \in Dispatchers PROVE Worker(d)'
    <2>1. Worker(d)
        BY DEF Inv, Safe, WorkersOK
    <2>2. desk'[d].at = "read" => status'[desk[d].mail] \in Rows!Unsent
        BY <1>1, <2>1 DEF Worker
    <2> QED
        BY <1>1, <2>1, <2>2, WorkerStays
  <1>3. Alone'
      BY <1>1 DEF Inv, Safe, Alone, Holding, Idle
  <1>4. SentWasAccepted' /\ RefusedStay'
      BY DEF Inv, Safe, SentWasAccepted, RefusedStay
  <1> QED
      BY <1>2, <1>3, <1>4 DEF Safe, WorkersOK

(* A holder's row is being sent, so no write of waiting rows touches it.     *)
LEMMA HolderSends ==
  ASSUME Inv, NEW d \in Dispatchers, Holding(d)
  PROVE  desk[d].mail \in Mails /\ status[desk[d].mail] = "sending"
  BY DEF Inv, Safe, WorkersOK, Worker
(* The first row of a mail is queued or suppressed.                          *)
LEMMA FirstStatus ==
  ASSUME NEW s
  PROVE  Rows!First(s) \in {"queued", "suppressed"}
  BY DEF Rows!First

(* A mail that is written for the first time.                                *)
LEMMA CreateKeeps == ASSUME Inv, NEW m \in Mails, Create(m) PROVE Inv'
  <1> USE DEF Rows!Unsent, Rows!Pending, Rows!Outcomes, Rows!Statuses
  <1>1. PICK s : Rows!Create(m, s)
      BY DEF Create
  <1>2. status[m] = "none" /\ Rows!First(s) \in {"queued", "suppressed"}
      BY <1>1, FirstStatus DEF Rows!Create
  <1>3. status' = [o \in Mails |-> IF o = m THEN Rows!First(s) ELSE status[o]]
      BY <1>1 DEF Rows!Create, Rows!Write
  <1>4. TypeOK'
    <2>1. status' \in [Mails -> Rows!Statuses]
        BY <1>2, <1>3 DEF Inv, TypeOK
    <2> QED
        BY <2>1 DEF Inv, TypeOK, Create, world, history, counts, Desks, Recipients
  <1>5. Safe'
    <2>1. desk' = Losers({})
        BY NobodyLost DEF Inv, Create
    <2>2. \A o \in Mails : o # m => status'[o] = status[o]
        BY <1>3
    <2>3. \A o \in Mails : status[o] # "none" => status'[o] = status[o]
        BY <1>2, <2>2
    <2>4. status'[m] # "sent"
        BY <1>2, <1>3
    <2>5. \A o \in refused : status'[o] = "exhausted"
        BY <2>3 DEF Inv, TypeOK, Safe, RefusedStay
    <2>6. \A d \in Dispatchers :
             /\ Holding(d) => status'[desk[d].mail] = "sending"
             /\ Holding(d) /\ desk[d].mail \in current' => d \in timely'
        BY <2>3, HolderSends DEF Inv, Safe, WorkersOK, Worker, Create, world, history
    <2> QED
        BY <2>1, <2>2, <2>3, <2>4, <2>5, <2>6, WriterKeeps DEF Create, world, history
  <1> QED
      BY <1>4, <1>5 DEF Inv

(* A reminder that takes the place of its older siblings.                    *)
LEMMA EnsureKeeps == ASSUME Inv, NEW m \in Mails, EnsureReminder(m) PROVE Inv'
  <1> USE OutboxAssumption
      DEF Rows!Unsent, Rows!Pending, Rows!Outcomes, Rows!Statuses, OutboxAssumption
  <1> DEFINE older == Rows!Waiting(Rows!Siblings(m))
  <1>1. PICK s : Rows!EnsureReminder(m, s)
      BY DEF EnsureReminder
  <1> DEFINE new == IF Rows!Opened(m) THEN Rows!First(s) ELSE status[m]
  <1>2. status' = [o \in Mails |-> CASE o = m -> new
                                     [] o \in older -> "superseded"
                                     [] OTHER -> status[o]]
      BY <1>1 DEF Rows!EnsureReminder, Rows!Replace
  <1>3. /\ Rows!Opened(m) => status[m] \in {"none", "superseded"}
                             /\ new \in {"queued", "suppressed"}
        /\ ~Rows!Opened(m) => new = status[m]
      BY FirstStatus DEF Rows!Opened
  <1>4. older \subseteq Rows!Siblings(m) /\ m \notin older
        /\ \A o \in older : status[o] \in Rows!Unsent
      BY DEF Rows!Waiting, Rows!Siblings
  <1>5. new \in Rows!Statuses
      BY <1>3 DEF Inv, TypeOK
  <1> HIDE DEF new, older
  <1>6. TypeOK'
    <2>1. status' \in [Mails -> Rows!Statuses]
        BY <1>2, <1>5 DEF Inv, TypeOK
    <2>2. desk' \in [Dispatchers -> Desks]
        BY LosersType DEF Inv, EnsureReminder
    <2>3. restores' \in 0..MaxRestores
        BY DEF Inv, TypeOK, EnsureReminder
    <2> QED
        BY <2>1, <2>2, <2>3 DEF Inv, TypeOK, EnsureReminder, world, history, Recipients
  <1>7. Safe'
    <2>1. desk' = Losers(Rows!Siblings(m))
        BY DEF EnsureReminder
    <2>2. \A o \in Mails :
             /\ status[o] \in Rows!Unsent /\ o \notin Rows!Siblings(m)
                   => status'[o] \in Rows!Unsent
             /\ status'[o] = "sent" => status[o] = "sent"
             /\ status[o] \in {"sending", "exhausted"} => status'[o] = status[o]
        BY <1>2, <1>3, <1>4
    <2>3. \A o \in refused : status'[o] = "exhausted"
        BY <2>2 DEF Inv, TypeOK, Safe, RefusedStay
    <2>4. \A d \in Dispatchers :
             /\ Holding(d) => status'[desk[d].mail] = "sending"
             /\ Holding(d) /\ desk[d].mail \in current' => d \in timely'
        BY <2>2, HolderSends DEF Inv, Safe, WorkersOK, Worker, EnsureReminder, world, history
    <2> QED
        BY <2>1, <2>2, <2>3, <2>4, WriterKeeps DEF EnsureReminder, world, history
  <1> QED
      BY <1>6, <1>7 DEF Inv

(* Waiting rows that get a status, and the readers of which lose.            *)
LEMMA StopKeeps ==
  ASSUME Inv, NEW ms \in SUBSET Mails, NEW lost, NEW new \in {"superseded", "suppressed"},
         ms \subseteq lost,
         \A m \in ms : status[m] \in Rows!Unsent,
         Write(ms, new), desk' = Losers(lost),
         asked' = asked, accepted' = accepted, refused' = refused,
         timely \subseteq timely', unsubscribed \subseteq unsubscribed',
         \A d \in Dispatchers : Holding(d) /\ desk[d].mail \in current' => d \in timely'
  PROVE  Safe'
  <1> USE DEF Rows!Unsent
  <1>1. \A m \in Mails :
           /\ m \notin ms => status'[m] = status[m]
           /\ status'[m] = "sent" => status[m] = "sent"
           /\ status[m] \in {"sending", "exhausted"} => status'[m] = status[m]
      BY DEF Write
  <1>2. \A m \in refused : status'[m] = "exhausted"
      BY <1>1 DEF Inv, TypeOK, Safe, RefusedStay
  <1>3. \A d \in Dispatchers : Holding(d) => status'[desk[d].mail] = "sending"
      BY <1>1, HolderSends
  <1> QED
      BY <1>1, <1>2, <1>3, WriterKeeps
(* A live gets no reminders any more.                                        *)
LEMMA CancelKeeps == ASSUME Inv, CancelReminders PROVE Inv'
  <1> USE OutboxAssumption DEF OutboxAssumption
  <1> DEFINE ms == Rows!Waiting(Reminders)
  <1>1. ms \in SUBSET Mails /\ ms \subseteq Reminders /\ \A m \in ms : status[m] \in Rows!Unsent
      BY DEF Rows!Waiting
  <1>2. Write(ms, "superseded") /\ desk' = Losers(Reminders)
      BY DEF CancelReminders
  <1> HIDE DEF ms
  <1>3. TypeOK'
    <2>1. "superseded" \in Rows!Statuses
        BY DEF Rows!Statuses, Rows!Outcomes
    <2>2. status' \in [Mails -> Rows!Statuses] /\ desk' \in [Dispatchers -> Desks]
        BY <1>2, <2>1, WriteType, LosersType DEF Inv
    <2> QED
        BY <2>2 DEF Inv, TypeOK, CancelReminders, world, history, counts, Recipients
  <1>4. \A d \in Dispatchers : Holding(d) /\ desk[d].mail \in current' => d \in timely'
      BY DEF Inv, Safe, WorkersOK, Worker, CancelReminders, world, history
  <1> QED
      BY <1>1, <1>2, <1>3, <1>4, StopKeeps DEF Inv, CancelReminders, world, history

(* What the mails are about changes.                                         *)
LEMMA SourceKeeps ==
  ASSUME Inv, NEW now \in Sources, NEW cancelled \in {{}, Rows!Waiting(Reminders)},
         SourceChanges(now, cancelled)
  PROVE  Inv'
  <1> USE OutboxAssumption DEF OutboxAssumption
  <1>1. /\ cancelled \in SUBSET Mails
        /\ \A m \in cancelled : status[m] \in Rows!Unsent
      BY DEF Rows!Waiting
  <1>2. Write(cancelled, "superseded") /\ desk' = Losers(cancelled)
      BY DEF SourceChanges
  <1>3. TypeOK'
    <2>1. "superseded" \in Rows!Statuses
        BY DEF Rows!Statuses, Rows!Outcomes
    <2>2. status' \in [Mails -> Rows!Statuses] /\ desk' \in [Dispatchers -> Desks]
        BY <1>2, <2>1, WriteType, LosersType DEF Inv
    <2>3. edits' \in 0..MaxEdits /\ timely' \subseteq Dispatchers
        BY DEF Inv, TypeOK, SourceChanges
    <2> QED
        BY <2>2, <2>3 DEF Inv, TypeOK, SourceChanges, counts, Recipients
  <1>4. timely \subseteq timely'
        /\ \A d \in Dispatchers : Holding(d) /\ desk[d].mail \in current' => d \in timely'
      BY DEF SourceChanges
  <1> QED
      BY <1>1, <1>2, <1>3, <1>4, StopKeeps DEF Inv, SourceChanges

(* A recipient unsubscribes.                                                 *)
LEMMA UnsubscribeKeeps == ASSUME Inv, NEW r \in Recipients, Unsubscribe(r) PROVE Inv'
  <1> DEFINE ms == {m \in Rows!Waiting(Mails \ Exempt) : Recipient[m] = r}
  <1>1. ms \in SUBSET Mails /\ \A m \in ms : status[m] \in Rows!Unsent
      BY DEF Rows!Waiting
  <1>2. Write(ms, "suppressed") /\ desk' = Losers(ms)
      BY DEF Unsubscribe
  <1> HIDE DEF ms
  <1>3. TypeOK'
    <2>1. "suppressed" \in Rows!Statuses
        BY DEF Rows!Statuses, Rows!Outcomes
    <2>2. status' \in [Mails -> Rows!Statuses] /\ desk' \in [Dispatchers -> Desks]
        BY <1>2, <2>1, WriteType, LosersType DEF Inv
    <2> QED
        BY <2>2 DEF Inv, TypeOK, Unsubscribe, history, counts, Recipients
  <1>4. \A d \in Dispatchers : Holding(d) /\ desk[d].mail \in current' => d \in timely'
      BY DEF Inv, Safe, WorkersOK, Worker, Unsubscribe, history
  <1> QED
      BY <1>1, <1>2, <1>3, <1>4, StopKeeps DEF Inv, Unsubscribe, history

(* Only the rows, the desks, what is current, who unsubscribed and the       *)
(* histories matter to the invariant.                                        *)
LEMMA SafeStays ==
  ASSUME Safe, UNCHANGED <<status, refused, current, unsubscribed, desk, history, accepted>>
  PROVE  Safe'
  <1>1. WorkersOK'
      BY DEF Safe, WorkersOK, Worker, Holding, Stopped, history
  <1> QED
      BY <1>1 DEF Safe, Alone, Holding, SentWasAccepted, RefusedStay

(* The vendor is suspended, or is not any more.                              *)
LEMMA SuspensionKeeps == ASSUME Inv, SuspensionChanges PROVE Inv'
  <1>1. suspended' \in BOOLEAN
      BY DEF SuspensionChanges
  <1>2. TypeOK'
      BY <1>1 DEF Inv, TypeOK, SuspensionChanges, row, history, counts, Recipients
  <1> QED
      BY <1>2, SafeStays DEF Inv, SuspensionChanges, row

(* A worker moves, the others stay or lose their claims, the rows of holders *)
(* but this one stay.                                                        *)
LEMMA OthersStay ==
  ASSUME Inv, NEW d \in Dispatchers,
         \A e \in Dispatchers \ {d} :
            /\ desk'[e] = desk[e] \/ desk'[e] = Idle
            /\ desk'[e].at = "read" => status'[desk[e].mail] \in Rows!Unsent
            /\ Holding(e) => status'[desk[e].mail] = "sending"
            /\ e \in asked => e \in asked'
            /\ e \in timely => e \in timely',
         accepted \subseteq accepted', UNCHANGED <<current, unsubscribed>>
  PROVE  \A e \in Dispatchers \ {d} : Worker(e)'
  <1> SUFFICES ASSUME NEW e \in Dispatchers \ {d} PROVE Worker(e)'
      OBVIOUS
  <1>1. Worker(e)
      BY DEF Inv, Safe, WorkersOK
  <1>2. Holding(e) /\ desk[e].mail \in current' => e \in timely'
      BY <1>1 DEF Worker
  <1> QED
      BY <1>1, <1>2, WorkerStays

(* A worker reads a row that is due.                                         *)
LEMMA ConsiderKeeps ==
  ASSUME Inv, NEW d \in Dispatchers, NEW m \in Mails, Consider(d, m)
  PROVE  Inv'
  <1>1. desk'[d] = [Idle EXCEPT !.at = "read", !.mail = m]
        /\ \A e \in Dispatchers \ {d} : desk'[e] = desk[e]
      BY DEF Inv, TypeOK, Consider
  <1>2. TypeOK'
    <2>1. desk' \in [Dispatchers -> Desks]
        BY DEF Inv, TypeOK, Consider, Desks, Idle, Places, Verdicts
    <2> QED
        BY <2>1 DEF Inv, TypeOK, Consider, row, world, history, counts, Recipients
  <1>3. Worker(d)'
      BY <1>1 DEF Consider, Worker, Holding, Idle, row
  <1>4. \A e \in Dispatchers \ {d} : Worker(e)'
      BY <1>1, OthersStay DEF Inv, Safe, WorkersOK, Worker, Consider, row, world, history
  <1>5. Alone'
      BY <1>1 DEF Inv, Safe, Alone, Holding, Idle
  <1> QED
      BY <1>2, <1>3, <1>4, <1>5
      DEF Inv, Safe, WorkersOK, SentWasAccepted, RefusedStay, Consider, row
(* A worker claims the row it read.                                          *)
LEMMA ClaimKeeps == ASSUME Inv, NEW d \in Dispatchers, Claim(d) PROVE Inv'
  <1> DEFINE m == desk[d].mail
  <1>1. m \in Mails /\ status[m] \in Rows!Unsent
      BY DEF Inv, Safe, WorkersOK, Worker, Claim
  <1>2. /\ desk'[d].at = "claimed" /\ desk'[d].mail = m /\ desk'[d].verdict = desk[d].verdict
        /\ \A e \in Dispatchers \ {d} :
              IF desk[e].at = "read" /\ desk[e].mail = m
              THEN desk'[e] = Idle ELSE desk'[e] = desk[e]
      BY DEF Inv, TypeOK, Desks, Claim, Losers
  <1>3. status'[m] = "sending" /\ \A o \in Mails \ {m} : status'[o] = status[o]
      BY <1>1 DEF Claim, Write
  <1>3a. /\ asked' = IF Stopped(m) THEN asked ELSE asked \cup {d}
         /\ timely' = IF m \in current THEN timely \cup {d} ELSE timely
         /\ unsubscribed' = unsubscribed /\ current' = current
      BY DEF Claim, world
  <1>4. TypeOK'
    <2>1. "sending" \in Rows!Statuses
        BY DEF Rows!Statuses, Rows!Pending
    <2>2. status' \in [Mails -> Rows!Statuses]
        BY <2>1, WriteType DEF Inv, Claim
    <2>3. attempts' \in [Mails -> Nat]
      <3>1. attempts' = [attempts EXCEPT ![m] = @ + 1]
          BY DEF Claim
      <3> QED
          BY <1>1, <3>1 DEF Inv, TypeOK
    <2>4. Losers({m}) \in [Dispatchers -> Desks]
        BY LosersType DEF Inv
    <2>5. [desk[d] EXCEPT !.at = "claimed", !.tries = attempts[m] + 1] \in Desks
      <3>1. desk[d] \in Desks /\ attempts[m] + 1 \in Nat
          BY <1>1 DEF Inv, TypeOK
      <3>2. "claimed" \in Places
          BY DEF Places
      <3> QED
          BY <3>1, <3>2 DEF Desks
    <2>6. desk' \in [Dispatchers -> Desks]
        BY <2>4, <2>5 DEF Claim
    <2>7. asked' \subseteq Dispatchers /\ timely' \subseteq Dispatchers
        BY <1>3a DEF Inv, TypeOK
    <2> QED
        BY <2>2, <2>3, <2>6, <2>7 DEF Inv, TypeOK, Claim, world, counts, Recipients
  <1>5. Worker(d)'
    <2>1. Stopped(m) \/ d \in asked'
        BY <1>3a
    <2>2. m \in current' => d \in timely'
        BY <1>3a
    <2> QED
        BY <1>1, <1>2, <1>3, <1>3a, <2>1, <2>2 DEF Worker, Holding, Stopped
  <1>6. \A e \in Dispatchers \ {d} : Worker(e)'
    <2>1. \A e \in Dispatchers \ {d} :
             /\ desk'[e] = desk[e] \/ desk'[e] = Idle
             /\ desk'[e].at = "read" => desk[e].at = "read" /\ desk[e].mail # m
             /\ Holding(e) => desk[e].mail # m
        BY <1>1, <1>2, HolderSends DEF Idle, Rows!Unsent
    <2>2. \A e \in Dispatchers : Worker(e)
        BY DEF Inv, Safe, WorkersOK
    <2>3. \A e \in Dispatchers \ {d} :
             /\ desk'[e].at = "read" => status'[desk[e].mail] \in Rows!Unsent
             /\ Holding(e) => status'[desk[e].mail] = "sending"
        BY <1>3, <2>1, <2>2 DEF Worker
    <2>4. asked \subseteq asked' /\ timely \subseteq timely'
        BY DEF Claim
    <2> QED
        BY <2>1, <2>3, <2>4, OthersStay DEF Claim, world
  <1>7. Alone'
    <2>1. \A e \in Dispatchers : Holding(e) => desk[e].mail # m
        BY <1>1, HolderSends DEF Rows!Unsent
    <2> QED
        BY <1>2, <2>1 DEF Inv, Safe, Alone, Holding, Idle
  <1>8. SentWasAccepted' /\ RefusedStay'
      BY <1>1, <1>3 DEF Inv, TypeOK, Safe, SentWasAccepted, RefusedStay, Claim, Rows!Unsent
  <1> QED
      BY <1>4, <1>5, <1>6, <1>7, <1>8 DEF Inv, Safe, WorkersOK

(* A step of a worker that holds a row and writes none.                      *)
LEMMA CheckKeeps ==
  ASSUME Inv, NEW d \in Dispatchers, Holding(d),
         NEW at \in {"allowed", "sound", "decided"}, NEW verdict \in Verdicts,
         desk' = [desk EXCEPT ![d].at = at, ![d].verdict = verdict],
         accepted \subseteq accepted', accepted' \subseteq Mails,
         UNCHANGED <<row, world, history, counts>>,
         at \in {"allowed", "sound"} => d \in asked,
         at = "sound" => d \in timely,
         at = "decided" =>
            /\ verdict # "none"
            /\ verdict = "sent" => desk[d].mail \in accepted'
            /\ verdict \notin {"suppressed", "superseded"} => d \in asked \cap timely
  PROVE  Inv'
  <1>1. /\ desk'[d].at = at /\ desk'[d].mail = desk[d].mail /\ desk'[d].verdict = verdict
        /\ \A e \in Dispatchers \ {d} : desk'[e] = desk[e]
      BY DEF Inv, TypeOK, Desks
  <1>2. TypeOK'
    <2>1. [desk[d] EXCEPT !.at = at, !.verdict = verdict] \in Desks
        BY DEF Inv, TypeOK, Desks, Places
    <2>2. desk' \in [Dispatchers -> Desks]
        BY <2>1 DEF Inv, TypeOK, Desks
    <2> QED
        BY <2>2 DEF Inv, TypeOK, row, world, history, counts, Recipients
  <1>3. Worker(d)'
      BY <1>1 DEF Inv, Safe, WorkersOK, Worker, Holding, Stopped, row, world, history
  <1>4. \A e \in Dispatchers \ {d} : Worker(e)'
    <2>1. \A e \in Dispatchers : Worker(e)
        BY DEF Inv, Safe, WorkersOK
    <2>2. \A e \in Dispatchers \ {d} :
             /\ desk'[e].at = "read" => status'[desk[e].mail] \in Rows!Unsent
             /\ Holding(e) => status'[desk[e].mail] = "sending"
        BY <1>1, <2>1 DEF Worker, row
    <2> QED
        BY <1>1, <2>2, OthersStay DEF world, history
  <1>5. Alone'
    <2>1. \A e \in Dispatchers : Holding(e)' => Holding(e) /\ desk'[e].mail = desk[e].mail
        BY <1>1 DEF Holding
    <2> QED
        BY <2>1 DEF Inv, Safe, Alone
  <1>6. SentWasAccepted' /\ RefusedStay'
      BY DEF Inv, Safe, SentWasAccepted, RefusedStay, row
  <1> QED
      BY <1>2, <1>3, <1>4, <1>5, <1>6 DEF Inv, Safe, WorkersOK

(* The recipient is looked up again.                                         *)
LEMMA RecipientKeeps == ASSUME Inv, NEW d \in Dispatchers, CheckRecipient(d) PROVE Inv'
  <1>1. Holding(d) /\ desk[d].at = "claimed" /\ accepted' = accepted /\ accepted \subseteq Mails
      BY DEF CheckRecipient, Holding, Inv, TypeOK
  <1>2. Worker(d) /\ desk[d] \in Desks
      BY DEF Inv, TypeOK, Safe, WorkersOK
  <1>3. CASE Stopped(desk[d].mail)
    <2>1. "suppressed" \in Verdicts /\ Decide(d, "suppressed")
        BY <1>3 DEF CheckRecipient, Verdicts
    <2> QED
        BY <1>1, <2>1, CheckKeeps DEF CheckRecipient, Decide
  <1>4. CASE ~Stopped(desk[d].mail)
    <2>1. desk' = [desk EXCEPT ![d].at = "allowed", ![d].verdict = desk[d].verdict]
        BY <1>2, <1>4 DEF CheckRecipient, Desks, Inv, TypeOK
    <2>2. desk[d].verdict \in Verdicts /\ d \in asked
        BY <1>1, <1>2, <1>4 DEF Worker, Desks
    <2> QED
        BY <1>1, <2>1, <2>2, CheckKeeps DEF CheckRecipient
  <1> QED
      BY <1>3, <1>4

(* The source is read again.                                                 *)
LEMMA CheckSourceKeeps == ASSUME Inv, NEW d \in Dispatchers, CheckSource(d) PROVE Inv'
  <1>1. Holding(d) /\ desk[d].at = "allowed" /\ accepted' = accepted /\ accepted \subseteq Mails
      BY DEF CheckSource, Holding, Inv, TypeOK
  <1>2. Worker(d) /\ desk[d] \in Desks
      BY DEF Inv, TypeOK, Safe, WorkersOK
  <1>3. CASE desk[d].mail \in current
    <2>1. desk' = [desk EXCEPT ![d].at = "sound", ![d].verdict = desk[d].verdict]
        BY <1>2, <1>3 DEF CheckSource, Desks, Inv, TypeOK
    <2>2. desk[d].verdict \in Verdicts /\ d \in asked /\ d \in timely
        BY <1>1, <1>2, <1>3 DEF Worker, Desks
    <2> QED
        BY <1>1, <2>1, <2>2, CheckKeeps DEF CheckSource
  <1>4. CASE desk[d].mail \notin current
    <2>1. "superseded" \in Verdicts /\ Decide(d, "superseded")
        BY <1>4 DEF CheckSource, Verdicts
    <2> QED
        BY <1>1, <2>1, CheckKeeps DEF CheckSource, Decide
  <1> QED
      BY <1>3, <1>4

(* The provider answers.                                                     *)
LEMMA SendKeeps == ASSUME Inv, NEW d \in Dispatchers, Send(d) PROVE Inv'
  <1>1. Holding(d) /\ desk[d].at = "sound"
      BY DEF Send, Holding
  <1>2. Worker(d) /\ desk[d].mail \in Mails
      BY <1>1, HolderSends DEF Inv, Safe, WorkersOK
  <1>3. PICK answer \in Answers :
           /\ Decide(d, answer.verdict)
           /\ accepted' = IF answer.takes
                          THEN accepted \cup {desk[d].mail} ELSE accepted
      BY DEF Send
  <1>4. /\ answer.verdict \in {"sent", "garbled", "refused", "busy", "retry"}
        /\ answer.verdict = "sent" => answer.takes
      BY DEF Answers
  <1>5. accepted \subseteq accepted' /\ accepted' \subseteq Mails
      BY <1>2, <1>3 DEF Inv, TypeOK
  <1>6. d \in asked /\ d \in timely
      BY <1>1, <1>2 DEF Worker
  <1>7. answer.verdict = "sent" => desk[d].mail \in accepted'
      BY <1>3, <1>4
  <1> QED
      BY <1>1, <1>3, <1>4, <1>5, <1>6, <1>7, CheckKeeps DEF Send, Decide, Verdicts
(* What a settled mail gets.                                                 *)
OutcomeOf(d) ==
    CASE desk[d].verdict \in {"refused", "garbled"} -> "exhausted"
      [] desk[d].verdict \in {"busy", "retry"} -> AfterFailure(desk[d].mail)
      [] OTHER -> desk[d].verdict

(* A decision leaves nothing but an outcome or another attempt.              *)
LEMMA OutcomeKnown ==
  ASSUME Inv, NEW d \in Dispatchers, desk[d].at = "decided"
  PROVE  /\ OutcomeOf(d) \in Rows!Outcomes \cup {"failed"}
         /\ OutcomeOf(d) = "sent" => desk[d].mail \in accepted
  <1>1. desk[d].verdict \in Verdicts \ {"none"}
        /\ (desk[d].verdict = "sent" => desk[d].mail \in accepted)
      BY DEF Inv, TypeOK, Safe, WorkersOK, Worker, Desks
  <1>2. AfterFailure(desk[d].mail) \in {"exhausted", "failed"}
      BY DEF AfterFailure
  <1> QED
      BY <1>1, <1>2 DEF OutcomeOf, Verdicts, Rows!Outcomes

(* A worker goes back to idle, whatever it was at; nobody else moves, and    *)
(* the rows of the other holders stay.                                       *)
LEMMA LeaveKeeps ==
  ASSUME Inv, NEW d \in Dispatchers, Leave(d),
         accepted' = accepted, UNCHANGED <<current, unsubscribed>>,
         \A e \in Dispatchers \ {d} :
            /\ desk[e].at = "read" => status'[desk[e].mail] \in Rows!Unsent
            /\ Holding(e) => status'[desk[e].mail] = "sending"
  PROVE  /\ WorkersOK' /\ Alone'
         /\ desk' \in [Dispatchers -> Desks]
         /\ asked' \subseteq Dispatchers /\ timely' \subseteq Dispatchers
  <1>1. desk'[d] = Idle /\ \A e \in Dispatchers \ {d} : desk'[e] = desk[e]
      BY DEF Leave, Inv, TypeOK
  <1>2. Worker(d)'
      BY <1>1 DEF Worker, Holding, Idle
  <1>3. \A e \in Dispatchers \ {d} : Worker(e)'
    <2>1. \A e \in Dispatchers \ {d} :
             /\ e \in asked => e \in asked'
             /\ e \in timely => e \in timely'
        BY DEF Leave
    <2> QED
        BY <1>1, <2>1, OthersStay
  <1>4. Alone'
      BY <1>1 DEF Inv, Safe, Alone, Holding, Idle
  <1>5. desk' \in [Dispatchers -> Desks]
      BY DEF Leave, Inv, TypeOK, Desks, Idle, Places, Verdicts
  <1>6. asked' \subseteq Dispatchers /\ timely' \subseteq Dispatchers
      BY DEF Leave, Inv, TypeOK
  <1> QED
      BY <1>2, <1>3, <1>4, <1>5, <1>6 DEF WorkersOK

(* A worker goes and leaves the rows as they are.                            *)
LEMMA GiveUpKeeps ==
  ASSUME Inv, NEW d \in Dispatchers, Leave(d),
         UNCHANGED <<status, attempts, refused, accepted, suspended, edits,
                     counts, current, unsubscribed>>
  PROVE  Inv'
  <1>1. \A e \in Dispatchers \ {d} :
           /\ desk[e].at = "read" => status'[desk[e].mail] \in Rows!Unsent
           /\ Holding(e) => status'[desk[e].mail] = "sending"
      BY DEF Inv, Safe, WorkersOK, Worker
  <1>2. /\ WorkersOK' /\ Alone'
        /\ desk' \in [Dispatchers -> Desks]
        /\ asked' \subseteq Dispatchers /\ timely' \subseteq Dispatchers
      BY <1>1, LeaveKeeps
  <1>3. TypeOK'
      BY <1>2 DEF Inv, TypeOK, counts, Recipients
  <1>4. SentWasAccepted' /\ RefusedStay'
      BY DEF Inv, Safe, SentWasAccepted, RefusedStay
  <1> QED
      BY <1>2, <1>3, <1>4 DEF Inv, Safe

(* A worker writes what became of its mail.                                  *)
LEMMA OutcomeKeeps ==
  ASSUME Inv, NEW d \in Dispatchers, Finish(d), attempts[desk[d].mail] = desk[d].tries
  PROVE  Inv'
  <1> DEFINE m == desk[d].mail
  <1>1. desk[d].at = "decided" /\ Holding(d) /\ m \in Mails /\ status[m] = "sending"
      BY HolderSends DEF Finish, Holding
  <1>2. Write({m}, OutcomeOf(d))
        /\ refused' = IF desk[d].verdict \in {"refused", "busy"} /\ OutcomeOf(d) = "exhausted"
                      THEN refused \cup {m} ELSE refused
      BY <1>1 DEF Finish, OutcomeOf
  <1>3. /\ OutcomeOf(d) \in Rows!Outcomes \cup {"failed"}
        /\ OutcomeOf(d) = "sent" => m \in accepted
      BY <1>1, OutcomeKnown
  <1>4. status'[m] = OutcomeOf(d) /\ \A o \in Mails \ {m} : status'[o] = status[o]
      BY <1>1, <1>2 DEF Write
  <1>5. Leave(d) /\ UNCHANGED <<attempts, accepted, suspended, edits, counts, current, unsubscribed>>
      BY DEF Finish, world
  <1>6. \A e \in Dispatchers \ {d} :
           /\ desk[e].at = "read" => status'[desk[e].mail] \in Rows!Unsent
           /\ Holding(e) => status'[desk[e].mail] = "sending"
    <2>1. \A e \in Dispatchers \ {d} : Worker(e) /\ (Holding(e) => desk[e].mail # m)
        BY <1>1 DEF Inv, Safe, WorkersOK, Alone
    <2>2. \A e \in Dispatchers \ {d} : desk[e].at = "read" => desk[e].mail # m
        BY <1>1, <2>1 DEF Worker, Rows!Unsent
    <2> QED
        BY <1>4, <2>1, <2>2 DEF Worker
  <1>7. /\ WorkersOK' /\ Alone'
        /\ desk' \in [Dispatchers -> Desks]
        /\ asked' \subseteq Dispatchers /\ timely' \subseteq Dispatchers
      BY <1>5, <1>6, LeaveKeeps
  <1>8. TypeOK'
    <2>1. OutcomeOf(d) \in Rows!Statuses
        BY <1>3 DEF Rows!Statuses, Rows!Pending, Rows!Unsent
    <2>2. status' \in [Mails -> Rows!Statuses]
        BY <1>2, <2>1, WriteType DEF Inv
    <2>3. refused' \subseteq Mails
        BY <1>1, <1>2 DEF Inv, TypeOK
    <2> QED
        BY <1>5, <1>7, <2>2, <2>3 DEF Inv, TypeOK, counts, Recipients
  <1>9. SentWasAccepted' /\ RefusedStay'
      BY <1>1, <1>2, <1>3, <1>4, <1>5
      DEF Inv, TypeOK, Safe, SentWasAccepted, RefusedStay
  <1> QED
      BY <1>7, <1>8, <1>9 DEF Inv, Safe

(* ... unless the row is at another attempt.                                 *)
LEMMA FinishKeeps == ASSUME Inv, NEW d \in Dispatchers, Finish(d) PROVE Inv'
  <1>1. CASE attempts[desk[d].mail] = desk[d].tries
      BY <1>1, OutcomeKeeps
  <1>2. CASE attempts[desk[d].mail] # desk[d].tries
    <2>1. Leave(d) /\ UNCHANGED <<status, attempts, refused, accepted, suspended, edits,
                                  counts, current, unsubscribed>>
        BY <1>2 DEF Finish, world
    <2> QED
        BY <2>1, GiveUpKeeps
  <1> QED
      BY <1>1, <1>2

(* A worker is killed.                                                       *)
LEMMA CrashKeeps == ASSUME Inv, NEW d \in Dispatchers, Crash(d) PROVE Inv'
  <1>1. Leave(d) /\ UNCHANGED <<status, attempts, refused, accepted, suspended, edits,
                                counts, current, unsubscribed>>
      BY DEF Crash, row, world
  <1> QED
      BY <1>1, GiveUpKeeps

(* The job takes back a row whose worker is gone.                            *)
LEMMA RecoverKeeps == ASSUME Inv, NEW m \in Mails, Recover(m) PROVE Inv'
  <1>1. /\ status[m] = "sending" /\ Write({m}, AfterFailure(m))
        /\ \A d \in Dispatchers : ~(Holding(d) /\ desk[d].mail = m)
      BY DEF Recover, LeaseOver, Holder
  <1>2. AfterFailure(m) \in {"exhausted", "failed"}
      BY DEF AfterFailure
  <1>3. status'[m] = AfterFailure(m) /\ \A o \in Mails \ {m} : status'[o] = status[o]
      BY <1>1 DEF Write
  <1>4. TypeOK'
    <2>1. AfterFailure(m) \in Rows!Statuses
        BY <1>2 DEF Rows!Statuses, Rows!Pending, Rows!Unsent, Rows!Outcomes
    <2>2. status' \in [Mails -> Rows!Statuses]
        BY <1>1, <2>1, WriteType DEF Inv
    <2> QED
        BY <2>2 DEF Inv, TypeOK, Recover, world, history, counts, Recipients
  <1>5. Safe'
    <2>1. desk' = Losers({})
        BY NobodyLost DEF Inv, Recover
    <2>2. \A o \in refused : status'[o] = "exhausted"
        BY <1>1, <1>3 DEF Inv, TypeOK, Safe, RefusedStay
    <2>3. \A d \in Dispatchers :
             /\ Holding(d) => status'[desk[d].mail] = "sending"
             /\ Holding(d) /\ desk[d].mail \in current' => d \in timely'
        BY <1>1, <1>3, HolderSends DEF Inv, Safe, WorkersOK, Worker, Recover, world, history
    <2>4. \A o \in Mails :
             /\ status[o] \in Rows!Unsent => status'[o] \in Rows!Unsent
             /\ status'[o] = "sent" => status[o] = "sent"
        BY <1>1, <1>2, <1>3 DEF Rows!Unsent
    <2> QED
        BY <2>1, <2>2, <2>3, <2>4, WriterKeeps DEF Recover, world, history
  <1> QED
      BY <1>4, <1>5 DEF Inv

(* The merchant retries a mail, or learns that it is stale.                  *)
LEMMA RequeueKeeps == ASSUME Inv, NEW m \in Mails, Requeue(m) PROVE Inv'
  <1>1. status[m] \in {"failed", "exhausted"} /\ m \notin refused
      BY DEF Inv, TypeOK, Safe, RefusedStay, Requeue, CanRequeue
  <1>2. PICK new \in {"queued", "superseded"} : Write({m}, new)
      BY DEF Requeue
  <1>3. status'[m] = new /\ \A o \in Mails \ {m} : status'[o] = status[o]
      BY <1>2 DEF Write
  <1>4. TypeOK'
    <2>1. new \in Rows!Statuses
        BY DEF Rows!Statuses, Rows!Pending, Rows!Unsent, Rows!Outcomes
    <2>2. status' \in [Mails -> Rows!Statuses]
        BY <1>2, <2>1, WriteType DEF Inv
    <2>3. attempts' \in [Mails -> Nat]
      <3>1. attempts' = attempts \/ attempts' = [attempts EXCEPT ![m] = 0]
          BY DEF Requeue
      <3> QED
          BY <3>1 DEF Inv, TypeOK
    <2>4. requeues' \in 0..MaxRequeues
        BY OutboxAssumption DEF Inv, TypeOK, Requeue, OutboxAssumption
    <2>5. desk' \in [Dispatchers -> Desks]
        BY LosersType DEF Inv, Requeue
    <2> QED
        BY <2>2, <2>3, <2>4, <2>5 DEF Inv, TypeOK, Requeue, world, history, Recipients
  <1>5. Safe'
    <2>1. desk' = Losers({m})
        BY DEF Requeue
    <2>2. \A o \in refused : status'[o] = "exhausted"
        BY <1>1, <1>3 DEF Inv, TypeOK, Safe, RefusedStay
    <2>3. \A d \in Dispatchers :
             /\ Holding(d) => status'[desk[d].mail] = "sending"
             /\ Holding(d) /\ desk[d].mail \in current' => d \in timely'
        BY <1>1, <1>3, HolderSends DEF Inv, Safe, WorkersOK, Worker, Requeue, world, history
    <2>4. \A o \in Mails :
             /\ status[o] \in Rows!Unsent /\ o \notin {m} => status'[o] \in Rows!Unsent
             /\ status'[o] = "sent" => status[o] = "sent"
        BY <1>3
    <2> QED
        BY <2>1, <2>2, <2>3, <2>4, WriterKeeps DEF Requeue, world, history
  <1> QED
      BY <1>4, <1>5 DEF Inv
(* An empty outbox satisfies the invariant.                                  *)
LEMMA OutboxInit == Init => Inv
  <1> SUFFICES ASSUME Init PROVE Inv
      OBVIOUS
  <1> USE OutboxAssumption DEF Init, OutboxAssumption
  <1>1. TypeOK
    <2>1. desk \in [Dispatchers -> Desks]
        BY DEF Desks, Idle, Places, Verdicts
    <2>2. status \in [Mails -> Rows!Statuses]
        BY DEF Rows!Init, Rows!Statuses
    <2>3. suspended \in BOOLEAN
        OBVIOUS
    <2>4. edits \in 0..MaxEdits /\ requeues \in 0..MaxRequeues /\ restores \in 0..MaxRestores
        OBVIOUS
    <2>5. attempts \in [Mails -> Nat]
        OBVIOUS
    <2> QED
        BY <2>1, <2>2, <2>3, <2>4, <2>5 DEF TypeOK
  <1>2. WorkersOK /\ Alone
      BY DEF WorkersOK, Worker, Alone, Holding, Idle
  <1>3. SentWasAccepted /\ RefusedStay
      BY DEF SentWasAccepted, RefusedStay, Rows!Init
  <1> QED
      BY <1>1, <1>2, <1>3 DEF Inv, Safe

(* Every step keeps it.                                                      *)
LEMMA OutboxStep == Inv /\ [Next]_vars => Inv'
  <1> SUFFICES ASSUME Inv, [Next]_vars PROVE Inv'
      OBVIOUS
  <1>1. CASE \E m \in Mails : Plan(m) \/ Recover(m) \/ Requeue(m)
      BY <1>1, CreateKeeps, EnsureKeeps, RecoverKeeps, RequeueKeeps DEF Plan
  <1>2. CASE \E d \in Dispatchers, m \in Mails : Consider(d, m)
      BY <1>2, ConsiderKeeps
  <1>3. CASE \E d \in Dispatchers : Work(d) \/ Crash(d)
      BY <1>3, ClaimKeeps, RecipientKeeps, CheckSourceKeeps, SendKeeps, FinishKeeps,
         CrashKeeps DEF Work
  <1>4. CASE \E now \in Sources, cancelled \in {{}, Rows!Waiting(Reminders)} :
                SourceChanges(now, cancelled)
      BY <1>4, SourceKeeps
  <1>5. CASE CancelReminders
      BY <1>5, CancelKeeps
  <1>6. CASE \E r \in Recipients : Unsubscribe(r)
      BY <1>6, UnsubscribeKeeps
  <1>7. CASE SuspensionChanges
      BY <1>7, SuspensionKeeps
  <1>8. CASE UNCHANGED vars
    <2>1. TypeOK'
        BY <1>8 DEF Inv, TypeOK, vars, row, world, history, counts, Recipients
    <2>2. UNCHANGED <<status, refused, current, unsubscribed, desk, history, accepted>>
        BY <1>8 DEF vars, row, world
    <2> QED
        BY <2>1, <2>2, SafeStays DEF Inv
  <1> QED
      BY <1>1, <1>2, <1>3, <1>4, <1>5, <1>6, <1>7, <1>8 DEF Next

(* The strengthening behind the theorems of this module.                     *)
LEMMA OutboxInvariant == Spec => []Inv
  BY OutboxInit, OutboxStep, PTL DEF Spec

(* Type correctness of the outbox.                                           *)
THEOREM OutboxTyping == Spec => []TypeOK
  <1>1. Inv => TypeOK
      BY DEF Inv
  <1> QED
      BY <1>1, OutboxInvariant, PTL

(* However many workers, hooks and recoveries there are, one of them at a    *)
(* time works on a mail that it claimed, and its row says so.                *)
THEOREM MailHasOneSender == Spec => []OneSender
  <1>1. Inv => OneSender
      BY HolderSends DEF Inv, Safe, Alone, OneSender, Holder
  <1> QED
      BY <1>1, OutboxInvariant, PTL

(* No crash, lost answer or retry makes a row say sent of a mail that the    *)
(* provider never took.                                                      *)
THEOREM SentMeansAccepted == Spec => []SentWasAccepted
  <1>1. Inv => SentWasAccepted
      BY DEF Inv, Safe
  <1> QED
      BY <1>1, OutboxInvariant, PTL

(* No mail reaches the provider under a claim during which its recipient was *)
(* unsubscribed throughout or its source never current.                      *)
THEOREM OnlyWantedMail == Spec => []SentWhenWanted
  <1>1. Inv => SentWhenWanted
      BY DEF Inv, TypeOK, Safe, WorkersOK, Worker, SentWhenWanted
  <1> QED
      BY <1>1, OutboxInvariant, PTL

(* One step of the outbox is one step of its rows, or none.                  *)
LEMMA RowsStep == Inv /\ [Next]_vars => [Rows!Next]_status
  <1> SUFFICES ASSUME Inv, [Next]_vars PROVE [Rows!Next]_status
      OBVIOUS
  <1> USE OutboxAssumption DEF OutboxAssumption
  <1>1. ASSUME NEW m \in Mails, Create(m) PROVE Rows!Next
    <2>1. PICK s \in ReadsSuppressed(m) : Rows!Create(m, s /\ m \notin Exempt)
        BY <1>1 DEF Create
    <2>2. (s /\ m \notin Exempt) \in BOOLEAN
        BY Zenon
    <2> QED
        BY <2>1, <2>2, Zenon DEF Rows!Next
  <1>2. ASSUME NEW m \in Mails, EnsureReminder(m) PROVE Rows!Next
    <2>1. PICK s \in ReadsSuppressed(m) : Rows!EnsureReminder(m, s)
        BY <1>2 DEF EnsureReminder
    <2>2. s \in BOOLEAN
        BY Zenon DEF ReadsSuppressed
    <2>3. \E isSuppressed \in BOOLEAN : Rows!EnsureReminder(m, isSuppressed)
        BY <2>1, <2>2, Zenon
    <2> QED
        BY <2>3 DEF Rows!Next
  <1>3. ASSUME NEW ms \in SUBSET Mails, NEW new \in {"suppressed", "superseded"},
               ms \subseteq Rows!Waiting(Mails), Write(ms, new)
        PROVE  Rows!Next
    <2>1. Rows!Stop(ms, new)
        BY <1>3 DEF Rows!Stop, Write, Rows!Write
    <2> QED
        BY <2>1 DEF Rows!Next
  <1>4. CASE CancelReminders
    <2>1. Rows!Waiting(Reminders) \subseteq Rows!Waiting(Mails)
          /\ Rows!Waiting(Reminders) \in SUBSET Mails
        BY DEF Rows!Waiting
    <2> QED
        BY <1>3, <1>4, <2>1 DEF CancelReminders
  <1>5. ASSUME NEW now \in Sources, NEW cancelled \in {{}, Rows!Waiting(Reminders)},
               SourceChanges(now, cancelled)
        PROVE  Rows!Next
    <2>1. cancelled \subseteq Rows!Waiting(Mails) /\ cancelled \in SUBSET Mails
        BY DEF Rows!Waiting
    <2> QED
        BY <1>3, <1>5, <2>1 DEF SourceChanges
  <1>6. ASSUME NEW r \in Recipients, Unsubscribe(r) PROVE Rows!Next
    <2> DEFINE ms == {m \in Rows!Waiting(Mails \ Exempt) : Recipient[m] = r}
    <2>1. ms \subseteq Rows!Waiting(Mails) /\ ms \in SUBSET Mails
        BY DEF Rows!Waiting
    <2>2. Write(ms, "suppressed")
        BY <1>6 DEF Unsubscribe
    <2> QED
        BY <1>3, <2>1, <2>2
  <1>7. ASSUME NEW d \in Dispatchers, Work(d) PROVE Rows!Next \/ UNCHANGED status
    <2>1. CASE Claim(d)
      <3>1. desk[d].mail \in Mails /\ status[desk[d].mail] \in Rows!Unsent
          BY <2>1 DEF Inv, Safe, WorkersOK, Worker, Claim
      <3>2. Rows!Take(desk[d].mail)
          BY <2>1, <3>1 DEF Claim, Write, Rows!Take, Rows!Write
      <3> QED
          BY <3>1, <3>2 DEF Rows!Next, Rows!Send
    <2>2. CASE CheckRecipient(d) \/ CheckSource(d) \/ Send(d)
        BY <2>2 DEF CheckRecipient, CheckSource, Send, row
    <2>3. CASE Finish(d)
      <3>1. desk[d].mail \in Mails /\ status[desk[d].mail] = "sending"
            /\ OutcomeOf(d) \in Rows!Outcomes \cup {"failed"}
          BY <2>3, HolderSends, OutcomeKnown DEF Finish, Holding
      <3>2. Write({desk[d].mail}, OutcomeOf(d)) \/ UNCHANGED status
          BY <2>3, <3>1 DEF Finish, OutcomeOf
      <3>3. Rows!Settle(desk[d].mail, OutcomeOf(d)) \/ UNCHANGED status
          BY <3>1, <3>2 DEF Write, Rows!Settle, Rows!Write
      <3> QED
          BY <3>1, <3>3 DEF Rows!Next, Rows!Send
    <2> QED
        BY <1>7, <2>1, <2>2, <2>3 DEF Work
  <1>8. ASSUME NEW m \in Mails, Recover(m) PROVE Rows!Next
    <2>1. AfterFailure(m) \in Rows!Outcomes \cup {"failed"}
        BY DEF AfterFailure, Rows!Outcomes
    <2>2. Rows!Settle(m, AfterFailure(m))
        BY <1>8, <2>1 DEF Recover, Write, Rows!Settle, Rows!Write
    <2> QED
        BY <2>1, <2>2 DEF Rows!Next, Rows!Send
  <1>9. ASSUME NEW m \in Mails, Requeue(m) PROVE Rows!Next
    <2>1. PICK new \in {"queued", "superseded"} : Write({m}, new)
        BY <1>9 DEF Requeue
    <2>2. Rows!Reopen(m, new)
        BY <1>9, <2>1 DEF Requeue, CanRequeue, Write, Rows!Reopen, Rows!Write
    <2> QED
        BY <2>2 DEF Rows!Next
  <1>10. ASSUME NEW d \in Dispatchers, NEW m \in Mails, Consider(d, m) PROVE UNCHANGED status
      BY <1>10 DEF Consider, row
  <1>11. ASSUME NEW d \in Dispatchers, Crash(d) PROVE UNCHANGED status
      BY <1>11 DEF Crash, row
  <1>12. CASE SuspensionChanges \/ UNCHANGED vars
      BY <1>12 DEF SuspensionChanges, vars, row
  <1> QED
      BY <1>1, <1>2, <1>4, <1>5, <1>6, <1>7, <1>8, <1>9, <1>10, <1>11, <1>12 DEF Next, Plan

(* The outbox, with its workers, crashes, recoveries and retries, keeps the  *)
(* promise that those who write into it rely on.                             *)
THEOREM OutboxImplementsRows == Spec => RowsSpec
  <1>1. Init => Rows!Init
      BY DEF Init
  <1> QED
      BY <1>1, OutboxInvariant, RowsStep, PTL DEF Spec, RowsSpec, Rows!Spec

(* A refusal for good is not forgotten.                                      *)
LEMMA RefusedGrows == Inv /\ [Next]_vars => refused \subseteq refused'
  <1> SUFFICES ASSUME Inv, [Next]_vars PROVE refused \subseteq refused'
      OBVIOUS
  <1>1. ASSUME NEW d \in Dispatchers, Work(d) PROVE refused \subseteq refused'
    <2>1. CASE Claim(d) \/ CheckRecipient(d) \/ CheckSource(d) \/ Send(d)
        BY <2>1 DEF Claim, CheckRecipient, CheckSource, Send, row
    <2>2. CASE Finish(d)
        BY <2>2 DEF Finish
    <2> QED
        BY <1>1, <2>1, <2>2 DEF Work
  <1>2. CASE \/ \E m \in Mails : Plan(m) \/ Recover(m) \/ Requeue(m)
             \/ \E d \in Dispatchers, m \in Mails : Consider(d, m)
             \/ \E d \in Dispatchers : Crash(d)
      BY <1>2 DEF Plan, Create, EnsureReminder, Recover, Requeue, Consider, Crash, row
  <1>3. CASE \/ \E now \in Sources, cancelled \in {{}, Rows!Waiting(Reminders)} :
                   SourceChanges(now, cancelled)
             \/ CancelReminders
             \/ \E r \in Recipients : Unsubscribe(r)
      BY <1>3 DEF SourceChanges, CancelReminders, Unsubscribe
  <1>4. CASE SuspensionChanges \/ UNCHANGED vars
      BY <1>4 DEF SuspensionChanges, vars, row
  <1> QED
      BY <1>1, <1>2, <1>3, <1>4 DEF Next

(* What the promise about rows says of those that are settled.               *)
LEMMA RowsSettle ==
  ASSUME [Rows!Next]_status, NEW m \in Mails
  PROVE  /\ status[m] \in {"sent", "suppressed"} => status'[m] = status[m]
         /\ status[m] = "superseded" /\ m \notin Reminders => status'[m] = "superseded"
  <1> USE DEF Rows!Unsent
  <1>1. ASSUME NEW o \in Mails, NEW s \in BOOLEAN, Rows!Create(o, s)
        PROVE  status[m] # "none" => status'[m] = status[m]
      BY <1>1 DEF Rows!Create, Rows!Write
  <1>2. ASSUME NEW o \in Mails, NEW s \in BOOLEAN, Rows!EnsureReminder(o, s)
        PROVE  /\ status[m] \in {"sent", "suppressed"} => status'[m] = status[m]
               /\ status[m] = "superseded" /\ m \notin Reminders => status'[m] = "superseded"
    <2>1. m # o => status'[m] = status[m]
                   \/ (m \in Rows!Waiting(Rows!Siblings(o)) /\ status'[m] = "superseded")
        BY <1>2 DEF Rows!EnsureReminder, Rows!Replace
    <2>2. m = o => m \in Reminders
                   /\ (status[m] \notin {"none", "superseded"} => status'[m] = status[m])
      <3>1. PICK new : new = IF Rows!Opened(o) THEN Rows!First(s) ELSE status[o]
          OBVIOUS
      <3>2. o \in Reminders /\ Rows!Replace(Rows!Waiting(Rows!Siblings(o)), o, new)
          BY <1>2, <3>1 DEF Rows!EnsureReminder
      <3>3. m = o => status'[m] = new
        <4> DEFINE older == Rows!Waiting(Rows!Siblings(o))
        <4>1. status' = [x \in Mails |-> CASE x = o -> new
                                           [] x \in older -> "superseded"
                                           [] OTHER -> status[x]]
            BY <3>2 DEF Rows!Replace
        <4> HIDE DEF older
        <4>2. o \notin older
            BY DEF older, Rows!Waiting, Rows!Siblings
        <4> QED
            BY <4>1, <4>2
      <3> QED
          BY <3>1, <3>2, <3>3 DEF Rows!Opened
    <2> QED
        BY <2>1, <2>2 DEF Rows!Waiting
  <1>3. ASSUME NEW ms \in SUBSET Mails, NEW new \in {"suppressed", "superseded"},
               Rows!Stop(ms, new)
        PROVE  status[m] \notin Rows!Unsent => status'[m] = status[m]
      BY <1>3 DEF Rows!Stop, Rows!Write, Rows!Waiting
  <1>4. ASSUME NEW o \in Mails, Rows!Send(o)
        PROVE  status[m] \notin Rows!Unsent \cup {"sending"} => status'[m] = status[m]
      BY <1>4 DEF Rows!Send, Rows!Take, Rows!Settle, Rows!Write
  <1>5. ASSUME NEW o \in Mails, NEW new \in {"queued", "superseded"}, Rows!Reopen(o, new)
        PROVE  status[m] \notin {"failed", "exhausted"} => status'[m] = status[m]
      BY <1>5 DEF Rows!Reopen, Rows!Write
  <1>6. CASE Rows!Next
      BY <1>1, <1>2, <1>3, <1>4, <1>5, <1>6 DEF Rows!Next
  <1> QED
      BY <1>6

(* A mail that was sent, stopped or rejected to the end is never worked on      *)
(* again, whoever retries what.                                              *)
THEOREM SettledForGood == Spec => SettledKept
  <1> DEFINE Kept ==
        \A m \in Mails :
            /\ status[m] \in {"sent", "suppressed"} => status'[m] = status[m]
            /\ m \in refused => status'[m] = status[m]
            /\ status[m] = "superseded" /\ m \notin Reminders
                  => status'[m] = "superseded"
  <1>1. Inv /\ Inv' /\ [Next]_vars => Kept
    <2> SUFFICES ASSUME Inv, Inv', [Next]_vars, NEW m \in Mails
                 PROVE  /\ status[m] \in {"sent", "suppressed"} => status'[m] = status[m]
                        /\ m \in refused => status'[m] = status[m]
                        /\ status[m] = "superseded" /\ m \notin Reminders
                              => status'[m] = "superseded"
        OBVIOUS
    <2>1. [Rows!Next]_status
        BY RowsStep
    <2>2. m \in refused => status[m] = "exhausted" /\ status'[m] = "exhausted"
        BY RefusedGrows DEF Inv, Safe, RefusedStay
    <2> QED
        BY <2>1, <2>2, RowsSettle
  <1>2. Inv /\ Inv' /\ [Next]_vars => [Kept]_vars
      BY <1>1
  <1> HIDE DEF Kept
  <1>3. Spec => [][Kept]_vars
      BY <1>2, OutboxInvariant, PTL DEF Spec
  <1> QED
      BY <1>3 DEF Kept, SettledKept
=============================================================================
